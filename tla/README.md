# A TLA+ model of eegos

eegos is a small Go framework for game servers: a TCP layer with heartbeats (`src/network`), an RPC
layer on top of it (`src/rpc`), a registry of named servers (`src/cluster`), a shared counter
(`src/util`) and a logging package (`src/log`). This directory holds TLA+ models of its concurrent
core, the TLC runs that check them on small instances and TLAPS proofs of what matters most for
every instance. Paths below are relative to the repository, line numbers refer to its sources.

How to run: `tlc -config X.cfg M` for a run, `tlapm M.tla` for a proof module. PROJECT.json lists the
runs, maps every definition to the lines it models and names a faulty variant ("mutant") that each
property rejects; the mutants are the definitions whose comment starts with "Mutant:".

## Inventory

| Part | State | Operations | Modules | Status |
|---|---|---|---|---|
| `network.Session` (session.go) | `state`, channels `inData`, `outData`, `cClose`, the connection | Start, Reader, handleRead, handleWrite, doWrite, Release, Close | `Session` | modelled |
| Frame format (`pack`, `Reader`) | the byte stream | pack, Reader | `Frame`, `FrameProofs` | modelled |
| `network.TcpServer` and `TcpConn` (tcp.go) | the owner goroutine of each session | handleNewConn, processInData, Write, Close | `TcpServer`, `FramePipe`, `TcpServerProofs` | modelled, the accept loop left out |
| `network.TcpClient` (tcp.go) | timer, `cHeartbeat`, `isOpen` | Dial, processInData, heartbeat, handleHeartbeatRet, WriteData, Close | `TcpClient`, `TcpClientProofs` | one Dial |
| `rpc.Client` (client.go) | `callRet`, `mapLocker` | Dial, Call, Send, Message, Close | `RpcClient`, `Calls`, `RpcClientProofs` | modelled |
| `rpc.Server` (server.go) | `sessions`, `serviceMap` | Register, Connect, Message, RunFunc, Close | `RpcServer`, `RpcServerProofs` | modelled |
| `util.Counter` (util.go) | `Num`, its mutex | GetNum | `Counter`, `Ticket`, `CounterProofs` | modelled |
| `cluster` (cluster.go) | the global map `cClient` | Connect, Call, Send; Open, Register, Start | `Cluster`, `ClusterProofs` | the client half |
| `log`, package functions (log.go) | `LOG_LEVEL`, `defaultLogger` | Log .. Errorf, SetLevel, WithHeader, SetFlags, OpenStack | `Logger`, `LogProofs` | without SetFlags and OpenStack |
| `log.OriginLogger` (origin_logger.go) | a header string | VLog, KVLog, WithHeader, SetDepth | `Logger` | modelled |
| `log.InfluxdbLogger` (influxdb_logger.go) | its mutex, its buffers `tagSet` and `buf` | NewInfluxdbLogger, WithHeader, SetDepth, VLog, KVLog | `Logger`, `Logfmt`, `LogProofs` | without flags, caller and time |
| `log.SyncWriter`, `log.SwapLogger` (sync.go) | a mutex, an atomic value | Write; Swap, Log | `Logger` | modelled |
| `log` encoders (encode.go, jsonstring.go) | the pooled encoder: `buf`, `needSep`, `scratch` | EncodeKeyvals, EncodeKeyvalsWithQuoted, EndRecord, quoting, unquoting | `Logfmt`, `LogProofs` | modelled |
| `log` Valuers (value.go) | none | Caller, Timestamp | none | nothing calls them |

### How the parts interact

A `TcpServer` starts one goroutine per accepted connection. It creates a `Session`, whose `Start`
runs two more goroutines (handleRead, handleWrite), lets the `Handler` know (`Connect`) and then
becomes `processInData`: the only receiver of `inData` and of `cClose`. Each frame is handed to a
goroutine of its own, which may answer with `Write` (that is `doWrite`, a send on `outData`). When
handleRead ends it closes the connection and sends on the unbuffered `cClose`; the owner then calls
`TcpConn.Close`, which tells the Handler and releases the session: it closes the three channels.

A `TcpClient` owns one session in the same way and adds a heartbeat goroutine that waits for a timer,
sends a heartbeat and waits at most 3 s for the answer, which reaches it through a goroutine per answer.
Each frame received sets the timer again, in yet another goroutine.

`rpc.Client` and `rpc.Server` are the Handlers. A call draws a 16-bit session ID from the counter that
heartbeats use too, registers a channel under the ID, writes the request and waits for the channel or
3 s. The reply comes in a `Message` goroutine that looks the channel up, sends on it, removes the
entry and closes the channel. When the session ends `Client.Close` closes all registered channels.
The server keeps its sessions in a map under a 16-bit session number; requests find theirs there.
`cluster` keeps one `rpc.Client` per server name in a global map.

All of them log. A function of package `log` compares the level, copies the default logger, adds the
level to the tags of the copy and has the copy write the line. The default logger is an `OriginLogger`
until `NewInfluxdbLogger` replaces it. `KVLog` and `WithHeader` take an encoder from a pool, which quotes
keys and values; the line goes to a writer that a `SyncWriter` may guard. A `SwapLogger` hands events
to whichever logger it was given last, or drops them.

### What is hard

* No lock protects a session: four kinds of goroutine read and write `state` and use channels
  that the owner closes. Sends on a closed channel panic, and a panic ends the process.
* The select in processInData picks either ready case: the end of a session may overtake a frame.
* Timeouts race late answers: a heartbeat's, a call's.
* `Message` and `Client.Close` use the same channels outside the lock.
* Maps without locks: `sessions`, `serviceMap`, `cClient`. Go gives no result to an access that meets a
  write.
* Loggers are copied by value: mutexes as they stand, buffers with the array of the original.
* `defaultLogger` is an interface, two words, and is replaced without a lock while others read it.
* An encoder comes back to the pool from events that failed half way; a line is text that somebody
  has to read again, whatever the keys and values hold.
* 16-bit numbers wrap: call IDs, session numbers, frame lengths.

PROJECT.json ("hazards") has each of these with its line and the properties about it.

### What makes each part correct

* Session and server: frames once, in order, with a bounded loss at the end; release only after the
  reader; the only panic a known one; everything ends when the peer does.
* Client: heartbeats go on while they are answered; nothing piles up without a timeout; one
  notification of the end; panics only once somebody has called Close.
* RPC client: a call ends once, with its own answer or nil, and can always be woken.
* RPC server: a reply goes to the asker, once; map faults only between connections.
* Frames: what is packed is read back in order, whole where it fits, and the reader stays in step.
* Counter: consecutive numbers, as if GetNum were one step.
* Cluster: connections made are kept; a call dies of a nil session only behind a failed Dial.
* Log: a line has the tags and the message of its own event, once the default logger is replaced the
  old one is not used, and everybody who logs comes back.
* Log records: keys and values bring no newline into a record, which can be read in one way and gives
  back the measurement and tags of its logger and its own pairs; an event is given up only for a reason.

## Modules

**Session** is the session without its owner: reader, writer and `doWrite` goroutines, the channels
(records of a buffer and a flag), the connection and the peer. It has no specification; the two sides
extend it. The grain is that of Go's memory: one action per access of `state`, per channel operation
and per system call. `panic` records what ended the process and every action is guarded by it.
Contents of a frame are its `dType` and `head`; a frame to be sent is named by the goroutine
that sends it. Variables marked "(history)" only record.

**TcpServer** adds the owner: `NewSession`, `ConnectReturns` or `ConnectPanics`, `Dispatch`, `Notified`,
`HandlerClose` and the four steps of `Release`. Goroutines that answer frame i are writer i; `Pushers`
write unasked at any moment. **FramePipe** is the promise to the layer above: a FIFO that loses at
most `Cap` frames, and only at its end.

**TcpClient** adds the owner loop, the timer (`timerArmed`, `tickReady`: the one-place channel of
`time.Timer`), the `Reset` goroutines, heartbeat with its 3 s timeout as a step that may be taken
whenever it waits, the answer goroutines, and `Close` in eight steps, run by the owner or by
applications.

**RpcClient** abstracts the connection to what TcpClient makes of it (working, ended, released) and has
the callers, the map, the Message goroutines and Close, one entry per step, while it holds the lock.
**Calls** is what a call promises.

**RpcServer** has the stages of each connection, the steps of each request, the numbers of sessions and
the accesses of the two maps: a write is two steps, and whoever meets it has a fault. A request may be
one that Message cannot read, one without a method's name (which panics), one for an unknown method,
or one whose method returns values, none, something JSON cannot encode, or panics (`Kinds`).

**Frame** is the encoding at the level of bytes with `Base` values of a byte (256 in the code), and a
stream that may break off anywhere. `Pack` does what the code does, and sends an empty body in place of
one that is too big. `PrefixDelivered` does not: of such a body it takes any beginning for delivered
(`Conveys`), because comment and warning (session.go:102, 104) speak of a limit of 65535. What the property
says of these frames is that they arrive in their place with their type and head, and that those behind
them are read as they were sent. **Counter** is GetNum at the grain of lock, increment, read and
unlock; **Ticket** the same in one step. **Cluster** is the map `cClient`, accessed without a lock.

**Logger** has goroutines that log one event through the package (`Events`) and goroutines that log
through a SwapLogger (`Direct`). `default` is what `defaultLogger` holds: the `OriginLogger`, both words
of the `InfluxdbLogger`, or one of them (`replacing`); `Read` is what a read of it gives then, and a torn
read stops the model. `early` and `origin` record the events begun before the replacement and
those the old logger wrote. `wrapped` is whether the SwapLogger has a logger, `writer` who is inside the
writer of the SyncWriter. A copy of a `bytes.Buffer` writes behind what it holds: into the
array of the original if that has room, else into one of its own. The model has one place for each such
array and names tags and messages by the event they belong to, so that a line made of two events
shows. `room` is whether the InfluxdbLogger has tags, with spare capacity behind them; `bufReady` whether
its line buffer has been used; `pooled` what KVLog has put into a pooled buffer; `muCopied` are the
templates whose mutex was copied while in use.

**Logfmt** is the text. Its operators bear the names of the functions of encode.go and jsonstring.go and
work on sequences of runes; a key or a value is a record of its kind of Go type (`nil`, `number`,
`bytes`, `marshaler`, ...), of what its method does (returns, fails, panics, is a nil pointer) and of its
text. The assumption on `KeyVals` says what the code leaves no choice in: strings, byte slices, numbers and
nil have no method that could fail, only MarshalText returns an error, and a number, which fmt.Sprint
shows, has no comma (it is the one value that is not quoted in a record). The state machine around them hands the pooled encoder from one WithHeader or KVLog to the next,
one round of EncodeKeyvals at a time. `created` is what NewInfluxdbLogger was called with: a measurement
(empty for the name of the program) and tags. It writes both as they are, without quotes and without a filter, and KVLog
copies them to the front of each record, so that a newline in one of them makes two lines of every record.
`OneLine` says that nothing else does: outside of that text (`Raw`) a record has one control
character, its last. Whether a line can be read depends on them too: `LineReadable` is about loggers whose measurement and tags
need no quotes (`PlainLogger`). `ReadLine` is the reader: it is written from the line protocol
and from `unquoteBytes`, independently of the writer, and returns every way in which a line can be read.

`MC*` modules give the constants values. `*Proofs` modules hold the theorems.

## Runs

| Run | Question | Bounds and why they are enough |
|---|---|---|
| server | What may a served session do, whichever way reader, writer, owner, handlers and peer interleave, and does it end? `FramePipe` is checked too. | Two frames and one unasked writer on channels of capacity 1 (the code's): three writers compete for one place, a frame is in inData while another is in the reader's hands. |
| server_late_send | Can a doWrite that saw the session open meet its release? It can. | Two frames. |
| client | Heartbeat, timer, late answers and a Close by the application: what stalls, piles up or panics, and does the client wind up once the server is gone? | Two heartbeats, so that the answer to the first can be taken for the second's; one request beside them for the place in outData; one application that calls Close beside the owner. |
| client_heartbeat_repeats | Do heartbeats go on? They may stop. | Two heartbeats. |
| rpc_client | Three goroutines: a call, a call whose reply is empty and a send. | IDs 0..2 with four draws (a heartbeat draws one), so that the ID of a live call comes again: what holds only until then says so (`NoWrap`). |
| rpc_server | Connections, a request, two registrations. | Three connections on two session numbers: the number of a live session comes again. Requests only read the maps, so one is enough to meet each write. |
| frame | Everything written, all places to break off. | `Base` = 2: lengths up to 3, bodies of 0, 1, 2, 3, 4 and 5 bytes (both length bytes in use, at and beyond the limit), two messages, so that one stands behind a body that is too big. |
| counter | GetNum by three goroutines that wrap the counter. | Seven calls modulo 3. |
| cluster | Two Connects for one name, one for another, a user. | Servers go up and down at any time. |
| logger | Whose tags and message does a line have, which logger gets an event while the default logger is replaced, and does logging end? | An event of VLog, one of KVLog and two users of the SwapLogger (interchangeable: SYMMETRY): two can hold up each other's mutex while a third copies it. Levels that drop one of the events, or none; the SwapLogger is given the logger and nil at any time. |
| logger_tags | Does every line have its own tags? Not with overlapping events. | Two events, nobody on the SwapLogger. |
| logfmt | Can every line be read again, in one way, and what brings a newline into it? | Two pairs, in one record, two, or a header and a record, the first perhaps left in the middle; keys and values of every kind, over the runes that are treated specially, alone and (values, behind those that begin something) in twos. Three loggers: without a measurement and tags, with a measurement and two tags, and with newlines, a comma and a quote in them, which `PlainLogger` leaves out and `OneLine` does not. |

`MaxFrames`, `MaxBeats`, `MaxSends`, `MaxSent`, `MaxCalls`, `MaxPairs` and `MaxHeaders` are bounds of the
model and not of the code. Deadlock is not an error where CHECK_DEADLOCK is FALSE: sessions end, bounded
inputs run out and a process may have panicked or its map or logger been damaged. The runs `cluster` and
`logfmt` check it: servers go up and down, and records are written, for ever.

### Fairness

Weak fairness for every goroutine that can take a step of its own: the Go scheduler runs each
goroutine that is ready. Timers fire. No fairness for what the code does not control: the peer (whether it
sends, reads or closes), the application (whether it calls anything), the end of a session, and the
timeout of a call in `rpc_client`, so that progress is not owed to it. A `conn.Write` that the peer
holds up may take for ever. Liveness that would need more is not claimed:
`SessionEnds` and `NoSenderStuck` start from the peer's close, and except a session whose Connect
panicked (its owner is gone, and the reader waits on `cClose` for ever).

`ClientEnds` and `EventsEnd` say the same without fairness, as invariants of the states in which nobody
of the program can take a step (`~ENABLED Program`, `~ENABLED Step`). Every step of a client that lost
its server, or of somebody who logs, brings its goroutine nearer to its end - heartbeats are bounded,
and a sender or a logger runs once - so coming to rest is what being scheduled leads to, and the
invariants say where.

These two, `SessionEnds` and `Answered` have a first part that states when ENABLED holds, in terms of the
state alone: `CanIsEnabled` (a step of the program is possible exactly when a goroutine is at a place
where it need not wait: `ProgramCan`), `WaitsBlock` and `ReadyIsEnabled` the same for `Logger` and for a
request of `RpcServer`. TLC checks that part with the rest. It is what the proofs take for granted,
because ENABLED is opaque to the provers; everything else in these properties is about `ProgramCan` and
its like and is proved where the list below says so. `NobodyStuck` and `OnlyCopiedWait`, the
absence of deadlock, do not depend on it.

### Findings

PROJECT.json has the three that a run shows:

* doWrite reads `state` and sends later; after Release the send panics and ends the process
  (session.go:210 and 222).
* A heartbeat's late answer is taken for that of the next (tcp.go:220): the timer is then not set
  and no heartbeat follows.
* The templates of two overlapping events write their level behind the tags of the default logger, into
  the same bytes; a line is then written with another event's level (influxdb_logger.go:299).

Other behaviours the models have, that no run is about: a reply that arrives while `Client.Close` runs panics
on a closed channel (client.go:71, 78); a body over 65535 bytes is sent empty, where the comment and the warning
(session.go:102, 104) say that its length is limited to 65535 (session.go:105-106); a template that copied the default logger's mutex while it was in use waits for ever
in VLog (influxdb_logger.go:286); a `Close` by the application panics handleRead,
whose deferred send on `cClose` stands before its `recover` (session.go:160); `Connect` that panics
leaves reader and writer behind (tcp.go:73); Close may leave the heartbeat goroutine waiting for a
stopped timer (tcp.go:210), and a late `Reset` may set the stopped timer (tcp.go:193); a reply with an
empty body is no JSON and its call waits for the timeout (client.go:64); once session numbers wrap, a
newer connection gets the replies of an older one (server.go:64); in `cluster` a client whose Dial failed is found for
ever after (cluster.go:42).

And of `log`: NewInfluxdbLogger does not quote its measurement and tags, and a newline, comma or space in them
tears every record apart (influxdb_logger.go:103-124); the pairs of a record are separated by a comma, as line protocol wants it, where
encode.go:62-63 says a space; a record without fields begins with a comma; a header without pairs leaves a
comma behind, and a comma in a header's value is not quoted, so that such tags can be read in two ways
(`PlainHeaders` excludes both); in a record `nil` and the text "null" look the same; VLog puts its message
between quotes as it is, quotes and newlines included (influxdb_logger.go:162-169); WithHeader returns no
logger when it fails, and doLog would call it (influxdb_logger.go:294, log.go:66); an `OriginLogger` writes to
the standard log package and not to the writer it was made with (origin_logger.go:28); a read of
`defaultLogger` that meets its replacement has no defined outcome (log.go:63).

## Proofs

All theorems hold for every value of the constants that satisfies the module's named assumptions; these
say only what the code fixes (channels have room for at least one, a frame's head is its sender's
number, and the like).

* **TcpServerProofs**: `Invariance`, Spec => []IInv. `IInv` is `TypeOK`, where the owner is (it decides
  which channels are closed, the state, and that the reader has finished before anything is
  closed: `ControlInv`) and where each frame is (`NumberInv`: dispatched, buffered and held frames
  continue each other, so a frame's number is its place). Order of delivery is not inductive without the
  latter, nor is the cause of panics without the former. Corollaries: `TypeCorrect`, `Order`, `Loss`,
  `ReleaseOrder`, `PanicSource`. `Wire`: while both ends are open, what has been written, what the writer holds
  and what is buffered in `outData` is together what was queued, and a frame moves along it by leaving one part in front and entering
  the next behind (`LeaveInFront`, `EnterBehind`, `MoveUp`). `SessionIsPipe`: each step of the session is
  one of `FramePipe` or does not move the pipe; a read appends to the frames under way, a dispatch takes
  the first of them, and the owner's loop ends with the reader done and at most `InCap` frames under way.
  `NoDeadlock`, Spec => []NobodyStuck: with the peer gone, some goroutine can go on until the session is
  released and no doWrite is left; `EndInv` says which goroutines exist and how often the Handler has heard
  of the end.
* **TcpClientProofs**: `Invariance`, Spec => []IInv. Where the goroutines are decides `isOpen` and bounds who
  may have closed `cHeartbeat` (`ControlInv`). Closing that channel panics the second time, so one goroutine
  at most gets past it to Release, and its statement says which channels are closed and whether the
  Handler was called (`ReleaseInv`). `HandlerOnce`, `ReleaseOrder` and `PanicsHaveCauses` are not inductive
  by themselves and follow from these two. After a panic nothing moves on, and `ReleaseInv` is claimed of a
  process that runs. An answer comes only to a frame that was queued (`SentInv`), and once: the answers
  in the connection, with the reader and in `inData` have distinct heads, and each of kind HEARTBEAT_RET
  answers a heartbeat (`ComingInv`). So each heartbeat sent is waiting, timed out or answered, and each answer
  released at most one handleHeartbeatRet (`AnswersInv`, an inequality between counters and the cardinality of
  the answers delivered), which gives `BacklogBounded`. With the timer at rest the last heartbeat's answer is
  not in (`TimerInv`), which gives `StallsExplained`.
  `NoDeadlock`, Spec => []NobodyStuck: once the server has closed the connection some goroutine of the
  client can go on until all have ended. The steps of the goroutines wait on each other through four
  channels, so this needs who has been started, that only the owner lets the reader end, and who is on
  the way to close `cHeartbeat` (`EndInv`). With `CanIsEnabled` that is `ClientEnds` (`ClientComesToRest`).
* **RpcServerProofs**: `ServerInvariance`, Spec => []ServerInv. A reply goes to the asker because
  `sessions` has, for each connection whose Connect has returned, that connection under its number
  (`SessionsInv`), as long as no number has come again (`NoWrap`), and because a request is under way only on
  such a connection. Corollaries: `RepliesReachAsker`, `SessionsAreFound`, `OneAnswer`, `MapFaults`.
  `AnswersCome` is a liveness theorem, FairSpec => Answered given `ReadyIsEnabled`: a request whose method
  returns goes from run to check to send to answered, each step by the fairness of its goroutine, unless its
  connection is lost or the process ends. It holds for any number of requests at once, where the run has one.
* **RpcClientProofs**: `ClientInvariance`, Spec => []ClientInv. How far a call has come holds always
  (`PathInv`: a channel is registered under its call's ID, a reply answers a request). The rest
  holds until IDs wrap (`MatchInv`): the goroutine of a reply has the channel of its own call (`FoundInv`), which
  is what ID and map are for, so it is past its send only when that call has returned with it (`EndedInv`)
  and stuck there only when the call gave up or was woken (`StuckInv`); a waiting call's
  channel is registered or closed (`WaitInv`), for only its own reply and Close remove it. Corollaries:
  `TypeCorrect`, `OwnReply`, `Reachable`, `StuckSource`, `WaitRetPanics`, and `ClientIsCalls`: each step
  of the client is one of `Calls` or none.
* **ClusterProofs**: `ClusterInvariance`. Clients are dialled before they are stored (`DialInv`), which gives
  `NilSession`; while Connects do not overlap, whoever dials has found no client for its name, so nothing is
  stored over another (`SerialInv`), which gives `Kept`.
* **CounterProofs**: `CounterInvariance` (mutual exclusion, and `Num` is the count of numbers issued modulo `Space`,
  one ahead between increment and read), `NumbersConsecutive`, `NoRepeatInWindow` (numbers fewer than
  `Space` draws apart differ), and `CounterIsTicket`: the locked counter implements the one-step one.
* **FrameProofs**: `FrameRoundTrip`: for every byte base, message and following stream, the header and body
  `Reader` takes off the stream are those `pack` put there, and what remains is the rest.
  `FrameInvariance`: the bytes on the wire are the beginning of what `Reader` has yet to see, and all of
  it unless the stream broke off (`WireInv`). What it has yet to see is a recursive notion; the invariant says
  instead that there is a sequence r with r[i] the packed i-th message followed by r[i + 1], which a step
  of `Write` extends and no other step changes. Corollaries: `Prefix`, `Complete`.
* **LogProofs**, about `Logger`: `LoggerInvariance`. Alone: whoever runs without having overlapped with
  anybody is the only one that runs, so nobody writes between its steps (`AloneInv`). Without sharing: each
  template has its arrays to itself, and nobody has come past `WriteTags` on the default logger
  (`SeparateInv`). Both say what each goroutine has prepared at its point (`Prepared`), without which what is
  written is not determined. Corollaries: `TypeCorrect`, `AloneIsOwn`, `SeparateIsOwn`. `ReplacedIsSafe` has an
  invariant of its own (`EarlyInv`): whoever still reads the old or a torn logger began early. `HoldersGoOn`,
  Spec => []OnlyCopiedWait: whoever holds a mutex is at a place where it can go on, logger before writer
  (`HolderInv`), so all that can be left waiting is a template whose mutex was copied while in use.
  With `WaitsBlock` that is `EventsEnd` (`EventsComeBack`), and `StepsAdvance` is why scheduled goroutines come to
  rest: each step brings one nearer to its end and sends none back.
* **LogProofs**, about `Logfmt`, for all loggers, keys and values: `RecordIsOneLine` (the tags of the logger, and what
  is in the encoder while an event holds it, are what NewInfluxdbLogger was given with a text behind it that has no
  control character, `Behind` and `TextInv`: to such a text others without one are appended, never
  in front; a quoted text has none because no escape has one, an unquoted one because it would have been quoted),
  `EventsAreLostForCause`, `QuotedIsReadBack`: for every text s, `unquoteBytes(writeQuotedString(s)) = {s}`,
  and `LinesAreReadBack`. `QuotedIsReadBack` is about two recursions, the concatenation of the escapes and the reading of the body place
  by place. The argument: what can be read from a place on depends on later places only
  (`UnquoteLocal`), so there is a function that satisfies the recursion (`ReadingExists`); where the escape
  of a rune stands in full that rune is read and reading goes on behind it (`EscapeRead`: six forms
  of escape, two digits of hexadecimal); so a body that begins with the escapes of the first k runes
  reads as these runes and what is behind (`EscapesRead`).

  `LinesAreReadBack`, TextSpec => []LineReadable, goes on from there. A pair stands in a text behind a
  place if its key, an equals sign and its value, in quotes or with nothing that would end it early, do
  (`PairAt`); a list of pairs if there are places at which one ends and the next begins, with commas there
  (`Listed`). A pair that stands with a comma or a space behind it is read as it is (`PairRead`): the first
  equals sign is its own, because keys have none; a value in quotes is not read
  shorter, because a quote within ends an escape and leaves its backslash alone (`EscapedQuote`), nor
  longer, because its last quote would be a bare one within, and neither can be read (`BrokenReads`, `QuotedEnds`). So a list with a space behind it is read as this list and in no other way
  (`ListRead`, by induction from its end). The invariant (`ReadInv`) says that what a line begins with is the measurement
  and behind it the list of the logger's tags and its headers' pairs (`HeadersInv`; `TagsListed` for those of
  NewInfluxdbLogger, which are added one by one, `TagAdded`), and what is in the encoder the list of those it was given since
  it was taken (`FieldsInv`): `EncodeKeyval` adds one pair to the list or leaves it as it is
  (`EncodeReads`), and `Take` begins an empty one whatever was left in the encoder (`TakeReads`).
  The measurement ends at the first comma or space because it has none of its own, and what follows is the tags or,
  where there are none, the fields (`HeadRead`). The conditions of LineReadable, `PlainLogger` and `PlainHeaders`, are
  those of the parts of the invariant which speak of tags: those of NewInfluxdbLogger are not quoted at all, the values
  of a header not for a comma.

The library states induction for predicates, as theorems with an operator parameter, which the provers cannot
instantiate. `NatSetInduction` (LogProofs) is induction in terms of a set: a set with 0 and with n + 1
for each n in it has all of Nat. It follows from the well-foundedness of < on Nat and from
`WFMin`, which have no such parameter, and it carries the proofs about recursive functions: that the function
which a recursive definition chooses exists, and what its values are.

Only model-checked:

* Liveness under fairness, beyond `Answered`: the last part of `SessionEnds`, `NoSenderStuck`,
  `AnsweredIsReleased`, `CloseEndsCalls`. They would need ENABLED of many actions and, for the sessions,
  a well-founded order on what is left to do.
* `CanIsEnabled`, `WaitsBlock` and `ReadyIsEnabled`: the value of ENABLED, of which the provers know nothing.

No module declares a RECURSIVE operator.

## Not modelled

* The accept loop, `net` and `os` errors other than a broken connection: I/O without state of its own.
* Reflection, JSON and gob: an argument or a result converts or does not (`Kinds` in RpcServer, the
  choice in `Begin` of RpcClient).
* Wall-clock durations: a timeout may fire at any moment after its wait has begun.
* A second `Dial` on one TcpClient, which replaces the session under the old goroutines: nothing in src
  dials a client twice.
* `cluster.Open`, `Register`, `Start`: forwarded to `rpc.Server`.
* `log`: SetFlags and OpenStack, caller and time, which are formatting; a copy that reads a buffer half
  written; a line longer than any before, which would get an array of its own; a second
  NewInfluxdbLogger, and one whose last tag has no value, which panics. `MarshalKeyvals` and value.go: nothing calls them.
* Two loggers on one writer without a SyncWriter: the comment of NewInfluxdbLogger asks for a writer
  that is safe for concurrent use.

## Plan

Done, in this order: Session, TcpServer, TcpServerProofs, TcpClient, RpcClient, Frame, Counter, RpcServer,
Cluster, Logger, Logfmt, RpcClientProofs, ClusterProofs, TcpClientProofs, the refinement of FramePipe, the
stream of FrameProofs, freedom of deadlock and the answers of RpcServerProofs, the text in LogProofs. Every
safety property of a run is a theorem, but for what ENABLED means.

Next:

1. `RpcSystem`: RpcClient and RpcServer composed over a connection that loses at its end what
   FramePipe may lose; a call is executed at most once, its answer is that of its execution.
2. Redial of a TcpClient; `cluster.Open` and `Register`, if something comes to use them so.
