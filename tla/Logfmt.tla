------------------------------- MODULE Logfmt -------------------------------
(***************************************************************************)
(* The text of a log record (log/encode.go, log/jsonstring.go and the      *)
(* lines that KVLog of log/influxdb_logger.go writes): a pooled encoder    *)
(* handed from one event to the next, the keys and values it accepts, what *)
(* becomes of those it does not, and the quoting.                          *)
(*                                                                         *)
(* A text is the sequence of its runes; a byte that is no UTF-8 is the     *)
(* rune RuneError, as the loops of the source see it.  A key or a value is *)
(* a record of its kind of Go type, what its method does and its text.     *)
(* An encoder of the pool belongs to one goroutine at a time, so one       *)
(* encoder and one goroutine are enough.                                   *)
(***************************************************************************)
EXTENDS Integers, SequencesExt

CONSTANTS Program,    \* the last part of os.Args[0]
          Loggers,    \* what NewInfluxdbLogger is called with: a measurement and tags
          KeyVals,    \* the pairs of a key and a value that applications log
          MaxPairs,   \* bound: how many pairs are encoded
          MaxHeaders  \* bound: how often WithHeader is called

\* "other" stands for types without a case of their own that can be printed.
Kinds == {"nil", "number", "string", "bytes", "marshaler", "error", "stringer",
          "pointer", "unsupported", "other"}

\* A method returns the text or an error, or panics; "nil" is a nil pointer,
\* a nil slice or a marshaler that returns nil.
Behaviours == {"returns", "nil", "fails", "panics"}

Newline == 10  Tab == 9  Return == 13  Space == 32  Quote == 34  Comma == 44
Equals == 61   Backslash == 92         RuneError == 65533

\* Kinds without a method have none that fails or panics, a number has no comma,
\* and only a marshaler returns an error.
ASSUME LogfmtAssumption ==
    /\ Program \in Seq(Nat)
    /\ \A n \in Loggers : n.measurement \in Seq(Nat) /\ n.kv \in Seq([key : Seq(Nat), val : Seq(Nat)])
    /\ \A p \in KeyVals : \A v \in {p[1], p[2]} :
          /\ v.kind \in Kinds /\ v.does \in Behaviours /\ v.text \in Seq(Nat)
          /\ v.kind \in {"nil", "bytes"} => v.does \in {"returns", "nil"}
          /\ v.kind \in {"number", "string", "other"} => v.does = "returns"
          /\ v.kind = "number" => ~Contains(v.text, Comma)
          /\ v.does = "fails" => v.kind = "marshaler"
    /\ MaxPairs \in Nat /\ MaxHeaders \in Nat

VARIABLES
    op,       \* who has the encoder: "none", "header" (WithHeader) or "record" (KVLog)
    buf,      \* logfmtEncoder.buf
    needSep,  \* Encoder.needSep
    created,  \* what the logger in use was created with
    tagSet,   \* InfluxdbLogger.tagSet of the logger in use
    tags,     \* the pairs its headers were given (history)
    fields,   \* the pairs the encoder was given since it was taken (history)
    line,     \* the last line written, with the pairs it should have (history)
    lost,     \* the pairs that made an event end with an error (history)
    pairs     \* number of pairs encoded

encVars == <<buf, needSep>>
textVars == <<op, encVars, created, tagSet, tags, fields, line, lost, pairs>>

Null        == <<110, 117, 108, 108>>
CallerPair  == <<99, 61, 34, 102, 34>>   \* c="f"
Timestamp   == <<49>>
ErrorText   == <<101, 32, 101>>          \* an error's message: words
PanicText   == <<80, 58>>                \* "PANIC:" and a value
-----------------------------------------------------------------------------
(* jsonstring.go.                                                          *)

Hex(d)    == IF d < 10 THEN 48 + d ELSE 87 + d
HexOf(r)  == IF r \in 48 .. 57 THEN r - 48
             ELSE IF r \in 65 .. 70 THEN r - 55
             ELSE IF r \in 97 .. 102 THEN r - 87 ELSE -1

\* Runes with a backslash before them, and with a letter in their place.
Escaped  == {Quote, Backslash}
LetterOf == [r \in {Newline, Return, Tab} |->
                CASE r = Newline -> 110 [] r = Return -> 114 [] r = Tab -> 116]

Escape(r) ==
    CASE r \in Escaped         -> <<Backslash, r>>
      [] r \in DOMAIN LetterOf -> <<Backslash, LetterOf[r]>>
      [] r \in 0 .. Space - 1 \ DOMAIN LetterOf ->
             <<Backslash, 117, 48, 48, Hex(r \div 16), Hex(r % 16)>>
      [] r = RuneError         -> <<Backslash, 117, 102, 102, 102, 100>>
      [] OTHER                 -> <<r>>

writeQuotedString(s) ==
    <<Quote>> \o FlattenSeq([i \in DOMAIN s |-> Escape(s[i])]) \o <<Quote>>

\* The same loop over bytes.
writeQuotedBytes(s) == writeQuotedString(s)

\* The number that s holds as \uXXXX from place i on, or -1.
getu4(s, i) ==
    IF /\ i + 5 <= Len(s)
       /\ s[i] = Backslash /\ s[i + 1] = 117
       /\ \A j \in i + 2 .. i + 5 : HexOf(s[j]) >= 0
    THEN 4096 * HexOf(s[i + 2]) + 256 * HexOf(s[i + 3]) + 16 * HexOf(s[i + 4]) + HexOf(s[i + 5])
    ELSE -1

IsSurrogate(r) == r \in 55296 .. 57343

\* utf16.DecodeRune.
DecodeRune(r1, r2) ==
    IF r1 \in 55296 .. 56319 /\ r2 \in 56320 .. 57343
    THEN (r1 - 55296) * 1024 + (r2 - 56320) + 65536
    ELSE RuneError

\* \b, \f, \n, \r, \t and the runes that stand for themselves.
Unescape(r) ==
    CASE r \in {Quote, Backslash, 47, 39} -> {r}
      [] r = 98  -> {8}       [] r = 102 -> {12}
      [] r = 110 -> {Newline} [] r = 114 -> {Return} [] r = 116 -> {Tab}
      [] OTHER   -> {}

Prepend(r, texts) == {<<r>> \o t : t \in texts}

\* What can be read of body from place i on, given what can from later places.
UnquoteAt(body, from, i) ==
    LET u == getu4(body, i)
        d == DecodeRune(u, getu4(body, i + 6))
    IN  CASE i > Len(body) -> {<<>>}
          [] i <= Len(body) /\ (body[i] = Quote \/ body[i] < Space) -> {}
          [] i <= Len(body) /\ body[i] = Backslash ->
                IF u >= 0
                THEN IF ~IsSurrogate(u) THEN Prepend(u, from[i + 6])
                     ELSE IF d # RuneError THEN Prepend(d, from[i + 12])
                     ELSE Prepend(RuneError, from[i + 6])
                ELSE IF i = Len(body) THEN {}
                ELSE UNION {Prepend(r, from[i + 2]) : r \in Unescape(body[i + 1])}
          [] OTHER -> Prepend(body[i], from[i + 1])

\* The text inside a quoted one, in a set that is empty if s is malformed.
unquoteBytes(s) ==
    LET body == SubSeq(s, 2, Len(s) - 1)
        from[i \in 1 .. Len(body) + 1] == UnquoteAt(body, from, i)
    IN  IF Len(s) < 2 \/ s[1] # Quote \/ s[Len(s)] # Quote THEN {} ELSE from[1]
-----------------------------------------------------------------------------
(* encode.go: keys and values.  An operator returns what it writes, or an  *)
(* error; of what was written before an error nothing is left in scratch.  *)

Written(text) == [err |-> "none", text |-> text]
Failed(err)   == [err |-> err, text |-> <<>>]

\* Mutant: control characters and spaces stay in keys.
keyRuneFilterLoose(r) == r \notin {Equals, Quote, RuneError}

keyRuneFilter(r) == r > Space /\ r \notin {Equals, Quote, RuneError}

\* What SelectSeq gives, in the form the proofs can take apart.
Chosen(s, Test(_)) == FlattenSeq([i \in DOMAIN s |-> IF Test(s[i]) THEN <<s[i]>> ELSE <<>>])

writeStringKey(key) ==
    LET k == Chosen(key, keyRuneFilter)
    IN  IF k = <<>> THEN Failed("invalid key") ELSE Written(k)

writeBytesKey(key) == writeStringKey(key)

\* The text, or nothing for a nil pointer; a Stringer that panics gives a text.
safeString(v) == IF v.does = "panics" THEN PanicText ELSE v.text

safeMarshal(v) ==
    CASE v.does = "fails"  -> Failed("marshaler")
      [] v.does = "panics" -> Failed("marshaler panic")
      [] OTHER             -> Written(v.text)

\* A pointer is followed, here to a string.  An error that is no Stringer is a
\* pointer to a struct.
writeKey(k) ==
    IF k.kind = "nil" \/ k.does = "nil" THEN Failed("nil key")
    ELSE CASE k.kind \in {"error", "unsupported"} -> Failed("unsupported key")
           [] k.kind = "marshaler" -> LET m == safeMarshal(k)
                                      IN  IF m.err = "none" THEN writeBytesKey(m.text) ELSE m
           [] k.kind = "bytes"     -> writeBytesKey(k.text)
           [] OTHER                -> writeStringKey(safeString(k))

needsQuotedValueRune(r) == r <= Space \/ r \in {Equals, Quote, RuneError}

NeedsQuotes(s) == \E i \in DOMAIN s : needsQuotedValueRune(s[i])

\* ok tells a text from the null that stands for a nil pointer.
writeStringValue(s, ok, quoted) ==
    IF quoted \/ NeedsQuotes(s) \/ (ok /\ s = Null) THEN writeQuotedString(s) ELSE s

writeBytesValue(s, quoted) ==
    IF quoted \/ NeedsQuotes(s) THEN writeQuotedBytes(s) ELSE s

writeValue(v, quoted) ==
    CASE v.kind = "unsupported" -> Failed("unsupported value")
      [] v.kind = "nil"         -> Written(writeBytesValue(Null, quoted))
      [] v.kind = "number"      -> Written(writeStringValue(v.text, TRUE, FALSE))
      [] v.kind = "bytes"       -> Written(writeBytesValue(v.text, quoted))
      [] v.kind = "marshaler"   ->
             LET m == safeMarshal(v)
             IN  IF m.err # "none" THEN m
                 ELSE Written(writeBytesValue(IF v.does = "nil" THEN Null ELSE m.text, quoted))
      [] v.kind \in {"error", "stringer", "pointer"} /\ v.does = "nil" ->
             Written(writeStringValue(Null, FALSE, quoted))
      [] OTHER -> Written(writeStringValue(safeString(v),
                              v.kind # "error" \/ v.does # "panics", quoted))

EncodeKeyval(k, v, quoted) ==
    LET key == writeKey(k)
        val == writeValue(v, quoted)
    IN  IF key.err # "none" THEN key
        ELSE IF val.err # "none" THEN val
        ELSE Written((IF needSep THEN <<Comma>> ELSE <<>>)
                        \o key.text \o <<Equals>> \o val.text)
-----------------------------------------------------------------------------
(* The encoder and the logger around it.                                   *)

\* NewInfluxdbLogger writes measurement and tags as they are.
measurement == IF created.measurement = <<>> THEN Program ELSE created.measurement

TagText(kv) == FlattenSeq([i \in DOMAIN kv |-> <<Comma>> \o kv[i].key \o <<Equals>> \o kv[i].val])

TextInit ==
    /\ op = "none"
    /\ buf = <<>> /\ needSep = FALSE
    /\ created \in Loggers
    /\ tagSet = TagText(created.kv) /\ tags = <<>>
    /\ fields = <<>>
    /\ line = {}
    /\ lost = {}
    /\ pairs = 0

\* Mutant: the encoder is taken from the pool as it was left there.
TakeUnreset(user, start) ==
    /\ op = "none"
    /\ op' = user
    /\ buf' = start /\ UNCHANGED needSep
    /\ fields' = <<>>
    /\ UNCHANGED <<created, tagSet, tags, line, lost, pairs>>

\* Get and Reset.
Take(user, start) ==
    /\ op = "none"
    /\ op' = user
    /\ buf' = start /\ needSep' = FALSE
    /\ fields' = <<>>
    /\ UNCHANGED <<created, tagSet, tags, line, lost, pairs>>

HeaderBegins == Len(tags) < MaxHeaders /\ Take("header", <<>>)
RecordBegins == Take("record", measurement \o tagSet \o <<Space>>)

\* The text a reader should find for a key and for a value.
KeyText(k) == Chosen(safeString(k), LAMBDA r : r > Space /\ r \notin {Equals, Quote, RuneError})
ShownText(v) ==
    IF v.kind = "unsupported" \/ v.does = "fails" THEN ErrorText
    ELSE IF v.kind = "nil" \/ (v.does = "nil" /\ v.kind # "bytes") THEN Null
    ELSE IF v.does = "panics" THEN PanicText ELSE v.text

\* Mutant: the second attempt is forgotten.
NoRetry == {}

\* Errors after which the pair is encoded again, with the error for a value.
Retry == {"marshaler", "unsupported value"}

ErrorValue == [kind |-> "error", does |-> "returns", text |-> ErrorText]

\* One round of EncodeKeyvals or EncodeKeyvalsWithQuoted.  Any error but that of
\* an unsupported key ends the event, and the encoder goes back as it is.
Encode(k, v) ==
    /\ op # "none"
    /\ pairs < MaxPairs
    /\ pairs' = pairs + 1
    /\ LET first == EncodeKeyval(k, v, op = "record")
           last  == IF first.err \in Retry THEN EncodeKeyval(k, ErrorValue, op = "record")
                                           ELSE first
       IN  /\ buf' = buf \o (IF first.err \in Retry THEN first.text ELSE <<>>) \o last.text
           /\ needSep' = (needSep \/ last.err = "none")
           /\ IF last.err \in {"none", "unsupported key"}
              THEN UNCHANGED <<op, lost>>
              ELSE op' = "none" /\ lost' = lost \cup {<<k, v>>}
    /\ fields' = IF k.kind \in {"error", "unsupported"} THEN fields
                 ELSE Append(fields, [key |-> KeyText(k), val |-> ShownText(v)])
    /\ UNCHANGED <<created, tagSet, tags, line>>

\* WithHeader returns the logger with its tags.
HeaderEnds ==
    /\ op = "header"
    /\ op' = "none"
    /\ tagSet' = tagSet \o <<Comma>> \o buf
    /\ tags' = Append(tags, fields)
    /\ UNCHANGED <<encVars, created, fields, line, lost, pairs>>

\* KVLog adds caller, time and, in EndRecord, the newline, and writes the line.
RecordEnds ==
    /\ op = "record"
    /\ op' = "none"
    /\ buf' = buf \o <<Comma>> \o CallerPair \o <<Space>> \o Timestamp \o <<Newline>>
    /\ needSep' = FALSE
    /\ line' = {[text |-> buf', tags |-> tags, fields |-> fields]}
    /\ UNCHANGED <<created, tagSet, tags, fields, lost, pairs>>

TextNext ==
    \/ HeaderBegins \/ RecordBegins
    \/ \E p \in KeyVals : Encode(p[1], p[2])
    \/ HeaderEnds \/ RecordEnds

TextSpec == TextInit /\ [][TextNext]_textVars
-----------------------------------------------------------------------------
(* How a line is read: measurement and tags up to a space, fields up to a  *)
(* space, time.  A value in quotes ends where unquoteBytes can read it,    *)
(* any other at a comma or a space.                                        *)

\* The pair at place i of s and the place behind it, in a set of at most one.
ReadPair(s, i) ==
    UNION {
        LET v == e + 1
            quoted == {j \in v + 1 .. Len(s) : unquoteBytes(SubSeq(s, v, j)) # {}}
            plain  == {j \in v .. Len(s) : s[j] \in {Comma, Space}}
            pair(text, next) == [key |-> SubSeq(s, i, e - 1), val |-> text, next |-> next]
        IN  IF v <= Len(s) /\ s[v] = Quote
            THEN UNION {{pair(t, j + 1) : t \in unquoteBytes(SubSeq(s, v, j))} : j \in quoted}
            ELSE {pair(SubSeq(s, v, j - 1), j) : j \in {k \in plain : \A n \in plain : k <= n}}
        : e \in {j \in i .. Len(s) : s[j] = Equals /\ \A n \in i .. j - 1 : s[n] # Equals}}

\* The pairs from place j of s on and the place behind the last one, given those
\* from later places.
PairsAt(s, from, j) ==
    UNION {LET pair == [key |-> p.key, val |-> p.val]
           IN  IF p.next <= Len(s) /\ s[p.next] = Comma
               THEN {[pairs |-> <<pair>> \o r.pairs, next |-> r.next] : r \in from[p.next + 1]}
               ELSE {[pairs |-> <<pair>>, next |-> p.next]}
           : p \in ReadPair(s, j)}

ReadPairs(s, i) ==
    LET from[j \in 1 .. Len(s) + 1] == PairsAt(s, from, j)
    IN  from[i]

\* The measurement ends at the first comma or space.
MeasurementEnds(s) ==
    {e \in DOMAIN s : s[e] \in {Comma, Space} /\ \A n \in 1 .. e - 1 : s[n] \notin {Comma, Space}}

ReadTags(s, e) == IF s[e] = Comma THEN ReadPairs(s, e + 1) ELSE {[pairs |-> <<>>, next |-> e]}

ReadHead(s) ==
    UNION {{[measurement |-> SubSeq(s, 1, e - 1), tags |-> t.pairs, next |-> t.next] :
               t \in ReadTags(s, e)} : e \in MeasurementEnds(s)}

\* The last field is the caller.  In a record without others it has a comma
\* before it, which reads as part of its key.
ReadLine(s) ==
    UNION {{[measurement |-> h.measurement, tags |-> h.tags, fields |-> Front(f.pairs)] :
               f \in {g \in ReadPairs(s, h.next + 1) :
                          SubSeq(s, g.next, Len(s)) = <<Space>> \o Timestamp \o <<Newline>>}}
           : h \in {u \in ReadHead(s) : s[u.next] = Space}}
-----------------------------------------------------------------------------
(* Properties.                                                             *)

\* A logger that line protocol can hold: NewInfluxdbLogger does not quote anything,
Bare(text) == ~NeedsQuotes(text) /\ ~Contains(text, Comma)

PlainLogger ==
    /\ Bare(measurement)
    /\ \A i \in DOMAIN created.kv : Bare(created.kv[i].key) /\ Bare(created.kv[i].val)

\* and such headers: WithHeader does not quote a comma, and one without a pair
\* leaves a comma behind.
PlainHeaders(headers) == \A i \in DOMAIN headers :
    /\ headers[i] # <<>>
    /\ \A j \in DOMAIN headers[i] : ~Contains(headers[i][j].val, Comma)

\* Whatever earlier events left in the encoder and whichever keys and values
\* were given up on, a line can be read in one way, and gives the measurement and
\* tags of its logger, the pairs of its headers and those of its own event.
LineReadable == \A l \in line :
    PlainLogger /\ PlainHeaders(l.tags) =>
        ReadLine(l.text) = {[measurement |-> measurement,
                             tags |-> created.kv \o FlattenSeq(l.tags),
                             fields |-> l.fields]}

\* What NewInfluxdbLogger was given, as it stands at the beginning of each record.
Raw == measurement \o TagText(created.kv)

\* No key or value of an event or a header brings a newline or another control
\* character into a record: it has one at its end, and otherwise only those that
\* measurement and tags of NewInfluxdbLogger have, which nothing filters, so that
\* a newline in one of these does make two lines of a record.
OneLine == \A l \in line : \A i \in DOMAIN l.text :
    l.text[i] < Space <=> \/ i = Len(l.text)
                          \/ i \in DOMAIN Raw /\ Raw[i] < Space

\* An event is given up only for a key of which nothing is left or a method that
\* panics, or for a key whose method fails; the comment at encode.go:105 promises
\* that values of other kinds are replaced by their error.
LostForCause == \A p \in lost :
    LET k == p[1]
        v == p[2]
    IN  \/ k.kind = "nil" \/ k.does = "nil" \/ KeyText(k) = <<>>
        \/ k.kind = "marshaler" /\ k.does \in {"fails", "panics"}
        \/ v.kind = "marshaler" /\ v.does = "panics"
=============================================================================
