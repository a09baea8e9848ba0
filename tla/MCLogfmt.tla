------------------------------ MODULE MCLogfmt ------------------------------
(* Keys and values of every kind, over the runes that are treated specially. *)
EXTENDS Logfmt

\* The letters n and u appear in escapes, 1 is a control character without a
\* letter, 233 is not ASCII.
Runes == {1, Newline, Return, Tab, Space, Quote, Comma, Equals, Backslash, 110, 117, 233,
          RuneError}

\* Keys are filtered rune by rune, values are read as a whole.
KeyTexts == SeqOf(Runes, 1) \cup {<<Equals, 110>>, <<110, Newline>>, Null}

Texts == SeqOf(Runes, 1) \cup {<<a, b>> : a \in {Backslash, Quote, Comma, 110}, b \in Runes}
            \cup {Null, <<Backslash, 117, 48, 48, 48, 49>>}

Short == {<<>>, <<110>>, <<Newline>>, Null}

Of(kind, does, texts) == {[kind |-> kind, does |-> does, text |-> t] : t \in texts}

Odd ==
    Of("nil", "returns", {<<>>}) \cup Of("unsupported", "returns", {<<>>})
    \cup UNION {Of(kind, "returns", Short) : kind \in {"stringer", "marshaler", "pointer"}}
    \cup UNION {Of(kind, "nil", {<<>>}) :
                    kind \in {"bytes", "stringer", "marshaler", "pointer", "error"}}
    \cup Of("marshaler", "fails", {<<>>})
    \cup UNION {Of(kind, "panics", {<<>>}) : kind \in {"stringer", "marshaler", "error"}}

SomeKeys == Of("string", "returns", KeyTexts) \cup Of("bytes", "returns", Short) \cup Odd
              \cup Of("number", "returns", {<<50>>})

SomeValues == SomeKeys \cup Of("string", "returns", Texts) \cup Of("bytes", "returns", KeyTexts)
                \cup Of("error", "returns", Short) \cup Of("other", "returns", {<<110>>})

SomeProgram == <<112>>

Plain == [kind |-> "string", does |-> "returns", text |-> <<110>>]

SomeKeyVals == (SomeKeys \X {Plain}) \cup ({Plain} \X SomeValues)

\* The program's name and no tags; a measurement and two tags; newlines, a comma
\* and a quote in measurement and tag.
Tag(key, val) == [key |-> key, val |-> val]
SomeLoggers == {
    [measurement |-> <<>>, kv |-> <<>>],
    [measurement |-> <<109>>, kv |-> <<Tag(<<104>>, <<110>>), Tag(<<105>>, <<233>>)>>],
    [measurement |-> <<109, Newline>>, kv |-> <<Tag(<<Comma>>, <<Newline, Quote>>)>>]}
=============================================================================
