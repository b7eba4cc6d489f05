----------------------------- MODULE FrameCodec -----------------------------
(***************************************************************************)
(* The frames of the forwarding channel on the wire (encode, decode and    *)
(* Cursor, http_forward.rs).  A frame is an opcode and the fields that     *)
(* Layout gives it.  A string is a sequence of characters, each the number *)
(* of bytes it takes; on the wire a wide character is a leading byte and   *)
(* continuations (0).  A length or a number is one cell of the wire.       *)
(***************************************************************************)
EXTENDS Integers, Sequences, SequencesExt

CONSTANTS
    ShortMax,   \* the length that fits the u8 of a short string
    LongMax,    \* the length that fits the u16 of a long string
    CountMax,   \* the number of headers that fits their u16
    Texts,      \* strings
    HeaderTexts,\* strings of headers
    Payloads    \* raw bytes

VARIABLES
    frame,      \* the frame that one side sends
    wire,       \* its bytes
    got         \* what the other side makes of them: a frame, or a failure

vars == <<frame, wire, got>>

\* The fields of each opcode, in order.
Layout ==
    [ReqHead |-> <<"number", "short", "long", "headers">>,
     ReqBody |-> <<"rest">>, ReqEnd |-> <<>>, ReqCancel |-> <<>>,
     RespHead |-> <<"number", "headers">>,
     RespBody |-> <<"rest">>, RespEnd |-> <<>>, RespError |-> <<"number", "message">>,
     WsOpen |-> <<"number", "short", "long", "headers">>,
     WsData |-> <<"number", "rest">>, WsClose |-> <<"number", "long">>,
     WsOpenOk |-> <<"headers">>]

Headers == UNION {[1..n -> HeaderTexts \X HeaderTexts] : n \in 0..(CountMax + 1)}

Values(field) ==
    CASE field = "number" -> {7}
      [] field \in {"short", "long", "message"} -> Texts
      [] field = "headers" -> Headers
      [] field = "rest" -> Payloads

Fields(op) ==
    FoldLeft(LAMBDA some, field : {Append(f, v) : f \in some, v \in Values(field)},
             {<<>>}, Layout[op])

Failure == [op |-> "failure", fields |-> <<>>]

-----------------------------------------------------------------------------
(* Encoding                                                                *)

Bytes(text) == FlattenSeq([k \in DOMAIN text |-> [b \in 1..text[k] |-> IF b = 1 THEN text[k] ELSE 0]])

\* Mutant: the string is cut at the byte that its length allows.
CutAnywhere(bytes, cap) == SubSeq(bytes, 1, IF Len(bytes) < cap THEN Len(bytes) ELSE cap)

\* truncate_to_char_boundary: the longest prefix of whole characters.
CutAtBoundary(bytes, cap) ==
    LET whole == {n \in 0..Len(bytes) : n <= cap /\ (n = Len(bytes) \/ bytes[n + 1] # 0)}
    IN  SubSeq(bytes, 1, CHOOSE n \in whole : \A k \in whole : k <= n)

WithLength(bytes) == <<Len(bytes)>> \o bytes

EncodeString(text, cap) == WithLength(CutAtBoundary(Bytes(text), cap))

EncodeHeaders(headers) ==
    LET kept == SubSeq(headers, 1, IF Len(headers) < CountMax THEN Len(headers) ELSE CountMax)
    IN  <<Len(kept)>> \o
        FlattenSeq([k \in DOMAIN kept |->
            EncodeString(kept[k][1], ShortMax) \o EncodeString(kept[k][2], LongMax)])

\* The message of an error is cut at the byte, not at a character.
Encode(field, value) ==
    CASE field = "number" -> <<value>>
      [] field = "short" -> EncodeString(value, ShortMax)
      [] field = "long" -> EncodeString(value, LongMax)
      [] field = "message" ->
            WithLength(SubSeq(Bytes(value), 1, IF Len(Bytes(value)) < LongMax THEN Len(Bytes(value)) ELSE LongMax))
      [] field = "headers" -> EncodeHeaders(value)
      [] field = "rest" -> value

-----------------------------------------------------------------------------
(* Decoding: a cursor is what is left, and the values read so far          *)

Cursor(rest, values, ok) == [rest |-> rest, values |-> values, ok |-> ok]

\* Every leading byte has its continuations, and no continuation comes alone.
Utf8(bytes) == bytes = Bytes(SelectSeq(bytes, LAMBDA b : b # 0))

ReadNumber(c) ==
    IF c.ok /\ c.rest # <<>> THEN Cursor(Tail(c.rest), Append(c.values, Head(c.rest)), TRUE)
    ELSE Cursor(<<>>, <<>>, FALSE)

ReadString(c) ==
    LET n == ReadNumber(c)
        len == Last(n.values)
        bytes == SubSeq(n.rest, 1, len)
    IN  IF n.ok /\ len <= Len(n.rest) /\ Utf8(bytes)
        THEN Cursor(SubSeq(n.rest, len + 1, Len(n.rest)),
                    Append(c.values, SelectSeq(bytes, LAMBDA b : b # 0)), TRUE)
        ELSE Cursor(<<>>, <<>>, FALSE)

ReadHeaders(c) ==
    LET n == ReadNumber(c)
        start == Cursor(n.rest, <<>>, n.ok)
        strings == FoldLeft(LAMBDA acc, k : ReadString(acc), start,
                            IF n.ok THEN [k \in 1..(2 * Last(n.values)) |-> k] ELSE <<>>)
        pairs == [k \in 1..(Len(strings.values) \div 2) |->
                     <<strings.values[2 * k - 1], strings.values[2 * k]>>]
    IN  Cursor(strings.rest, Append(c.values, pairs), strings.ok)

Read(c, field) ==
    CASE field = "number" -> ReadNumber(c)
      [] field \in {"short", "long", "message"} -> ReadString(c)
      [] field = "headers" -> ReadHeaders(c)
      [] field = "rest" -> Cursor(<<>>, Append(c.values, c.rest), c.ok)

Decode(bytes) ==
    LET op == Head(bytes)
        end == FoldLeft(Read, Cursor(Tail(bytes), <<>>, TRUE), Layout[op])
    IN  IF end.ok THEN [op |-> op, fields |-> end.values] ELSE Failure

-----------------------------------------------------------------------------

Init ==
    /\ \E op \in DOMAIN Layout : \E f \in Fields(op) : frame = [op |-> op, fields |-> f]
    /\ wire = <<>> /\ got = <<>>

Send ==
    /\ wire = <<>>
    /\ wire' = <<frame.op>> \o
               FlattenSeq([k \in DOMAIN frame.fields |-> Encode(Layout[frame.op][k], frame.fields[k])])
    /\ UNCHANGED <<frame, got>>

Receive ==
    /\ wire # <<>> /\ got = <<>>
    /\ got' = Decode(wire)
    /\ UNCHANGED <<frame, wire>>

Next == Send \/ Receive

Spec == Init /\ [][Next]_vars

-----------------------------------------------------------------------------
(* Properties                                                              *)

Size(text) == Len(Bytes(text))

\* The longest prefix of a string that takes at most cap bytes.
Kept(text, cap) ==
    CHOOSE p \in Prefixes(text) :
        /\ Size(p) <= cap
        /\ \A q \in Prefixes(text) : Size(q) <= cap => Len(q) <= Len(p)

Meant(field, value) ==
    CASE field = "short" -> Kept(value, ShortMax)
      [] field \in {"long", "message"} -> Kept(value, LongMax)
      [] field = "headers" ->
            [k \in 1..(IF Len(value) < CountMax THEN Len(value) ELSE CountMax) |->
                <<Kept(value[k][1], ShortMax), Kept(value[k][2], LongMax)>>]
      [] OTHER -> value

\* Whatever the sizes and the widths of the characters in it, a frame arrives
\* as it was sent, up to strings that are too long, which arrive as prefixes of
\* whole characters; only an error whose message is cut within a character is
\* not understood (http_forward.rs 304-560).
RoundTrip ==
    got # <<>> =>
        \/ got = [op |-> frame.op,
                  fields |-> [k \in DOMAIN frame.fields |-> Meant(Layout[frame.op][k], frame.fields[k])]]
        \/ /\ frame.op = "RespError" /\ got = Failure
           /\ \A p \in Prefixes(frame.fields[2]) : Size(p) # LongMax

=============================================================================
