----------------------------- MODULE LineSource -----------------------------
(***************************************************************************)
(* The stream of source.rs that the pipeline reads: bytes from stdin in    *)
(* reads of any size, framed into lines by FramedRead and the bounded line *)
(* codec, parsed and validated one by one, with a StreamShutdown item at   *)
(* the end.                                                                *)
(*                                                                         *)
(* A line stands for a JSON record by the elements of its mac_address, the *)
(* only field that is validated; a byte of the model is one such element   *)
(* or one of the bytes that matter to the framing.                         *)
(***************************************************************************)
EXTENDS Integers, SequencesExt

CONSTANTS
    Newline, Return,    \* the bytes that end a line
    Invalid,            \* a byte that is not UTF-8
    Elements,           \* the elements of mac_address a line may carry (i16)
    MacLength,          \* elements in a valid address (6)
    ByteValues,         \* values of an unsigned byte (256)
    MaxLine,            \* MAX_LINE_BYTES
    MaxRead,            \* the most bytes one read returns
    MaxInput            \* bound: bytes stdin supplies

ASSUME LineSourceAssumption ==
    /\ Elements \subseteq Int /\ {Newline, Return, Invalid} \cap Int = {}
    /\ MacLength \in Nat /\ ByteValues \in Nat \ {0}
    /\ MaxLine \in Nat /\ MaxRead \in Nat \ {0} /\ MaxInput \in Nat

VARIABLES
    frame,          \* FramedRead: "read" awaits bytes, "decode" and "eof" have
                    \* some to decode, "failed" returned an error; "ended" after
                    \* the item chained to the end
    buffer,         \* bytes read and not consumed by the codec
    discarding,     \* LinesCodec: inside a line that was reported as oversized
    input,          \* history: the bytes read
    readFailed,     \* history: a read returned an error
    items           \* history: the items yielded

vars == <<frame, buffer, discarding, input, readFailed, items>>

Byte == Elements \cup {Newline, Return, Invalid}

Record(mac) == [kind |-> "Record", mac |-> mac]
Other(kind) == [kind |-> kind, mac |-> <<>>]

ParseError     == Other("ParseError")
IoError        == Other("IoError")
StreamShutdown == Other("StreamShutdown")

Init ==
    /\ frame = "read" /\ buffer = <<>> /\ discarding = FALSE
    /\ input = <<>> /\ readFailed = FALSE /\ items = <<>>

-----------------------------------------------------------------------------
(* One line. *)

\* Plausible error: only the length is validated.
ValidLength(mac) == Len(mac) = MacLength

Valid(mac) ==
    /\ Len(mac) = MacLength
    /\ \A i \in DOMAIN mac : mac[i] \in 0 .. ByteValues - 1

\* serde_json skips a carriage return between tokens as it skips a blank.
Tokens(line) ==
    LET kept[n \in 0 .. Len(line)] ==
            IF n = 0 THEN <<>>
            ELSE IF line[n] = Return THEN kept[n - 1]
            ELSE Append(kept[n - 1], line[n])
    IN  kept[Len(line)]

ParseLine(line) ==
    IF Valid(Tokens(line)) THEN Record(Tokens(line)) ELSE ParseError

\* A line that is not UTF-8 is an I/O error of the codec.
LineItem(line) ==
    IF \E i \in DOMAIN line : line[i] = Invalid THEN IoError ELSE ParseLine(line)

\* mac_address_hex: each element as a u8.
MacAddressHex(mac) == [i \in DOMAIN mac |-> mac[i] % ByteValues]

-----------------------------------------------------------------------------
(* LinesCodec::decode, as the bounded codec makes use of it. *)

\* Plausible error: the codec is made without a length limit.
NoLimit == MaxInput

Limit == MaxLine

\* The first newline of s in its first n bytes, 0 without one.
NewlineIn(s, n) ==
    SelectInSubSeq(s, 1, IF n < Len(s) THEN n ELSE Len(s), LAMBDA b : b = Newline)

After(s, i) == SubSeq(s, i + 1, Len(s))

\* An oversized line is discarded up to its newline, or with all there is of it.
Discards == discarding /\ NewlineIn(buffer, Len(buffer)) = 0

Rest ==
    IF Discards THEN <<>>
    ELSE IF discarding THEN After(buffer, NewlineIn(buffer, Len(buffer)))
    ELSE buffer

\* A newline is looked for in as many bytes as the longest line and its newline have.
LineEnd == NewlineIn(Rest, Limit + 1)

Decoding == frame \in {"decode", "eof"}

\* FramedRead returns no further item of the codec after an error.
Yield(item) ==
    /\ items' = Append(items, item)
    /\ frame' = IF item = IoError THEN "failed" ELSE frame
    /\ UNCHANGED <<input, readFailed>>

DecodeLine ==
    /\ Decoding /\ LineEnd # 0
    /\ Yield(LineItem(SubSeq(Rest, 1, LineEnd - 1)))
    /\ buffer' = After(Rest, LineEnd) /\ discarding' = FALSE

TooLong == Decoding /\ LineEnd = 0 /\ Len(Rest) > Limit

\* Plausible errors: the codec's error is passed on, and fuses the stream; the
\* line is dropped without an item.
DecodeOversizedFused ==
    TooLong /\ Yield(IoError) /\ buffer' = Rest /\ discarding' = TRUE

DecodeOversizedSilently ==
    /\ TooLong /\ buffer' = Rest /\ discarding' = TRUE
    /\ UNCHANGED <<frame, input, readFailed, items>>

\* map_line turns the codec's error into an item, so that the stream goes on.
DecodeOversized ==
    TooLong /\ Yield(ParseError) /\ buffer' = Rest /\ discarding' = TRUE

\* No whole line is left: FramedRead goes on to read.
DecodeNone ==
    /\ frame = "decode" /\ LineEnd = 0 /\ Len(Rest) <= Limit
    /\ frame' = "read" /\ buffer' = Rest /\ discarding' = Discards
    /\ UNCHANGED <<input, readFailed, items>>

\* What is left at the end of the input, unless it is a lone carriage return, is a line.
LastLine == frame = "eof" /\ LineEnd = 0 /\ Len(Rest) <= Limit

Leftover == Rest \notin {<<>>, <<Return>>}

DecodeLast ==
    /\ LastLine /\ Leftover
    /\ Yield(LineItem(Rest)) /\ buffer' = <<>> /\ discarding' = Discards

-----------------------------------------------------------------------------
(* FramedRead and the item chained to its end. *)

Read ==
    /\ frame = "read"
    /\ \E bytes \in BoundedSeq(Byte, MaxRead) \ {<<>>} :
         /\ Len(input) + Len(bytes) <= MaxInput
         /\ buffer' = buffer \o bytes /\ input' = input \o bytes
    /\ frame' = "decode"
    /\ UNCHANGED <<discarding, readFailed, items>>

\* Stdin is closed.
ReadNothing ==
    /\ frame = "read" /\ frame' = "eof"
    /\ UNCHANGED <<buffer, discarding, input, readFailed, items>>

ReadFails ==
    /\ frame = "read" /\ frame' = "failed"
    /\ readFailed' = TRUE /\ items' = Append(items, IoError)
    /\ UNCHANGED <<buffer, discarding, input>>

Finish ==
    /\ frame = "failed" \/ (LastLine /\ ~Leftover)
    /\ frame' = "ended" /\ items' = Append(items, StreamShutdown)
    /\ UNCHANGED <<buffer, discarding, input, readFailed>>

Ended == frame = "ended" /\ UNCHANGED vars

Next ==
    \/ Read \/ ReadNothing \/ ReadFails
    \/ DecodeLine \/ DecodeOversized \/ DecodeNone \/ DecodeLast
    \/ Finish \/ Ended

Spec == Init /\ [][Next]_vars

-----------------------------------------------------------------------------
(* The items of a whole input, without reads, buffer or codec. *)

Blank == [items |-> <<>>, line |-> <<>>]

\* One more byte of a reading: the items of the lines so far, and the line begun.
Scan(read, byte) ==
    IF Contains(read.items, IoError) THEN read
    ELSE IF byte # Newline THEN [items |-> read.items, line |-> Append(read.line, byte)]
    ELSE [items |-> Append(read.items, IF Len(read.line) > MaxLine THEN ParseError
                                       ELSE LineItem(read.line)),
          line  |-> <<>>]

Reading(bytes) ==
    LET read[n \in 0 .. Len(bytes)] ==
            IF n = 0 THEN Blank ELSE Scan(read[n - 1], bytes[n])
    IN  read[Len(bytes)]

\* The items known before the input ends: an oversized line is known before its end.
SoFar(bytes) ==
    LET read == Reading(bytes)
    IN  read.items \o (IF Len(read.line) > MaxLine THEN <<ParseError>> ELSE <<>>)

\* The items of an input that has ended; its last line may lack a newline.
Whole(bytes) ==
    LET read == Reading(bytes)
    IN  IF Len(read.line) > MaxLine \/ read.line \in {<<>>, <<Return>>} THEN SoFar(bytes)
        ELSE Append(read.items, LineItem(read.line))

-----------------------------------------------------------------------------
(* Properties. *)

\* However the input is cut into reads, the stream yields one item per line, in
\* order: an oversized line is one error, whatever is discarded of it, and the
\* line after it is read as usual ("recovers by discarding", source.rs:48-50).
EndsExactly ==
    frame = "ended" =>
        items = (IF readFailed THEN Append(SoFar(input), IoError) ELSE Whole(input))
                \o <<StreamShutdown>>

\* Before the stream waits for stdin it has yielded every line that is complete:
\* no record is left in the read buffer until more input comes, where the
\* pipeline's latency deadline would not see it.
NothingWithheld == frame = "read" => items = SoFar(input)

\* "The cap prevents a newline-less garbage stream from growing the read buffer
\* without limit" (source.rs:11-13): beyond one line it holds one read.
BufferBounded == Len(buffer) <= MaxLine + MaxRead

\* A record that passes validate has an address that mac_address_hex renders
\* without truncating an element: two devices never share a key.
MacsFaithful ==
    \A i \in DOMAIN items :
        items[i].kind = "Record" => MacAddressHex(items[i].mac) = items[i].mac

\* "Malformed JSON lines are logged and skipped; stdin I/O failures are fatal"
\* (README.md:48): only a failed read ends the stream with an error.
MalformedSkipped == Contains(items, IoError) => readFailed
=============================================================================
