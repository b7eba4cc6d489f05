---------------------------- MODULE FrameAssembly ----------------------------
(***************************************************************************)
(* Messages that are too long for one frame (daemon/files.rs): requests    *)
(* that a device sends over the files channel in chunks, images that it    *)
(* pastes into a terminal, and responses that the host splits for the      *)
(* signalling channel.                                                     *)
(*                                                                         *)
(* A chunk is its length.  A text is the sequence of the widths of its     *)
(* characters in bytes.                                                    *)
(***************************************************************************)
EXTENDS Integers, Sequences, SequencesExt

CONSTANTS
    MsgIds,       \* message and transfer ids
    MaxChunks,    \* MAX_FILES_FRAMED_CHUNKS and MAX_FILE_TRANSFER_CHUNKS
    MaxBytes,     \* MAX_FILES_FRAMED_MESSAGE_BYTES and MAX_FILE_TRANSFER_B64_BYTES
    SplitSize,    \* FILES_SIGNALING_RESPONSE_CHUNK_SIZE
    Widths,       \* widths of characters
    MaxText       \* bound: characters of a text

FramesAssumption == MaxChunks \in Nat /\ MaxBytes \in Nat

VARIABLES
    messages,     \* files_channel_messages
    transfers,    \* file_transfers
    pasted,       \* the last image: what arrived of it, and whether it was typed
    active,       \* the session of the transfers has a PTY
    text          \* a response

vars == <<messages, transfers, pasted, active, text>>

None == [expected |-> 0, chunks |-> <<>>, received |-> 0]
NoPaste == [chunks |-> <<>>, injected |-> FALSE]

Init ==
    /\ messages = [i \in MsgIds |-> None]
    /\ transfers = [i \in MsgIds |-> None]
    /\ pasted = NoPaste
    /\ active \in BOOLEAN
    /\ text \in UNION {[1 .. n -> Widths] : n \in 0 .. MaxText}

-----------------------------------------------------------------------------
(* decode_framed_files_message                                             *)

\* A start under a running id begins anew.
FramedStart(i, n) ==
    /\ n \in 1 .. MaxChunks
    /\ messages' = [messages EXCEPT ![i] =
                     [expected |-> n, chunks |-> [k \in 1 .. n |-> 0], received |-> 0]]
    /\ UNCHANGED <<transfers, pasted, active, text>>

\* Mutant: a chunk that is sent again is counted again.
FramedChunkCountsTwice(i, k, len) ==
    LET total == messages[i].received + len IN
    /\ messages[i] # None /\ k <= messages[i].expected
    /\ messages' = [messages EXCEPT ![i] =
                     IF total > MaxBytes THEN None
                     ELSE [@ EXCEPT !.chunks[k] = len, !.received = total]]
    /\ UNCHANGED <<transfers, pasted, active, text>>

\* The chunk at index k replaces what had arrived for it.
FramedChunk(i, k, len) ==
    LET total == messages[i].received - messages[i].chunks[k] + len IN
    /\ messages[i] # None /\ k <= messages[i].expected
    /\ messages' = [messages EXCEPT ![i] =
                     IF total > MaxBytes THEN None
                     ELSE [@ EXCEPT !.chunks[k] = len, !.received = total]]
    /\ UNCHANGED <<transfers, pasted, active, text>>

\* Chunks that are missing count as empty.
FramedEnd(i) ==
    /\ messages' = [messages EXCEPT ![i] = None]
    /\ UNCHANGED <<transfers, pasted, active, text>>

\* FILES_MESSAGE_TIMEOUT_SECS since the start, whatever has arrived since.
FramedExpires(i) == messages[i] # None /\ FramedEnd(i)

-----------------------------------------------------------------------------
(* handle_file_transfer_msg                                                *)

TransferStart(i, n) ==
    /\ n \in 1 .. MaxChunks
    /\ transfers' = [transfers EXCEPT ![i] = [expected |-> n, chunks |-> <<>>, received |-> 0]]
    /\ UNCHANGED <<messages, pasted, active, text>>

\* One chunk too many, or too many bytes, ends the transfer.
TransferChunk(i, len) ==
    LET t == transfers[i] IN
    /\ t # None
    /\ transfers' = [transfers EXCEPT ![i] =
                      IF Len(t.chunks) >= t.expected \/ t.received + len > MaxBytes THEN None
                      ELSE [t EXCEPT !.chunks = Append(@, len), !.received = @ + len]]
    /\ UNCHANGED <<messages, pasted, active, text>>

\* The image is written and its path typed into the terminal, if there is one.
TransferEnd(i) ==
    /\ transfers[i] # None
    /\ transfers' = [transfers EXCEPT ![i] = None]
    /\ pasted' = [chunks |-> transfers[i].chunks, injected |-> active]
    /\ UNCHANGED <<messages, active, text>>

\* Cancelled, no base64, or the file cannot be written.
TransferDropped(i) ==
    /\ transfers[i] # None
    /\ transfers' = [transfers EXCEPT ![i] = None]
    /\ UNCHANGED <<messages, pasted, active, text>>

\* FILE_TRANSFER_TIMEOUT_SECS since the start.
TransferExpires(i) == TransferDropped(i)

Next ==
    \E i \in MsgIds :
        \/ \E n \in 0 .. MaxChunks + 1 : FramedStart(i, n) \/ TransferStart(i, n)
        \/ \E len \in 0 .. MaxBytes :
              TransferChunk(i, len) \/ \E k \in 1 .. MaxChunks : FramedChunk(i, k, len)
        \/ FramedEnd(i) \/ FramedExpires(i)
        \/ TransferEnd(i) \/ TransferDropped(i) \/ TransferExpires(i)

Spec == Init /\ [][Next]_vars

-----------------------------------------------------------------------------
(* split_str_for_signaling                                                 *)

\* The byte at which character i of t starts; Bytes(t) is its length.
StartOf(t, i) == FoldLeft(+, 0, SubSeq(t, 1, i - 1))
Bytes(t) == FoldLeft(+, 0, t)
Boundaries(t) == {StartOf(t, i) : i \in 1 .. Len(t) + 1}

\* The pass over the characters: pieces <<from, to>>, where the next one
\* starts, and the boundary before the character at hand.
Pass(t) ==
    FoldLeft(
        LAMBDA acc, i :
            LET idx == StartOf(t, i)
                end == IF acc.last > acc.start THEN acc.last ELSE idx IN
            IF idx = acc.start \/ idx - acc.start <= SplitSize THEN [acc EXCEPT !.last = idx]
            ELSE [pieces |-> Append(acc.pieces, <<acc.start, end>>), start |-> end, last |-> idx],
        [pieces |-> <<>>, start |-> 0, last |-> 0], [i \in 1 .. Len(t) |-> i])

\* The pieces of what the pass leaves, from byte s on.
Rest(t) ==
    LET rest[s \in 0 .. Bytes(t)] ==
            LET fits == {b \in Boundaries(t) : s < b /\ b <= s + SplitSize}
                end == IF fits = {} THEN Bytes(t) ELSE CHOOSE b \in fits : \A c \in fits : c <= b IN
            IF s >= Bytes(t) THEN <<>> ELSE <<<<s, end>>>> \o rest[end]
    IN rest[Pass(t).start]

SplitForSignaling(t) ==
    IF t = <<>> THEN << <<0, 0>> >> ELSE Pass(t).pieces \o Rest(t)

-----------------------------------------------------------------------------
(* Properties                                                              *)

\* The lengths in s add up to n: their running total ends there.
AddUpTo(s, n) ==
    \E sum \in [0 .. Len(s) -> 0 .. n] :
        sum[0] = 0 /\ sum[Len(s)] = n /\ \A i \in 1 .. Len(s) : sum[i] = sum[i - 1] + s[i]

\* The counters that bound the memory of a message in assembly are what its
\* chunks hold, whichever chunks are sent twice or out of order, and never
\* exceed the limit (daemon/files.rs 162-185, 1126-1140).
BuffersBounded ==
    \A b \in {messages[i] : i \in MsgIds} \cup {transfers[i] : i \in MsgIds} :
        AddUpTo(b.chunks, b.received) /\ b.received <= MaxBytes /\ Len(b.chunks) <= b.expected

\* The pieces of a response follow one another without gap or overlap from its
\* first byte to its last, cut no character, and none is longer than a frame
\* may be or empty (daemon/files.rs 354-390).
SplitIntact ==
    LET pieces == SplitForSignaling(text) IN
    /\ pieces[1][1] = 0 /\ pieces[Len(pieces)][2] = Bytes(text)
    /\ \A i \in 1 .. Len(pieces) - 1 : pieces[i][2] = pieces[i + 1][1]
    /\ \A i \in 1 .. Len(pieces) :
          /\ {pieces[i][1], pieces[i][2]} \subseteq Boundaries(text)
          /\ pieces[i][2] - pieces[i][1] <= SplitSize
          /\ text # <<>> => pieces[i][1] < pieces[i][2]

=============================================================================
