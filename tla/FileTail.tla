------------------------------ MODULE FileTail ------------------------------
(***************************************************************************)
(* The tailer of a watched file (files_watch.rs) and the watcher that      *)
(* sends its lines (daemon.rs, watch_file): a file that other programs     *)
(* append to, truncate and rename is polled, and its complete lines go to  *)
(* the device.                                                             *)
(*                                                                         *)
(* A file is a sequence of bytes: letters, "n" for a newline, and "h", "t" *)
(* for the two bytes of one wide character, which is "w" when decoded.     *)
(***************************************************************************)
EXTENDS Integers, Sequences, SequencesExt

CONSTANTS
    MaxDelta,   \* MAX_DELTA_BYTES
    MaxLines,   \* MAX_LINES_PER_TICK
    MaxFile     \* bound: length of the file

VARIABLES
    file,       \* bytes of the file
    missing,    \* the file is being renamed
    from,       \* offset at which the watch began
    last_size, partial, pending_lines,    \* TailState
    delivered,  \* lines sent to the device since the watch or a reset
    split,      \* a read ended within a character
    rewritten   \* the file was truncated and no poll has noticed

tail == <<last_size, partial, pending_lines>>
vars == <<file, missing, from, tail, delivered, split, rewritten>>

Letters == {"a", "n", "h", "t"}

Init ==
    /\ file \in {<<>>, <<"a">>, <<"a", "n">>}
    /\ missing = FALSE
    /\ from \in 0 .. Len(file)
    /\ last_size = from /\ partial = <<>> /\ pending_lines = <<>>
    /\ delivered = <<>>
    /\ split = FALSE /\ rewritten = FALSE

-----------------------------------------------------------------------------

\* from_utf8_lossy: a half of a character becomes a replacement.
Decode(bytes) ==
    FoldLeft(
        LAMBDA out, b :
            IF b = "t" /\ out # <<>> /\ Last(out) = "h" THEN Append(Front(out), "w")
            ELSE Append(out, b),
        <<>>, bytes)

Lossy(bytes) ==
    [i \in 1 .. Len(Decode(bytes)) |->
        IF Decode(bytes)[i] \in {"h", "t"} THEN "?" ELSE Decode(bytes)[i]]

\* str::lines without the empty ones, and what follows the last newline.
Split(text) ==
    FoldLeft(
        LAMBDA acc, ch :
            IF ch # "n" THEN [acc EXCEPT !.rest = Append(@, ch)]
            ELSE [lines |-> IF acc.rest = <<>> THEN acc.lines ELSE Append(acc.lines, acc.rest),
                  rest |-> <<>>],
        [lines |-> <<>>, rest |-> <<>>], text)

Least(a, b) == IF a < b THEN a ELSE b

Take(s, n) == SubSeq(s, 1, Least(n, Len(s)))

Drop(s, n) == SubSeq(s, Least(n, Len(s)) + 1, Len(s))

-----------------------------------------------------------------------------
(* Other programs                                                          *)

Appends(b) ==
    /\ Len(file) < MaxFile /\ ~missing
    /\ b = "t" <=> (file # <<>> /\ Last(file) = "h")
    /\ file' = Append(file, b)
    /\ UNCHANGED <<missing, from, tail, delivered, split, rewritten>>

Truncates ==
    /\ Len(file) > 0 /\ file' = <<>>
    /\ rewritten' = TRUE
    /\ UNCHANGED <<missing, from, tail, delivered, split>>

Renames ==
    /\ missing' = ~missing
    /\ UNCHANGED <<file, from, tail, delivered, split, rewritten>>

-----------------------------------------------------------------------------
(* read_delta                                                              *)

\* Lines left over from the last read go first, and the file is not looked at.
PollPending ==
    /\ pending_lines # <<>>
    /\ delivered' = delivered \o Take(pending_lines, MaxLines)
    /\ pending_lines' = Drop(pending_lines, MaxLines)
    /\ UNCHANGED <<file, missing, from, last_size, partial, split, rewritten>>

PollMissing ==
    /\ pending_lines = <<>> /\ missing
    /\ UNCHANGED vars

\* What is read from offset, after text that is already there.
Delta(offset, text) ==
    LET bytes == Take(Drop(file, offset), MaxDelta)
        parts == Split(text \o Lossy(bytes)) IN
    /\ last_size' = offset + Len(bytes)
    /\ partial' = parts.rest
    /\ pending_lines' = Drop(parts.lines, MaxLines)
    /\ delivered' = (IF offset = last_size THEN delivered ELSE <<>>) \o Take(parts.lines, MaxLines)
    /\ split' = ((split /\ offset = last_size) \/ (bytes # <<>> /\ Last(bytes) = "h"))

PollGrown ==
    /\ pending_lines = <<>> /\ ~missing /\ Len(file) >= last_size
    /\ Delta(last_size, partial)
    /\ UNCHANGED <<file, missing, from, rewritten>>

\* Mutant: the incomplete line of the old file is kept.
PollShrunkKeeps ==
    /\ pending_lines = <<>> /\ ~missing /\ Len(file) < last_size
    /\ Delta(0, partial)
    /\ from' = 0 /\ rewritten' = FALSE
    /\ UNCHANGED <<file, missing>>

\* The file shrank: the state is reset and the file read from its start.
PollShrunk ==
    /\ pending_lines = <<>> /\ ~missing /\ Len(file) < last_size
    /\ Delta(0, <<>>)
    /\ from' = 0 /\ rewritten' = FALSE
    /\ UNCHANGED <<file, missing>>

Poll == PollPending \/ PollMissing \/ PollGrown \/ PollShrunk

Next == (\E b \in Letters : Appends(b)) \/ Truncates \/ Renames \/ Poll

\* The ticker of the watcher.
Fairness == WF_vars(PollPending \/ PollGrown \/ PollShrunk)

Spec == Init /\ [][Next]_vars /\ Fairness

-----------------------------------------------------------------------------
(* Properties                                                              *)

\* What has been delivered, what waits, and the line that is not complete are
\* together what the file held from the start of the watch to the place read,
\* whatever the sizes of the reads and the ticks at which they were made,
\* unless a read ended within a character, or the file was rewritten and is
\* by now as long as it was (files_watch.rs 52-110).
TailFaithful ==
    LET seen == Split(Lossy(SubSeq(file, from + 1, last_size))) IN
    (~split /\ ~rewritten) =>
        delivered \o pending_lines = seen.lines /\ partial = seen.rest

=============================================================================
