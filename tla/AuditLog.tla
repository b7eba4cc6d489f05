------------------------------ MODULE AuditLog ------------------------------
(***************************************************************************)
(* The audit log of the host (audit.rs): writers in the daemon and in the  *)
(* commands append one line per event to audit.log, rotate it into         *)
(* audit.log.1 ... audit.log.N when it is full, and a device reads the     *)
(* current file page by page, newest first.  Nothing locks the files.      *)
(*                                                                         *)
(* A system call is a step: the stat, each rename of a rotation, the open, *)
(* the write of the line and the write of its newline.  Events are         *)
(* numbered as they are appended, and their times are these numbers.       *)
(***************************************************************************)
EXTENDS Integers, Sequences, FiniteSets

CONSTANTS
    Writers,
    MaxLines,   \* AUDIT_MAX_BYTES, in lines
    Archives,   \* AUDIT_MAX_ARCHIVES
    PageLimit,  \* limit of a read_audit_tail
    EventMax,   \* bound: events appended
    Faults,     \* bound: crashes and rotations that fail
    Overlap     \* whether two writers may be at work at once

AuditAssumption ==
    /\ MaxLines \in Nat \ {0} /\ Archives \in Nat \ {0}
    /\ PageLimit \in Nat /\ EventMax \in Nat /\ Faults \in Nat /\ Overlap \in BOOLEAN

Newline == 0
NoFile == 0     \* a name that names nothing
NoStep == <<"idle", 0>>

VARIABLES
    name,       \* name[0] is audit.log, name[n] audit.log.n: the inode it names
    data,       \* what has been appended to each inode: events and newlines
    pc,         \* where each writer is
    fd,         \* the inode a writer has opened
    next,       \* the last event appended
    shown,      \* the events on the pages a device has read
    before,     \* before_ts of its next page
    faults,
    ignored     \* an archive could not be removed or renamed

files == <<name, data>>
vars == <<name, data, pc, fd, next, shown, before, faults, ignored>>

Slots == 0..Archives

Init ==
    /\ name = [n \in Slots |-> NoFile] /\ data = <<>>
    /\ pc = [w \in Writers |-> NoStep] /\ fd = [w \in Writers |-> NoFile]
    /\ next = 0 /\ shown = <<>> /\ before = EventMax + 1
    /\ faults = 0 /\ ignored = FALSE

Goes(w, step) == pc' = [pc EXCEPT ![w] = step]

Bytes(n) == IF name[n] = NoFile THEN <<>> ELSE data[name[n]]
Lines(s) == Cardinality({i \in DOMAIN s : s[i] = Newline})

---------------------------------------------------------------------------
\* write_audit_event: a full log is rotated before it is opened.
Begins(w) ==
    /\ pc[w] = NoStep /\ next < EventMax
    /\ Overlap \/ \A v \in Writers : pc[v] = NoStep
    /\ Goes(w, IF Lines(Bytes(0)) >= MaxLines THEN <<"drop", Archives>> ELSE <<"open", 0>>)
    /\ UNCHANGED <<files, fd, next, shown, before, faults, ignored>>

\* The oldest archive goes.
DropsOldest(w) ==
    /\ pc[w] = <<"drop", Archives>>
    /\ name' = [name EXCEPT ![Archives] = NoFile]
    /\ Goes(w, <<"shift", Archives - 1>>)
    /\ UNCHANGED <<data, fd, next, shown, before, faults, ignored>>

\* audit.log.n becomes audit.log.(n+1), over what was there; n = 0 is the log.
Renamed(n) ==
    name' = IF name[n] = NoFile THEN name
            ELSE [name EXCEPT ![n + 1] = name[n], ![n] = NoFile]

\* Mutant: the loop runs in the other direction.
ShiftsUp(w) ==
    \E n \in Slots \ {Archives} :
        /\ pc[w] = <<"shift", n>>
        /\ Renamed(Archives - 1 - n)
        /\ Goes(w, IF n = 0 THEN <<"open", 0>> ELSE <<"shift", n - 1>>)
        /\ UNCHANGED <<data, fd, next, shown, before, faults, ignored>>

\* The loop goes from the oldest archive to the current file.
Shifts(w) ==
    \E n \in Slots \ {Archives} :
        /\ pc[w] = <<"shift", n>>
        /\ Renamed(n)
        /\ Goes(w, IF n = 0 THEN <<"open", 0>> ELSE <<"shift", n - 1>>)
        /\ UNCHANGED <<data, fd, next, shown, before, faults, ignored>>

\* The removal or the rename of an archive that is there fails, and nobody looks.
IgnoresFailure(w) ==
    \E n \in 1..Archives :
        /\ name[n] # NoFile /\ faults < Faults
        /\ pc[w] = IF n = Archives THEN <<"drop", n>> ELSE <<"shift", n>>
        /\ Goes(w, <<"shift", n - 1>>)
        /\ faults' = faults + 1 /\ ignored' = TRUE
        /\ UNCHANGED <<files, fd, next, shown, before>>

\* The last rename fails: the event goes to the file as it is.
RotationFails(w) ==
    /\ pc[w] = <<"shift", 0>> /\ faults < Faults
    /\ faults' = faults + 1
    /\ Goes(w, <<"open", 0>>)
    /\ UNCHANGED <<files, fd, next, shown, before, ignored>>

Opens(w) ==
    /\ pc[w] = <<"open", 0>>
    /\ IF name[0] = NoFile
       THEN /\ data' = Append(data, <<>>)
            /\ name' = [name EXCEPT ![0] = Len(data')]
       ELSE UNCHANGED files
    /\ fd' = [fd EXCEPT ![w] = name'[0]]
    /\ Goes(w, <<"line", 0>>)
    /\ UNCHANGED <<next, shown, before, faults, ignored>>

Appends(w, b) == data' = [data EXCEPT ![fd[w]] = Append(@, b)]

WritesLine(w) ==
    /\ pc[w] = <<"line", 0>> /\ next < EventMax
    /\ next' = next + 1 /\ Appends(w, next')
    /\ Goes(w, <<"newline", 0>>)
    /\ UNCHANGED <<name, fd, shown, before, faults, ignored>>

WritesNewline(w) ==
    /\ pc[w] = <<"newline", 0>>
    /\ Appends(w, Newline)
    /\ Goes(w, NoStep) /\ fd' = [fd EXCEPT ![w] = NoFile]
    /\ UNCHANGED <<name, next, shown, before, faults, ignored>>

\* The process dies, or a call of it fails, and the event is given up.
Stops(w) ==
    /\ pc[w] # NoStep /\ faults < Faults
    /\ faults' = faults + 1
    /\ Goes(w, NoStep) /\ fd' = [fd EXCEPT ![w] = NoFile]
    /\ UNCHANGED <<files, next, shown, before, ignored>>

---------------------------------------------------------------------------
\* read_audit_tail: a line that is not exactly one event is skipped.
Readable(s) ==
    {i \in DOMAIN s : /\ s[i] # Newline
                      /\ i = 1 \/ s[i - 1] = Newline
                      /\ i = Len(s) \/ s[i + 1] = Newline}

Older(s) == {i \in Readable(s) : s[i] < before}

\* The positions of a page: the newest ones, newest first, up to the limit.
Matched(s, page) ==
    /\ \A i \in DOMAIN page : {k \in Older(s) : k > page[i]} = {page[j] : j \in 1..(i - 1)}
    /\ Len(page) = PageLimit \/ Older(s) = {page[i] : i \in DOMAIN page}

\* The device asks for its next page, older than the last event it has.
ReadsPage ==
    LET s == Bytes(0) IN
    \E m \in 1..PageLimit : \E page \in [1..m -> Older(s)] :
        /\ Matched(s, page)
        /\ shown' = shown \o [i \in 1..m |-> s[page[i]]]
        /\ before' = s[page[m]]
        /\ UNCHANGED <<files, pc, fd, next, faults, ignored>>

StartsOver ==
    /\ shown # <<>>
    /\ shown' = <<>> /\ before' = EventMax + 1
    /\ UNCHANGED <<files, pc, fd, next, faults, ignored>>

Writes(w) ==
    \/ Begins(w) \/ DropsOldest(w) \/ Shifts(w) \/ IgnoresFailure(w) \/ RotationFails(w)
    \/ Opens(w) \/ WritesLine(w) \/ WritesNewline(w) \/ Stops(w)

Next == (\E w \in Writers : Writes(w)) \/ ReadsPage \/ StartsOver

Spec == Init /\ [][Next]_vars

---------------------------------------------------------------------------
Events(n) == {Bytes(n)[i] : i \in DOMAIN Bytes(n)} \ {Newline}

\* The events of a file, and those of an older file before them, are in order.
InOrder ==
    /\ \A n \in Slots : \A i, j \in DOMAIN Bytes(n) :
          i < j /\ Newline \notin {Bytes(n)[i], Bytes(n)[j]} => Bytes(n)[i] < Bytes(n)[j]
    /\ \A m, n \in Slots : m < n => \A d \in Events(m), e \in Events(n) : e < d

\* Whatever rotation has removed is older than everything it has kept, and the
\* newest event is there: a crash between any two renames, or a rename of the
\* log that fails, makes no hole in the record, and costs one archive at most.
\* Only an archive that stays where it is, and is written over by the next,
\* may make one; the files are in order then, too (audit.rs 258-290).
OldestLostFirst ==
    /\ InOrder
    /\ ignored \/ \E low \in 1..(next + 1) :
          /\ UNION {Events(n) : n \in Slots} = low..next
          /\ next > 0 => low <= next
          /\ low = 1 \/ (next - low) + 1 >= MaxLines * (Archives - faults)

\* Reading on from the last event of a page skips nothing that the log of that
\* moment still holds in a line of its own, though the log is appended to and
\* rotated between two pages (audit.rs:196).
PagesGapFree ==
    \A i \in 1..(Len(shown) - 1) :
        /\ shown[i] > shown[i + 1]
        /\ \A n \in Slots : \A k \in Readable(Bytes(n)) :
              ~(shown[i + 1] < Bytes(n)[k] /\ Bytes(n)[k] < shown[i])

\* The audit record has no hole, on disk or as it is shown.
AuditComplete == OldestLostFirst /\ PagesGapFree

=============================================================================
