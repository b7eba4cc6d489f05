----------------------------- MODULE MCFileOps -----------------------------
(* Instances of FileActions, FileTail, FrameAssembly and AuditLog for TLC.  *)
(* They share no state: each behaviour exercises the one that focus names,  *)
(* and leaves the others as they begin.                                     *)
EXTENDS Integers, Sequences

CONSTANTS Names, Depth, Denied, Mounts, MaxEntries
VARIABLES disk, before, op, audit
Actions == INSTANCE FileActions
ASSUME ActionsAssumption == Actions!ActionsAssumption

CONSTANTS MaxDelta, MaxLines, MaxFile
VARIABLES file, missing, from, last_size, partial, pending_lines, delivered, split, rewritten
Watch == INSTANCE FileTail

CONSTANTS MsgIds, MaxChunks, MaxBytes, SplitSize, Widths, MaxText
VARIABLES messages, transfers, pasted, active, text
Frames == INSTANCE FrameAssembly
ASSUME FramesAssumption == Frames!FramesAssumption

CONSTANTS AuditWriters, LogLines, Archives, PageLimit, EventMax, AuditFaults, AuditOverlap
VARIABLES logNames, logData, writing, logFd, lastEvent, shown, olderThan, auditFaults, auditIgnored
Audit ==
    INSTANCE AuditLog WITH
        Writers <- AuditWriters, MaxLines <- LogLines, Faults <- AuditFaults, Overlap <- AuditOverlap,
        name <- logNames, data <- logData, pc <- writing, fd <- logFd, next <- lastEvent,
        before <- olderThan, faults <- auditFaults, ignored <- auditIgnored
ASSUME AuditAssumption == Audit!AuditAssumption

VARIABLE focus

actionVars == <<disk, before, op, audit>>
tailVars ==
    <<file, missing, from, last_size, partial, pending_lines, delivered, split, rewritten>>
frameVars == <<messages, transfers, pasted, active, text>>
logVars == <<logNames, logData, writing, logFd, lastEvent, shown, olderThan, auditFaults, auditIgnored>>
vars == <<actionVars, tailVars, frameVars, logVars, focus>>

ActionsRest ==
    /\ disk = [p \in Actions!Paths |-> Actions!None] /\ before = disk
    /\ op = Actions!Idle /\ audit = "none"

TailRests ==
    /\ file = <<>> /\ missing = FALSE /\ from = 0
    /\ last_size = 0 /\ partial = <<>> /\ pending_lines = <<>>
    /\ delivered = <<>> /\ split = FALSE /\ rewritten = FALSE

FramesRest ==
    /\ messages = [i \in MsgIds |-> Frames!None]
    /\ transfers = messages /\ pasted = Frames!NoPaste /\ active = TRUE /\ text = <<>>

Init ==
    /\ Audit!Init
    /\ \/ focus = "actions" /\ Actions!Init /\ TailRests /\ FramesRest
       \/ focus = "tail" /\ Watch!Init /\ ActionsRest /\ FramesRest
       \/ focus = "frames" /\ Frames!Init /\ text = <<>> /\ ActionsRest /\ TailRests
       \/ focus = "text" /\ Frames!Init /\ active /\ ActionsRest /\ TailRests
       \/ focus = "log" /\ ActionsRest /\ TailRests /\ FramesRest

Next ==
    \/ focus = "actions" /\ Actions!Next /\ UNCHANGED <<tailVars, frameVars, logVars, focus>>
    \/ focus = "tail" /\ Watch!Next /\ UNCHANGED <<actionVars, frameVars, logVars, focus>>
    \/ focus = "frames" /\ Frames!Next /\ UNCHANGED <<actionVars, tailVars, logVars, focus>>
    \/ focus = "log" /\ Audit!Next /\ UNCHANGED <<actionVars, tailVars, frameVars, focus>>

Spec ==
    /\ Init /\ [][Next]_vars
    /\ WF_vars(/\ focus = "actions" /\ Actions!Step
               /\ UNCHANGED <<tailVars, frameVars, logVars, focus>>)

ProtectedPath == {<<"b", "b">>}
OtherDisk == {"b"}

\* FileActions!SourceKept and OnlyTargets: no failure or crash in a copy or a
\* move loses a file of its source, and a request changes only what it names
\* (files.rs 1213-1507).
ActionsSound == Actions!SourceKept /\ Actions!OnlyTargets

\* FileActions!RequestsEnd: a request comes to its end (files.rs 1313-1378).
RequestsEnd == Actions!RequestsEnd

\* FileTail!TailFaithful and FrameAssembly!SplitIntact: the lines pushed are the
\* lines of the file, and a long response is split without loss
\* (files_watch.rs 52-110, daemon/files.rs 354-390).
TextsFaithful == Watch!TailFaithful /\ Frames!SplitIntact

\* FrameAssembly!BuffersBounded: what is assembled is what is counted
\* (daemon/files.rs 162-185, 1126-1140).
FramesSound == Frames!BuffersBounded

\* AuditLog!AuditComplete: the audit record has no hole, on disk or as it is
\* shown (audit.rs 95-290).
AuditComplete == Audit!AuditComplete

=============================================================================
