----------------------------- MODULE FileActions -----------------------------
(***************************************************************************)
(* The actions of the files channel that change the disk (files.rs), each  *)
(* taken apart into the system calls it makes: a request may fail, and the *)
(* host may go down, between any two of them.                              *)
(*                                                                         *)
(* Paths are canonical: sequences of names below the root.  The content of *)
(* a file is the path it had at first, so that a file can be followed.     *)
(* Links, permissions and times are left out.                              *)
(***************************************************************************)
EXTENDS Integers, Sequences, FiniteSets

CONSTANTS
    Names,      \* names of directory entries
    Depth,      \* PATH_MAX, in names
    Denied,     \* paths that is_path_denied rejects
    Mounts,     \* names at the root that are file systems of their own
    MaxEntries  \* entries on the disk when the request arrives

ActionsAssumption == Depth \in Nat /\ MaxEntries \in Nat

VARIABLES
    disk,       \* entry at each path
    before,     \* disk when the request arrived
    op,         \* the request
    audit       \* outcome in the audit log, "none" if there is no record

vars == <<disk, before, op, audit>>

Paths == UNION {[1 .. n -> Names] : n \in 1 .. Depth}

None == <<"none">>
Dir == <<"dir">>
File(c) == <<"file">> \o c

Parent(p) == SubSeq(p, 1, Len(p) - 1)

Within(p, q) == Len(q) <= Len(p) /\ SubSeq(p, 1, Len(q)) = q

Tree(d, p) == {q \in Paths : Within(q, p) /\ d[q] # None}

Children(d, p) == {q \in Tree(d, p) : Len(q) = Len(p) + 1}

IsDir(d, p) == p = <<>> \/ d[p] = Dir

IsFile(d, p) == d[p] \notin {None, Dir}

\* The place of r, below p, when p has become q.
Rebased(r, p, q) == q \o SubSeq(r, Len(p) + 1, Len(r))

\* Where the copy of q goes.
Dest(q) == Rebased(q, op.src, op.dst)

Volume(p) == IF Head(p) \in Mounts THEN Head(p) ELSE "root"

Idle == [kind |-> "none", src |-> <<>>, dst |-> <<>>, over |-> FALSE,
         pc |-> "idle", todo |-> {}]

\* Trees of files and directories with room below them.
Init ==
    /\ \E files, dirs \in SUBSET {p \in Paths : Len(p) < Depth} :
          /\ files \cap dirs = {} /\ Cardinality(files \cup dirs) <= MaxEntries
          /\ \A p \in files \cup dirs, q \in Paths : Within(p, q) /\ q # p => q \in dirs
          /\ disk = [p \in Paths |-> IF p \in files THEN File(p)
                                    ELSE IF p \in dirs THEN Dir ELSE None]
    /\ before = disk
    /\ op = Idle
    /\ audit = "none"

-----------------------------------------------------------------------------
(* Requests                                                                *)

\* create_dir_all: stops at a file in the way.
MakesDirs(p) ==
    IF \E q \in Paths : Within(p, q) /\ IsFile(disk, q) THEN disk
    ELSE [q \in Paths |-> IF Within(p, q) /\ disk[q] = None THEN Dir ELSE disk[q]]

Go(pc) == op' = [op EXCEPT !.pc = pc]

\* The request is refused, or begins with the step named pc.
BeginTo(kind, src, dst, overwrite, pc) ==
    /\ op.pc = "idle"
    /\ op' = [Idle EXCEPT !.kind = kind, !.src = src, !.dst = dst, !.over = overwrite, !.pc = pc]
    /\ UNCHANGED <<disk, before, audit>>

Begin(kind, src, dst, pc) == BeginTo(kind, src, dst, FALSE, pc)

\* safe_canonicalize
Exists(p) == disk[p] # None /\ p \notin Denied

\* safe_resolve_dest
Allowed(p) == p \notin Denied

Mkdir(p) == Begin("mkdir", p, p, IF Allowed(p) THEN "making" ELSE "failed")

DeletePath(p) == Begin("delete", p, p, IF Exists(p) THEN "removing" ELSE "failed")

\* Bound: PATH_MAX is for the path a call is given, and what lies below an
\* entry that is renamed may become longer; in the model it does not.
Fits(p, q) ==
    (Len(p) < Len(q) /\ disk[p] # None /\ Volume(p) = Volume(q)) =>
        \A r \in Tree(disk, p) : Len(r) - Len(p) + Len(q) <= Depth

RenamePath(p, q) ==
    /\ Begin("rename", p, q, IF Allowed(q) /\ Exists(p) THEN "renaming" ELSE "failed")
    /\ Fits(p, q)

\* An existing destination is refused, or removed first.
Replacing(p, q, overwrite, pc) ==
    IF ~Allowed(q) \/ ~Exists(p) THEN "failed"
    ELSE IF disk[q] = None THEN pc
    ELSE IF overwrite THEN "clearing" ELSE "failed"

CopyPath(p, q, overwrite) ==
    BeginTo("copy", p, q, overwrite, Replacing(p, q, overwrite, "reading"))

MovePath(p, q, overwrite) ==
    /\ BeginTo("move", p, q, overwrite, Replacing(p, q, overwrite, "renaming"))
    /\ Fits(p, q)

\* Too large a payload, or no base64, is refused.
WriteFile(p, valid) ==
    Begin("write", p, p, IF Allowed(p) /\ valid THEN "truncating" ELSE "failed")

\* list_dir, read_file, stat, list_drives, search: nothing changes, and no
\* record is written.
Query(p) == Begin("query", p, p, "answered")

\* download reads a file as a whole, and is recorded.
DownloadFile(p) ==
    Begin("download", p, p, IF Exists(p) /\ IsFile(disk, p) THEN "ok" ELSE "failed")

UnknownAction(p) == Begin("unknown", p, p, "failed")

-----------------------------------------------------------------------------
(* Their steps                                                             *)

Made ==
    /\ op.pc = "making"
    /\ disk' = MakesDirs(op.src)
    /\ Go(IF IsDir(disk', op.src) THEN "ok" ELSE "failed")
    /\ UNCHANGED <<before, audit>>

\* remove_dir_all and remove_file: a directory goes when it is empty.
Removes(p) ==
    /\ disk[p] # None /\ Children(disk, p) = {}
    /\ disk' = [disk EXCEPT ![p] = None]
    /\ UNCHANGED <<before, audit>>

Cleared ==
    /\ op.pc = "clearing"
    /\ \E p \in Tree(disk, op.dst) :
          /\ Removes(p)
          /\ IF p # op.dst THEN UNCHANGED op
             ELSE Go(IF op.kind = "copy" THEN "reading" ELSE "renaming")

\* The end of a delete, and of a move to another file system.
Removed ==
    /\ op.pc = "removing"
    /\ \E p \in Tree(disk, op.src) :
          /\ Removes(p)
          /\ IF p = op.src THEN Go("ok") ELSE UNCHANGED op

CanRename ==
    /\ disk[op.src] # None
    /\ IsDir(disk, Parent(op.dst))
    /\ \/ op.dst = op.src
       \/ /\ ~Within(op.dst, op.src)
          /\ disk[op.dst] # None =>
                /\ IsDir(disk, op.src) <=> IsDir(disk, op.dst)
                /\ Children(disk, op.dst) = {}

\* Within one file system the entry and all below it change their names.
Moved ==
    [q \in Paths |->
        IF Within(q, op.dst)
        THEN LET p == Rebased(q, op.dst, op.src) IN
             IF p \in Paths THEN disk[p] ELSE None
        ELSE IF Within(q, op.src) THEN None ELSE disk[q]]

\* A move makes the directories above its destination.  EXDEV leads to a copy.
Renames ==
    /\ op.pc = "renaming"
    /\ IF op.kind = "move" /\ ~IsDir(disk, Parent(op.dst)) /\ MakesDirs(Parent(op.dst)) # disk
       THEN disk' = MakesDirs(Parent(op.dst)) /\ UNCHANGED op
       ELSE IF ~CanRename THEN Go("failed") /\ UNCHANGED disk
       ELSE IF Volume(op.src) = Volume(op.dst) THEN disk' = Moved /\ Go("ok")
       ELSE Go(IF op.kind = "move" THEN "reading" ELSE "failed") /\ UNCHANGED disk
    /\ UNCHANGED <<before, audit>>

\* The metadata of the source: a destination above the source has taken it away.
Reads ==
    /\ op.pc = "reading"
    /\ op' = IF disk[op.src] = None THEN [op EXCEPT !.pc = "failed"]
             ELSE [op EXCEPT !.pc = "copying", !.todo = {op.src}]
    /\ disk' = IF IsFile(disk, op.src) /\ Len(op.dst) > 1
               THEN MakesDirs(Parent(op.dst)) ELSE disk
    /\ UNCHANGED <<before, audit>>

\* Mutant: an entry that cannot be copied is left out.
CopiesWhatItCan ==
    /\ op.pc = "copying"
    /\ \E p \in op.todo :
          LET q == Dest(p) IN
          IF q \notin Paths \/ (q \in Paths /\ ~IsDir(disk, p) /\ ~IsDir(disk, Parent(q)))
          THEN op' = [op EXCEPT !.todo = @ \ {p}] /\ UNCHANGED disk
          ELSE IF IsDir(disk, p)
          THEN /\ disk' = MakesDirs(q)
               /\ op' = [op EXCEPT !.todo = (@ \ {p}) \cup Children(disk', p)]
          ELSE /\ disk' = [disk EXCEPT ![q] = disk[p]]
               /\ op' = [op EXCEPT !.todo = @ \ {p}]
    /\ UNCHANGED <<before, audit>>

\* copy_dir_recursive creates the copy of a directory and then lists the
\* directory; a path can be too long.
Copies ==
    /\ op.pc = "copying"
    /\ \E p \in op.todo :
          LET q == Dest(p) IN
          IF q \notin Paths THEN Go("failed") /\ UNCHANGED disk
          ELSE IF IsDir(disk, p)
          THEN /\ disk' = MakesDirs(q)
               /\ op' = IF IsDir(disk', q)
                        THEN [op EXCEPT !.todo = (@ \ {p}) \cup Children(disk', p)]
                        ELSE [op EXCEPT !.pc = "failed"]
          ELSE IF IsDir(disk, Parent(q)) /\ ~IsDir(disk, q)
          THEN /\ disk' = [disk EXCEPT ![q] = disk[p]]
               /\ op' = [op EXCEPT !.todo = @ \ {p}]
          ELSE Go("failed") /\ UNCHANGED disk
    /\ UNCHANGED <<before, audit>>

Copied ==
    /\ op.pc = "copying" /\ op.todo = {}
    /\ Go(IF op.kind = "move" THEN "removing" ELSE "ok")
    /\ UNCHANGED <<disk, before, audit>>

\* fs::write truncates, then writes; append adds to what is there.
Truncates ==
    /\ op.pc = "truncating"
    /\ LET made == IF Len(op.src) > 1 THEN MakesDirs(Parent(op.src)) ELSE disk IN
       IF ~IsDir(made, Parent(op.src)) \/ IsDir(made, op.src)
       THEN Go("failed") /\ disk' = made
       ELSE Go("writing") /\ disk' = [made EXCEPT ![op.src] = File(<<>>)]
    /\ UNCHANGED <<before, audit>>

Writes ==
    /\ op.pc = "writing"
    /\ disk' = [disk EXCEPT ![op.src] = File(op.src)]
    /\ Go("ok")
    /\ UNCHANGED <<before, audit>>

\* Mutant: only a request that succeeded is answered.
AuditedSuccess ==
    /\ op.pc = "ok"
    /\ audit' = "success"
    /\ Go("answered")
    /\ UNCHANGED <<disk, before>>

\* A mutation is recorded, then answered with its result.
Audited ==
    /\ op.pc \in {"ok", "failed"}
    /\ audit' = IF op.pc = "ok" THEN "success"
                ELSE IF {op.src, op.dst} \cap Denied # {} \/ op.kind = "unknown" THEN "denied"
                ELSE "failed"
    /\ Go("answered")
    /\ UNCHANGED <<disk, before>>

\* The disk is full, permission is missing, or the host goes down.
Breaks ==
    /\ op.pc \notin {"idle", "answered", "broken"}
    /\ Go("broken")
    /\ UNCHANGED <<disk, before, audit>>

Step ==
    \/ Made \/ Cleared \/ Removed \/ Renames \/ Reads \/ Copies \/ Copied
    \/ Truncates \/ Writes \/ Audited

Next ==
    \/ \E p \in Paths :
          \/ Mkdir(p) \/ DeletePath(p) \/ Query(p) \/ DownloadFile(p) \/ UnknownAction(p)
          \/ \E valid \in BOOLEAN : WriteFile(p, valid)
          \/ \E q \in Paths :
                \/ RenamePath(p, q)
                \/ \E o \in BOOLEAN : CopyPath(p, q, o) \/ MovePath(p, q, o)
    \/ Step \/ Breaks

\* spawn_blocking runs the request to its end.
Fairness == WF_vars(Step)

Spec == Init /\ [][Next]_vars /\ Fairness

-----------------------------------------------------------------------------
(* Properties                                                              *)

Apart == ~Within(op.src, op.dst) /\ ~Within(op.dst, op.src)

\* Between any two system calls, and whichever of them fails, every file of
\* the source of a copy is at its place, and every file of the source of a
\* move is there or at the destination; a request that succeeds has put all of
\* them at the destination (files.rs 1264-1461).  Source and destination do
\* not contain one another.
SourceKept ==
    (op.kind \in {"copy", "move", "rename"} /\ Apart) =>
        \A p \in Tree(before, op.src) :
            /\ IsFile(before, p) =>
                  \/ disk[p] = before[p]
                  \/ op.kind # "copy" /\ Dest(p) \in Paths /\ disk[Dest(p)] = before[p]
            /\ op.pc = "ok" \/ audit = "success" => Dest(p) \in Paths /\ disk[Dest(p)] = before[p]

\* A request changes nothing but its source, its destination and the missing
\* directories above it, and leaves a destination that it was not told to
\* replace as it was (files.rs 1213-1507).
OnlyTargets ==
    \A p \in Paths :
        \/ disk[p] = before[p]
        \/ Within(p, op.dst) /\ (op.kind \in {"copy", "move"} /\ ~op.over => before[op.dst] = None)
        \/ op.kind \in {"move", "rename"} /\ Within(p, op.src)
        \/ before[p] = None /\ disk[p] = Dir /\ Within(op.dst, p)

\* A request comes to its end, also the copy of a directory into itself, which
\* lists what it has just made until a path is too long (files.rs 1313-1378).
RequestsEnd == op.pc # "idle" ~> op.pc \in {"answered", "broken"}

=============================================================================
