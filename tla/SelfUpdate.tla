---------------------------- MODULE SelfUpdate ----------------------------
(***************************************************************************)
(* Self-update (update.rs, daemon/runtime.rs, main.rs update_cmd and the   *)
(* restart of service.rs) on Linux, where a running process is named by    *)
(* its inode: current_exe() answers the path the inode has NOW.            *)
(*                                                                         *)
(* The install directory is the chain of names pocketshell (0),            *)
(* pocketshell.old (1), pocketshell.old.old (2), ...; disk says which      *)
(* binary each holds.  An installer is a task: several may be asked of the *)
(* daemon over the stats and the control channel (one flag admits one at a *)
(* time), and the CLI runs one in a process of its own.                    *)
(***************************************************************************)
EXTENDS Naturals

CONSTANTS
    Tasks,      \* the daemon's update tasks
    Releases,   \* bound: versions published, 1 is the one first installed
    Installs,   \* bound: updates begun; each adds at most one .old to the chain
    Faults,     \* bound: failing steps, crashes
    Hosts,      \* "supervised": the unit is installed; "systemd": it is not yet;
                \* "bare": there is no service manager (OpenRC, a container)
    Overlap     \* the operator may run the CLI's update while the daemon updates

CLI == "cli"

UpdateAssumption ==
    /\ CLI \notin Tasks /\ Tasks # {}
    /\ Releases \in Nat \ {0}
    /\ Installs \in Nat /\ Faults \in Nat
    /\ Hosts \subseteq {"supervised", "systemd", "bare"} /\ Overlap \in BOOLEAN

VARIABLES
    host,       \* which kind of host this is
    disk,       \* the binary under each name: an inode [v, id], or None
    latest,     \* the version /releases/latest redirects to
    task,       \* per installer: where it is, its target version and path
    cli,        \* the inode the CLI process executes
    daemon,     \* the inode the daemon executes, or None: it is down
    flag,       \* UPDATE_IN_FLIGHT
    unit,       \* the name ExecStart holds, or NoUnit
    installed,  \* the newest version an installer reported as installed
    made,       \* updates begun so far
    faults

vars == <<host, disk, latest, task, cli, daemon, flag, unit, installed, made, faults>>

Installers == Tasks \cup {CLI}

Names == 0..Installs

Inodes == [v : 1..Releases, id : 0..Installs]

None == [v |-> 0, id |-> 0]

NoUnit == Installs + 1

(* An ExecStart that names a deleted file. *)
DeadUnit == Installs + 2

Idle == [pc |-> "idle", want |-> 0, path |-> 0, new |-> None]

TypeOK ==
    /\ host \in Hosts
    /\ disk \in [Names -> Inodes \cup {None}]
    /\ latest \in 1..Releases
    /\ task \in [Installers ->
          [pc : {"idle", "check", "download", "stage", "unlink", "backup", "swap", "chmod", "restart"},
           want : 0..Releases, path : Names, new : [v : 0..Releases, id : 0..Installs]]]
    /\ cli \in Inodes \cup {None} /\ daemon \in Inodes \cup {None}
    /\ flag \in BOOLEAN
    /\ unit \in Names \cup {NoUnit, DeadUnit}
    /\ installed \in 0..Releases
    /\ made \in 0..Installs /\ faults \in 0..Faults

First == [v |-> 1, id |-> 0]

Init ==
    /\ host \in Hosts
    /\ disk = [n \in Names |-> IF n = 0 THEN First ELSE None]
    /\ latest = 1
    /\ task = [p \in Installers |-> Idle]
    /\ cli = None /\ daemon = First
    /\ flag = FALSE
    /\ unit = IF host = "supervised" THEN 0 ELSE NoUnit
    /\ installed = 0 /\ made = 0 /\ faults = 0

(* A release is published upstream. *)
Publish ==
    /\ latest < Releases
    /\ latest' = latest + 1
    /\ UNCHANGED <<host, disk, task, cli, daemon, flag, unit, installed, made, faults>>

Image(p) == IF p = CLI THEN cli ELSE daemon

(* current_exe(): the names the process's inode has; none: it was deleted. *)
Paths(inode) == {n \in Names : disk[n] = inode}

Busy(p) == task[p].pc # "idle"

At(p, pc) == task[p].pc = pc

Goes(p, pc) == task' = [task EXCEPT ![p].pc = pc]

Begins(p) ==
    /\ made < Installs
    /\ made' = made + 1
    /\ task' = [task EXCEPT ![p].pc = "check", ![p].new.id = made + 1]

\* Mutant: a second update may begin.
RequestUnguarded(p) ==
    /\ p # CLI /\ daemon # None /\ ~Busy(p)
    /\ Overlap \/ ~Busy(CLI)
    /\ flag' = TRUE
    /\ Begins(p)
    /\ UNCHANGED <<host, disk, latest, cli, daemon, unit, installed, faults>>

(* try_spawn_self_update: the flag is taken or the request is refused. *)
Request(p) ==
    /\ p # CLI /\ daemon # None /\ ~Busy(p)
    /\ Overlap \/ ~Busy(CLI)
    /\ ~flag
    /\ flag' = TRUE
    /\ Begins(p)
    /\ UNCHANGED <<host, disk, latest, cli, daemon, unit, installed, faults>>

(* pocketshell update: a process of its own, which knows no flag. *)
CliUpdate ==
    /\ ~Busy(CLI) /\ disk[0] # None
    /\ Overlap \/ \A p \in Tasks : ~Busy(p)
    /\ cli' = disk[0]
    /\ Begins(CLI)
    /\ UNCHANGED <<host, disk, latest, daemon, flag, unit, installed, faults>>

(* The task is over without a restart: the guard is released, so is the    *)
(* staging directory; the CLI's process ends.                              *)
Over(p) ==
    /\ task' = [task EXCEPT ![p] = Idle]
    /\ flag' = IF p = CLI THEN flag ELSE FALSE
    /\ cli' = IF p = CLI THEN None ELSE cli

(* check: the latest tag, compared with the version this process is.       *)
(* --force reinstalls the same one.                                        *)
Check(p) ==
    /\ At(p, "check")
    /\ latest # Image(p).v \/ p = CLI
    /\ task' = [task EXCEPT ![p].pc = "download", ![p].want = latest]
    /\ UNCHANGED <<host, disk, latest, cli, daemon, flag, unit, installed, made, faults>>

UpToDate(p) ==
    /\ At(p, "check") /\ latest = Image(p).v
    /\ Over(p)
    /\ UNCHANGED <<host, disk, latest, daemon, unit, installed, made, faults>>

(* The archive and its checksum are there and agree; then the path to      *)
(* replace is resolved, canonicalised and kept.                            *)
Download(p) ==
    /\ At(p, "download")
    /\ \E n \in Paths(Image(p)) :
          task' = [task EXCEPT ![p].pc = "stage", ![p].path = n]
    /\ UNCHANGED <<host, disk, latest, cli, daemon, flag, unit, installed, made, faults>>

(* The running binary has no name any more: canonicalize fails. *)
Nameless(p) ==
    /\ At(p, "download") /\ Paths(Image(p)) = {}
    /\ Over(p)
    /\ UNCHANGED <<host, disk, latest, daemon, unit, installed, made, faults>>

(* Cosign where it is installed and not skipped, tar, codesign: a whole    *)
(* binary of the wanted version in the staging directory.                  *)
Stage(p) ==
    /\ At(p, "stage")
    /\ task' = [task EXCEPT ![p].pc = "unlink", ![p].new.v = task[p].want]
    /\ UNCHANGED <<host, disk, latest, cli, daemon, flag, unit, installed, made, faults>>

(* The lookup, a download, the checksum or the verification fails. *)
StepFails(p) ==
    /\ task[p].pc \in {"check", "download", "stage"}
    /\ faults < Faults
    /\ faults' = faults + 1
    /\ Over(p)
    /\ UNCHANGED <<host, disk, latest, daemon, unit, installed, made>>

(* remove_file(<exe>.old), its result ignored. *)
Unlink(p) ==
    /\ At(p, "unlink")
    /\ disk' = [disk EXCEPT ![task[p].path + 1] = None]
    /\ Goes(p, "backup")
    /\ UNCHANGED <<host, latest, cli, daemon, flag, unit, installed, made, faults>>

(* rename(<exe>, <exe>.old). *)
Backup(p) ==
    LET n == task[p].path IN
    /\ At(p, "backup") /\ disk[n] # None
    /\ disk' = [disk EXCEPT ![n + 1] = disk[n], ![n] = None]
    /\ Goes(p, "swap")
    /\ UNCHANGED <<host, latest, cli, daemon, flag, unit, installed, made, faults>>

BackupFails(p) ==
    /\ At(p, "backup") /\ disk[task[p].path] = None
    /\ Over(p)
    /\ UNCHANGED <<host, disk, latest, daemon, unit, installed, made, faults>>

(* rename(<staged>, <exe>). *)
Swap(p) ==
    /\ At(p, "swap")
    /\ disk' = [disk EXCEPT ![task[p].path] = task[p].new]
    /\ Goes(p, "chmod")
    /\ UNCHANGED <<host, latest, cli, daemon, flag, unit, installed, made, faults>>

(* It fails: <exe>.old is renamed back, if it is still there. *)
RollBack(n) ==
    IF disk[n + 1] = None THEN disk
    ELSE [disk EXCEPT ![n] = disk[n + 1], ![n + 1] = None]

SwapFails(p) ==
    /\ At(p, "swap") /\ faults < Faults
    /\ faults' = faults + 1
    /\ disk' = RollBack(task[p].path)
    /\ Over(p)
    /\ UNCHANGED <<host, latest, daemon, unit, installed, made>>

(* Permissions: another installer may have moved the binary away again. *)
Chmod(p) ==
    /\ At(p, "chmod") /\ disk[task[p].path] # None
    /\ installed' = IF task[p].want > installed THEN task[p].want ELSE installed
    /\ Goes(p, "restart")
    /\ UNCHANGED <<host, disk, latest, cli, daemon, flag, unit, made, faults>>

ChmodFails(p) ==
    /\ At(p, "chmod") /\ disk[task[p].path] = None
    /\ Over(p)
    /\ UNCHANGED <<host, disk, latest, daemon, unit, installed, made, faults>>

(* The daemon's process is gone, and every update task with it. *)
DaemonGone(p) ==
    /\ task' = [q \in Installers |-> IF q = CLI /\ p # CLI THEN task[CLI] ELSE Idle]
    /\ flag' = FALSE
    /\ cli' = IF p = CLI THEN None ELSE cli

(* The CLI restarts the daemon only if it finds one running. *)
Restarting(p) == At(p, "restart") /\ (p = CLI => daemon # None)

CliFindsNone ==
    /\ At(CLI, "restart") /\ daemon = None
    /\ Over(CLI)
    /\ UNCHANGED <<host, disk, latest, daemon, unit, installed, made, faults>>

(* service::restart with a unit on disk, or exit(1) under Restart=always:  *)
(* the daemon ends; the service manager starts ExecStart.                  *)
RestartUnit(p) ==
    /\ Restarting(p) /\ unit # NoUnit
    /\ DaemonGone(p)
    /\ daemon' = None
    /\ UNCHANGED <<host, disk, latest, unit, installed, made, faults>>

(* No unit yet: install_systemd writes one whose ExecStart is this         *)
(* process's current_exe.                                                  *)
RestartInstalls(p) ==
    /\ Restarting(p) /\ unit = NoUnit /\ host = "systemd"
    /\ \E n \in Paths(Image(p)) : unit' = n
    /\ DaemonGone(p)
    /\ daemon' = None
    /\ UNCHANGED <<host, disk, latest, installed, made, faults>>

(* No service manager: start_daemon_process spawns current_exe, and the    *)
(* daemon that asked exits; the CLI has terminated it before.              *)
RestartSpawns(p) ==
    /\ Restarting(p) /\ unit = NoUnit /\ host = "bare"
    /\ Paths(Image(p)) # {}
    /\ daemon' = Image(p)
    /\ DaemonGone(p)
    /\ UNCHANGED <<host, disk, latest, unit, installed, made, faults>>

(* The running binary was deleted: nothing can be spawned, and a unit      *)
(* written now names no file.                                              *)
RestartFails(p) ==
    /\ Restarting(p) /\ unit = NoUnit /\ Paths(Image(p)) = {}
    /\ unit' = IF host = "systemd" THEN DeadUnit ELSE NoUnit
    /\ daemon' = None
    /\ DaemonGone(p)
    /\ UNCHANGED <<host, disk, latest, installed, made, faults>>

(* The service manager, and Restart=always. *)
Supervise ==
    /\ unit \in Names /\ daemon = None
    /\ disk[unit] # None
    /\ daemon' = disk[unit]
    /\ UNCHANGED <<host, disk, latest, task, cli, flag, unit, installed, made, faults>>

(* The daemon's process, or the CLI's, dies where it is. *)
Crash(p) ==
    /\ p = CLI => Busy(CLI)
    /\ daemon # None \/ p = CLI
    /\ faults < Faults
    /\ faults' = faults + 1
    /\ IF p = CLI
       THEN Over(CLI) /\ daemon' = daemon
       ELSE DaemonGone(p) /\ daemon' = None
    /\ UNCHANGED <<host, disk, latest, unit, installed, made>>

Step(p) ==
    \/ Check(p) \/ UpToDate(p) \/ Download(p) \/ Nameless(p) \/ Stage(p) \/ StepFails(p)
    \/ Unlink(p) \/ Backup(p) \/ BackupFails(p) \/ Swap(p) \/ SwapFails(p)
    \/ Chmod(p) \/ ChmodFails(p)
    \/ RestartUnit(p) \/ RestartInstalls(p) \/ RestartSpawns(p) \/ RestartFails(p)

Next ==
    \/ Publish \/ CliUpdate \/ CliFindsNone \/ Supervise
    \/ \E p \in Installers : Request(p) \/ Step(p) \/ Crash(p)

Spec == Init /\ [][Next]_vars

-----------------------------------------------------------------------------
(* Whatever step an update fails or dies at, some name of the chain still  *)
(* holds a whole binary, "so an admin can roll back manually": the flag    *)
(* keeps a second task from removing the only copy while the first has the *)
(* name empty.  (The first two names are not enough: after a crash between *)
(* the renames the daemon IS pocketshell.old, and updates that path.)      *)
Recoverable == \E n \in Names : disk[n] # None

(* The flag is held only by a task that is still at work and will release  *)
(* it: an update that fails, dies with its task or does not restart the    *)
(* daemon leaves the next request free to run.                             *)
FlagOwned == flag => \E p \in Tasks : Busy(p)

(* On a host with the unit installed, an update that nothing disturbs      *)
(* takes effect: once it is over, a daemon that runs is no older than what *)
(* was installed.  (Without the unit, start_daemon_process and install_    *)
(* systemd name the file that was moved away: the old version runs on.)    *)
TakesEffect ==
    (host = "supervised" /\ faults = 0 /\ daemon # None /\ \A p \in Installers : ~Busy(p))
        => daemon.v >= installed

(* An update leaves a binary to go back to, frees the flag, takes effect.  *)
UpdateSound == Recoverable /\ FlagOwned /\ TakesEffect
=============================================================================
