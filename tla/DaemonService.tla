--------------------------- MODULE DaemonService ---------------------------
(***************************************************************************)
(* Starting, stopping and restarting the daemon: run_foreground up to its  *)
(* loop and its shutdown arm (daemon.rs), the pid lock (daemon/runtime.rs),*)
(* daemon start, stop and restart of the CLI (main.rs) and the service     *)
(* manager under them (service.rs), on Linux.                              *)
(*                                                                         *)
(* The pid file is a name (path) and inodes: a daemon locks the inode it   *)
(* opened, so a lock says nothing about a file created under the name      *)
(* later.  A process gets SIGTERM's default action until it first connects *)
(* to the control plane; from then on the signal is caught, but only the   *)
(* loop of a connected daemon listens.                                     *)
(***************************************************************************)
EXTENDS Naturals, FiniteSets

CONSTANTS
    Pids,       \* bound: processes, each a daemon run once
    InodeMax,   \* bound: pid files created
    Hosts,      \* which hosts are looked at: TRUE, with a service manager; FALSE
    Crashes,    \* bound: daemons that die
    Disorder    \* what may happen besides crashes.  "overlap": commands and starts
                \* while another command is under way or a daemon is starting or
                \* ending; "offline": commands to a daemon without a connection;
                \* "slow": a shutdown longer than the command waits for it

ServiceAssumption ==
    /\ Pids \subseteq Nat \ {0} /\ IsFiniteSet(Pids)
    /\ InodeMax \in Nat /\ Crashes \in Nat
    /\ Hosts \subseteq BOOLEAN /\ Disorder \subseteq {"overlap", "offline", "slow"}

VARIABLES
    systemd,    \* this host has a service manager
    proc,       \* per process: where it is, the inode it opened, its connection
    path,       \* the inode under the pid file's name, 0: no file
    made,       \* pid files created so far
    pidOf,      \* the pid written in each inode, 0: none
    lock,       \* the process that holds each inode's lock, 0: none
    sock,       \* the daemon behind the local-attach socket's name
    unit,       \* the unit is installed and enabled
    sup,        \* the instance the service manager runs
    cli,        \* the operator's command
    crashes

vars == <<systemd, proc, path, made, pidOf, lock, sock, unit, sup, cli, crashes>>

Inodes == 1..InodeMax

Starting == {"boot", "opened", "locked"}

Ending == {"closing", "dropping", "unlinked", "leaving", "exiting"}

Idle == [op |-> "idle", pid |-> 0, again |-> FALSE]

TypeOK ==
    /\ systemd \in Hosts
    /\ proc \in [Pids -> [pc : {"free", "serving", "gone"} \cup Starting \cup Ending,
                          ino : 0..InodeMax, child : Pids \cup {0}, link : BOOLEAN, caught : BOOLEAN]]
    /\ path \in 0..InodeMax /\ made \in 0..InodeMax
    /\ pidOf \in [Inodes -> Pids \cup {0}] /\ lock \in [Inodes -> Pids \cup {0}]
    /\ sock \in Pids \cup {0} /\ sup \in Pids \cup {0}
    /\ unit \in BOOLEAN
    /\ cli \in [op : {"idle", "write", "stop", "wait"}, pid : Pids \cup {0}, again : BOOLEAN]
    /\ crashes \in 0..Crashes

Init ==
    /\ systemd \in Hosts
    /\ proc = [p \in Pids |-> [pc |-> "free", ino |-> 0, child |-> 0, link |-> FALSE, caught |-> FALSE]]
    /\ path = 0 /\ made = 0
    /\ pidOf = [i \in Inodes |-> 0] /\ lock = [i \in Inodes |-> 0]
    /\ sock = 0 /\ unit = FALSE /\ sup = 0
    /\ cli = Idle /\ crashes = 0

Is(p, pc) == proc[p].pc = pc

Live(p) == p \in Pids /\ proc[p].pc \notin {"free", "gone"}

Overlap == "overlap" \in Disorder

(* No daemon is starting or ending. *)
Quiet == \A p \in Pids : proc[p].pc \in {"free", "serving", "gone"}

(* A daemon that catches SIGTERM also listens for it. *)
Listening == \A p \in Pids :
    (Is(p, "serving") /\ proc[p].caught) => (proc[p].link \/ "offline" \in Disorder)

(* A command may be given, a daemon started. *)
Command == cli = Idle /\ Listening /\ (Quiet \/ Overlap)

Free(p) == Is(p, "free") /\ (Overlap \/ (Quiet /\ cli = Idle))

(* pid_running(read_pid(pid_file)). *)
Named == IF path = 0 THEN 0 ELSE pidOf[path]

ServiceRuns == unit /\ Live(sup)

(* The process is gone: the kernel closes its files and frees its locks. *)
Freed(p) == [i \in Inodes |-> IF lock[i] = p THEN 0 ELSE lock[i]]

-----------------------------------------------------------------------------
(* daemon run by hand. *)
RunByHand(p) ==
    /\ Free(p)
    /\ proc' = [proc EXCEPT ![p].pc = "boot"]
    /\ UNCHANGED <<systemd, path, made, pidOf, lock, sock, unit, sup, cli, crashes>>

(* The service manager: at the start of the unit and, with Restart=always, *)
(* whenever its instance has ended.                                        *)
Supervise(p) ==
    /\ unit /\ ~Live(sup) /\ Free(p)
    /\ sup' = p
    /\ proc' = [proc EXCEPT ![p].pc = "boot"]
    /\ UNCHANGED <<systemd, path, made, pidOf, lock, sock, unit, cli, crashes>>

(* Root, an old version, nobody logged in: an early return, with no lock. *)
BootFails(p) ==
    /\ Is(p, "boot")
    /\ proc' = [proc EXCEPT ![p].pc = "gone"]
    /\ UNCHANGED <<systemd, path, made, pidOf, lock, sock, unit, sup, cli, crashes>>

(* acquire_daemon_pid_lock opens the file, creating it if the name is free ... *)
OpenPid(p) ==
    /\ Is(p, "boot") /\ (path = 0 => made < InodeMax)
    /\ made' = IF path = 0 THEN made + 1 ELSE made
    /\ path' = IF path = 0 THEN made + 1 ELSE path
    /\ proc' = [proc EXCEPT ![p].pc = "opened", ![p].ino = path']
    /\ UNCHANGED <<systemd, pidOf, lock, sock, unit, sup, cli, crashes>>

\* Mutant: the lock of another process is overlooked.
LockPidAny(p) ==
    /\ Is(p, "opened")
    /\ lock' = [lock EXCEPT ![proc[p].ino] = p]
    /\ pidOf' = [pidOf EXCEPT ![proc[p].ino] = p]
    /\ proc' = [proc EXCEPT ![p].pc = "locked"]
    /\ UNCHANGED <<systemd, path, made, sock, unit, sup, cli, crashes>>

(* ... locks what it opened and stamps it ... *)
LockPid(p) ==
    /\ Is(p, "opened") /\ lock[proc[p].ino] = 0
    /\ lock' = [lock EXCEPT ![proc[p].ino] = p]
    /\ pidOf' = [pidOf EXCEPT ![proc[p].ino] = p]
    /\ proc' = [proc EXCEPT ![p].pc = "locked"]
    /\ UNCHANGED <<systemd, path, made, sock, unit, sup, cli, crashes>>

(* ... or gives up: another daemon is running. *)
LockRefused(p) ==
    /\ Is(p, "opened") /\ lock[proc[p].ino] # 0
    /\ proc' = [proc EXCEPT ![p].pc = "gone"]
    /\ UNCHANGED <<systemd, path, made, pidOf, lock, sock, unit, sup, cli, crashes>>

(* The stale socket is removed and a new one bound. *)
Bind(p) ==
    /\ Is(p, "locked")
    /\ sock' = p
    /\ proc' = [proc EXCEPT ![p].pc = "serving"]
    /\ UNCHANGED <<systemd, path, made, pidOf, lock, unit, sup, cli, crashes>>

(* Connected: the loop's shutdown future registers the handler. *)
Connect(p) ==
    /\ Is(p, "serving") /\ ~proc[p].link
    /\ proc' = [proc EXCEPT ![p].link = TRUE, ![p].caught = TRUE]
    /\ UNCHANGED <<systemd, path, made, pidOf, lock, sock, unit, sup, cli, crashes>>

(* Disconnected: back-off, refresh and connect run outside the loop; the   *)
(* handler stays.                                                          *)
Disconnect(p) ==
    /\ Is(p, "serving") /\ proc[p].link
    /\ Overlap \/ cli = Idle
    /\ proc' = [proc EXCEPT ![p].link = FALSE]
    /\ UNCHANGED <<systemd, path, made, pidOf, lock, sock, unit, sup, cli, crashes>>

(* What SIGTERM does to a process. *)
Dies(p) == proc[p].pc \in Starting \/ (Is(p, "serving") /\ ~proc[p].caught)

Signalled(p) ==
    /\ lock' = IF Dies(p) THEN Freed(p) ELSE lock
    /\ proc' = IF Dies(p) THEN [proc EXCEPT ![p].pc = "gone"]
               ELSE IF Is(p, "serving") /\ proc[p].link THEN [proc EXCEPT ![p].pc = "closing"]
               ELSE proc

(* The shutdown arm: sessions closed, host marked offline, socket removed. *)
CloseAll(p) ==
    /\ Is(p, "closing")
    /\ sock' = 0
    /\ proc' = [proc EXCEPT ![p].pc = "dropping"]
    /\ UNCHANGED <<systemd, path, made, pidOf, lock, unit, sup, cli, crashes>>

(* DaemonPidLock::drop removes the name ... *)
DropUnlinks(p) ==
    /\ Is(p, "dropping")
    /\ path' = 0
    /\ proc' = [proc EXCEPT ![p].pc = "unlinked"]
    /\ UNCHANGED <<systemd, made, pidOf, lock, sock, unit, sup, cli, crashes>>

(* ... and then its file is closed. *)
DropCloses(p) ==
    /\ Is(p, "unlinked")
    /\ lock' = Freed(p)
    /\ proc' = [proc EXCEPT ![p].pc = "gone"]
    /\ UNCHANGED <<systemd, path, made, pidOf, sock, unit, sup, cli, crashes>>

(* Killed, by the system or by a panic. *)
Crash(p) ==
    /\ Live(p) /\ crashes < Crashes
    /\ crashes' = crashes + 1
    /\ lock' = Freed(p)
    /\ proc' = [proc EXCEPT ![p].pc = "gone"]
    /\ UNCHANGED <<systemd, path, made, pidOf, sock, unit, sup, cli>>

-----------------------------------------------------------------------------
(* host_restart_agent under a unit: systemctl restart stops us, if we are  *)
(* its instance; otherwise we exit when it returns.                        *)
PhoneRestartUnit(p) ==
    /\ Is(p, "serving") /\ proc[p].link /\ unit
    /\ Overlap \/ Command
    /\ IF p = sup THEN Signalled(p)
       ELSE proc' = [proc EXCEPT ![p].pc = "exiting"] /\ lock' = lock
    /\ UNCHANGED <<systemd, path, made, pidOf, sock, unit, sup, cli, crashes>>

(* Without one: start_daemon_process spawns a replacement ... *)
PhoneRestartSpawns(p, q) ==
    /\ Is(p, "serving") /\ proc[p].link /\ ~systemd
    /\ Free(q) /\ (Overlap \/ Command)
    /\ proc' = [proc EXCEPT ![p].pc = "leaving", ![p].child = q, ![q].pc = "boot"]
    /\ UNCHANGED <<systemd, path, made, pidOf, lock, sock, unit, sup, cli, crashes>>

(* ... writes its pid over the file's content ... *)
WritesPid(q) ==
    LET i == IF path = 0 THEN made + 1 ELSE path IN
    /\ i \in Inodes
    /\ path' = i
    /\ made' = IF path = 0 THEN made + 1 ELSE made
    /\ pidOf' = [pidOf EXCEPT ![i] = q]

PhoneRestartWrites(p) ==
    /\ Is(p, "leaving")
    /\ WritesPid(proc[p].child)
    /\ proc' = [proc EXCEPT ![p].pc = "exiting"]
    /\ UNCHANGED <<systemd, lock, sock, unit, sup, cli, crashes>>

(* ... and exits, running no destructor. *)
PhoneRestartExits(p) ==
    /\ Is(p, "exiting")
    /\ lock' = Freed(p)
    /\ proc' = [proc EXCEPT ![p].pc = "gone"]
    /\ UNCHANGED <<systemd, path, made, pidOf, sock, unit, sup, cli, crashes>>

-----------------------------------------------------------------------------
(* The second half of daemon restart: what it found and stopped is gone,   *)
(* with the name; it starts the next.                                      *)
Again == cli.op = "idle" /\ cli.again

(* daemon start: nothing to do if the service or the named pid runs.       *)
NothingRuns == ~ServiceRuns /\ ~Live(Named)

(* install_and_start with a service manager: the unit is written, enabled  *)
(* and started.                                                            *)
StartInstalls ==
    /\ systemd
    /\ (Command /\ NothingRuns) \/ (Again /\ ~unit)
    /\ unit' = TRUE
    /\ cli' = Idle
    /\ UNCHANGED <<systemd, proc, path, made, pidOf, lock, sock, sup, crashes>>

(* ... without one: a detached process, whose pid is then written. *)
StartSpawns(q) ==
    /\ ~systemd /\ NothingRuns
    /\ Command \/ Again
    /\ Is(q, "free")
    /\ proc' = [proc EXCEPT ![q].pc = "boot"]
    /\ cli' = [op |-> "write", pid |-> q, again |-> FALSE]
    /\ UNCHANGED <<systemd, path, made, pidOf, lock, sock, unit, sup, crashes>>

StartWrites ==
    /\ cli.op = "write"
    /\ WritesPid(cli.pid)
    /\ cli' = Idle
    /\ UNCHANGED <<systemd, proc, lock, sock, unit, sup, crashes>>

(* daemon stop of a running service uninstalls it: the unit is stopped,    *)
(* disabled and removed.                                                   *)
StopService ==
    /\ Command /\ ServiceRuns
    /\ Signalled(sup)
    /\ unit' = FALSE
    /\ cli' = [op |-> "stop", pid |-> sup, again |-> FALSE]
    /\ UNCHANGED <<systemd, path, made, pidOf, sock, sup, crashes>>

(* systemctl stop returns when the instance has ended (after a while it is *)
(* killed); then the pid file is looked at.                                *)
StopServiceKills ==
    /\ cli.op = "stop" /\ Live(cli.pid)
    /\ lock' = Freed(cli.pid)
    /\ proc' = [proc EXCEPT ![cli.pid].pc = "gone"]
    /\ UNCHANGED <<systemd, path, made, pidOf, sock, unit, sup, cli, crashes>>

(* daemon stop, and the first half of daemon restart: SIGTERM to the named *)
(* process, if it is alive and no service is; the name is removed in the   *)
(* end either way.                                                         *)
StopSignals(again) ==
    /\ Command \/ (cli.op = "stop" /\ ~Live(cli.pid))
    /\ ~ServiceRuns
    /\ again => Command
    /\ IF Live(Named)
       THEN /\ Signalled(Named)
            /\ cli' = [op |-> "wait", pid |-> Named, again |-> again]
            /\ UNCHANGED path
       ELSE /\ path' = IF again THEN path ELSE 0
            /\ cli' = [Idle EXCEPT !.again = again]
            /\ UNCHANGED <<systemd, proc, lock>>
    /\ UNCHANGED <<systemd, made, pidOf, sock, unit, sup, crashes>>

(* The process has ended, or two (five) seconds are over. *)
StopEnds ==
    /\ cli.op = "wait"
    /\ ~Live(cli.pid) \/ Is(cli.pid, "serving") \/ "slow" \in Disorder
    /\ path' = 0
    /\ cli' = [Idle EXCEPT !.again = cli.again]
    /\ UNCHANGED <<systemd, proc, made, pidOf, lock, sock, unit, sup, crashes>>

(* daemon restart with a unit installed: its instance, if it runs, is      *)
(* stopped; the service manager starts the next.                           *)
RestartService ==
    /\ (Command /\ ServiceRuns) \/ (Again /\ unit)
    /\ IF Live(sup) THEN Signalled(sup) ELSE UNCHANGED <<proc, lock>>
    /\ cli' = Idle
    /\ UNCHANGED <<systemd, path, made, pidOf, sock, unit, sup, crashes>>

Daemon(p) ==
    \/ BootFails(p) \/ OpenPid(p) \/ LockPid(p) \/ LockRefused(p) \/ Bind(p)
    \/ Connect(p) \/ Disconnect(p) \/ CloseAll(p) \/ DropUnlinks(p) \/ DropCloses(p)
    \/ Crash(p) \/ PhoneRestartUnit(p)
    \/ PhoneRestartWrites(p) \/ PhoneRestartExits(p)
    \/ \E q \in Pids : PhoneRestartSpawns(p, q)

Next ==
    \/ \E p \in Pids : RunByHand(p) \/ Supervise(p) \/ Daemon(p) \/ StartSpawns(p)
    \/ StartInstalls \/ StartWrites
    \/ StopService \/ StopServiceKills \/ StopEnds \/ RestartService
    \/ \E again \in BOOLEAN : StopSignals(again)

Spec == Init /\ [][Next]_vars

-----------------------------------------------------------------------------
(* "pid_lock above ensures we're the sole owner" (daemon.rs:404): two      *)
(* daemons never serve at once.                                            *)
OneServing == Cardinality({p \in Pids : Is(p, "serving")}) <= 1

(* The daemon that serves is the one the pid file names, through crashes   *)
(* and restarts from the phone, and the socket's name is its own: daemon   *)
(* stop and the local client reach it.                                     *)
ServingReachable ==
    /\ OneServing
    /\ \A p \in Pids : Is(p, "serving") =>
          (proc[p].ino = path /\ sock = p /\ (cli.op # "write" => Named = p))
=============================================================================
