------------------------------ MODULE StateFile ------------------------------
(***************************************************************************)
(* The state directory that the daemon and the `pocketshell` commands      *)
(* share: state.json (trusted devices, access token) and the secret store  *)
(* (refresh token), store.rs and secret_store.rs; the token refresh under  *)
(* the file lock, auth.rs; the trust sync of the daemon, daemon.rs; the    *)
(* pair and devices-revoke commands, main.rs.                              *)
(*                                                                         *)
(* Every process works on its own copy of the state.  A single file read   *)
(* or rename is one step; between two of them, and between a backend call  *)
(* and what is done with its answer, the other processes run.  A load      *)
(* reads the two files in one step.                                        *)
(***************************************************************************)
EXTENDS Integers, FiniteSets

CONSTANTS
    Daemon,         \* the host daemon
    Clis,           \* runs of the command line tool
    Job,            \* what each run does: "pair" or "revoke"
    Device,         \* the device it pairs or revokes
    Devices,
    InitTrusted,    \* devices paired before
    NoProc,         \* the lock is free
    MaxExpiries,    \* bound: how often access tokens run out
    MaxFaults       \* bound: kills, failed writes and lost answers

Procs == {Daemon} \cup Clis

ASSUME StateFileAssumption ==
    /\ Daemon \notin Clis
    /\ NoProc \notin Procs
    /\ Job \in [Clis -> {"pair", "revoke"}]
    /\ Device \in [Clis -> Devices]
    /\ InitTrusted \subseteq Devices
    /\ MaxExpiries \in Nat
    /\ MaxFaults \in Nat

\* Token pairs are numbered as the backend issues them: pair n is access
\* token n and refresh token n.
Memory == [trusted : SUBSET Devices, access : Nat, refresh : Nat]

VARIABLES
    disk,       \* state.json: trusted devices and access token
    secret,     \* the refresh token in the secret store
    mem,        \* AgentState of each process
    out,        \* what the running load, refresh or save is about to install
    pc,         \* where each process is: see Steps
    goal,       \* what a process does once its write is done
    lock,       \* holder of refresh.lock
    gen,        \* token pairs issued
    expired,    \* access tokens up to this one are about to expire
    burned,     \* refresh tokens the backend has marked used
    approved,   \* devices the backend has approved for this host
    revoked,    \* devices the backend reports as revoked
    list,       \* the answer of list_trusted_devices that the daemon works on
    expiries,
    faults

files == <<disk, secret>>
backend == <<gen, expired, burned, approved, revoked, list>>
bounds == <<expiries, faults>>
vars == <<disk, secret, mem, out, pc, goal, lock, gen, expired, burned,
          approved, revoked, list, expiries, faults>>

\* "off":    not running; "gone": a command that is over, or a daemon that has
\*           uninstalled its service
\* "idle":   the state is loaded, nothing is under way
\* "ready":  a pair command with a usable token waits for the scan
\* "locked", "loaded": inside safe_refresh_if_needed
\* "fetched": new tokens are in memory only
\* "put", "rename": inside save or save_full
\* "retry":  the outer loop of the daemon sleeps after a failed refresh
\* "listed": the trust sync of the daemon has its answer
\* "stopping": the daemon was told to stop
\* "closing": an abandoned daemon closes its sessions
\* "revoking": the backend has revoked the device of a revoke command
\* "restart": a pair command is about to restart the daemon
Steps == {"off", "gone", "idle", "ready", "locked", "loaded", "fetched", "put",
          "rename", "retry", "listed", "stopping", "closing", "revoking", "restart"}

Goals == {"idle", "adopt", "stop", "tick", "abandon", "leave", "pair", "revoke"}

Lists == [approved : SUBSET Devices, revoked : SUBSET Devices]

TypeOK ==
    /\ disk \in [trusted : SUBSET Devices, access : Nat]
    /\ secret \in Nat
    /\ mem \in [Procs -> Memory]
    /\ out \in [Procs -> Memory]
    /\ pc \in [Procs -> Steps]
    /\ goal \in [Procs -> Goals]
    /\ lock \in Procs \cup {NoProc}
    /\ gen \in Nat /\ expired \in 0 .. gen
    /\ burned \subseteq Nat
    /\ approved \subseteq Devices /\ revoked \subseteq Devices
    /\ list \in Lists
    /\ expiries \in 0 .. MaxExpiries /\ faults \in 0 .. MaxFaults

\* StateStore::load
Load == [trusted |-> disk.trusted, access |-> disk.access, refresh |-> secret]

\* A process that is not running, or a buffer that is not in use.
Nothing == [trusted |-> {}, access |-> 0, refresh |-> 0]

NoList == [approved |-> {}, revoked |-> {}]

\* The host is paired and the daemon has just loaded its state.
Init ==
    /\ disk = [trusted |-> InitTrusted, access |-> 1]
    /\ secret = 1
    /\ mem = [p \in Procs |-> IF p = Daemon THEN Load ELSE Nothing]
    /\ out = [p \in Procs |-> Nothing]
    /\ pc = [p \in Procs |-> IF p = Daemon THEN "idle" ELSE "off"]
    /\ goal = [p \in Procs |-> "idle"]
    /\ lock = NoProc
    /\ gen = 1 /\ expired = 0 /\ burned = {}
    /\ approved = InitTrusted /\ revoked = {} /\ list = NoList
    /\ expiries = 0 /\ faults = 0

-----------------------------------------------------------------------------
(* save and save_full                                                      *)

Go(p, step) == pc' = [pc EXCEPT ![p] = step]

\* The first half of save: the copy to write takes its trust fields from disk.
SaveOf(p, m) == [m EXCEPT !.trusted = disk.trusted]

\* Process p starts to write m, then goes on with g.
Writes(p, m, g) ==
    /\ out' = [out EXCEPT ![p] = m]
    /\ goal' = [goal EXCEPT ![p] = g]
    /\ Go(p, "put")

\* Mutant of Put: the state file is renamed first, the secret follows.
PutAfterRename(p) ==
    /\ pc[p] = "put"
    /\ disk' = [trusted |-> out[p].trusted, access |-> out[p].access]
    /\ Go(p, "rename")
    /\ UNCHANGED <<secret, mem, out, goal, lock, backend, bounds>>

\* persist_secrets_and_redact: the refresh token leaves the snapshot.
Put(p) ==
    /\ pc[p] = "put"
    /\ secret' = out[p].refresh
    /\ Go(p, "rename")
    /\ UNCHANGED <<disk, mem, out, goal, lock, backend, bounds>>

\* Where the process is after its write; pair goes on to restart the daemon.
After(p) ==
    CASE goal[p] \in {"idle", "tick"} -> "idle"
      [] goal[p] = "adopt" -> IF p = Daemon THEN "idle" ELSE "ready"
      [] goal[p] = "stop" -> "off"
      [] goal[p] = "abandon" -> "closing"
      [] goal[p] \in {"leave", "revoke"} -> "gone"
      [] OTHER -> "restart"

\* Process p ends an operation with m in memory.  Leaving
\* safe_refresh_if_needed, or dying, drops the file lock.
Leave(p, m, step) ==
    /\ Go(p, step)
    /\ mem' = [mem EXCEPT ![p] = IF step \in {"off", "gone"} THEN Nothing ELSE m]
    /\ out' = [out EXCEPT ![p] = Nothing]
    /\ goal' = [goal EXCEPT ![p] = "idle"]
    /\ lock' = IF lock = p THEN NoProc ELSE lock

\* atomic_write of state.json.  A refresh then replaces the copy in memory.
Rename(p) ==
    /\ pc[p] = "rename"
    /\ disk' = [trusted |-> out[p].trusted, access |-> out[p].access]
    /\ Leave(p, IF goal[p] = "adopt" THEN out[p] ELSE mem[p], After(p))
    /\ UNCHANGED <<secret, backend, bounds>>

\* Most saves of the daemon ignore an error, some return it and end the process.
AfterError(p) ==
    IF p # Daemon THEN {"gone"}
    ELSE CASE goal[p] = "idle" -> {"idle", "off"}
           [] goal[p] = "tick" -> {"idle"}
           [] goal[p] = "adopt" -> {"idle", "retry"}
           [] goal[p] = "stop" -> {"off"}
           [] goal[p] = "abandon" -> {"closing"}
           [] OTHER -> {"gone"}

\* One of the two writes fails: the error ends the operation.
WriteFails(p) ==
    /\ pc[p] \in {"put", "rename"}
    /\ faults < MaxFaults
    /\ faults' = faults + 1
    /\ \E step \in AfterError(p) : Leave(p, mem[p], step)
    /\ UNCHANGED <<files, backend, expiries>>

\* An incidental save of the daemon: sessions, alerts, the heartbeat.
DaemonSave ==
    /\ pc[Daemon] = "idle"
    /\ Writes(Daemon, SaveOf(Daemon, mem[Daemon]), "idle")
    /\ UNCHANGED <<files, mem, lock, backend, bounds>>

-----------------------------------------------------------------------------
(* safe_refresh_if_needed                                                  *)

Expiring(token) == token <= expired

\* revoke uses the token it finds.
Refreshers == {Daemon} \cup {c \in Clis : Job[c] = "pair"}

\* Mutant of RefreshStart: no lock is taken.
RefreshStartUnlocked(p) ==
    /\ pc[p] = "idle"
    /\ p \in Refreshers
    /\ Expiring(mem[p].access)
    /\ Go(p, "locked")
    /\ UNCHANGED <<files, mem, out, goal, lock, backend, bounds>>

\* The access token is about to expire: wait for the lock.
RefreshStart(p) ==
    /\ pc[p] = "idle"
    /\ p \in Refreshers
    /\ Expiring(mem[p].access)
    /\ lock = NoProc
    /\ lock' = p
    /\ Go(p, "locked")
    /\ UNCHANGED <<files, mem, out, goal, backend, bounds>>

\* The state is read again inside the lock.
RefreshLoad(p) ==
    /\ pc[p] = "locked"
    /\ out' = [out EXCEPT ![p] = Load]
    /\ Go(p, "loaded")
    /\ UNCHANGED <<files, mem, goal, lock, backend, bounds>>

\* Somebody else has rotated the token already: take over everything.
Adopt(p) ==
    /\ pc[p] = "loaded"
    /\ ~Expiring(out[p].access)
    /\ Leave(p, out[p], IF p = Daemon THEN "idle" ELSE "ready")
    /\ UNCHANGED <<files, backend, bounds>>

\* The backend issues the next pair and process p receives it.
Issue(p) ==
    /\ gen' = gen + 1
    /\ out' = [out EXCEPT ![p].access = gen + 1, ![p].refresh = gen + 1]

\* refresh_tokens: the refresh token is good for one rotation.
Rotate(p) ==
    /\ pc[p] = "loaded"
    /\ Expiring(out[p].access)
    /\ out[p].refresh \notin burned
    /\ Issue(p)
    /\ burned' = burned \cup {out[p].refresh}
    /\ Go(p, "fetched")
    /\ UNCHANGED <<files, mem, goal, lock, expired, approved, revoked, list, bounds>>

\* Mutant of Reauth: a rejected refresh token is final.
ReauthNever(p) ==
    /\ pc[p] = "loaded"
    /\ Expiring(out[p].access)
    /\ out[p].refresh \in burned
    /\ Leave(p, mem[p], IF p = Daemon THEN "retry" ELSE "gone")
    /\ UNCHANGED <<files, backend, bounds>>

\* The backend answers 401: reauth_with_signing_key.
Reauth(p) ==
    /\ pc[p] = "loaded"
    /\ Expiring(out[p].access)
    /\ out[p].refresh \in burned
    /\ Issue(p)
    /\ Go(p, "fetched")
    /\ UNCHANGED <<files, mem, goal, lock, expired, burned, approved, revoked, list, bounds>>

\* The new tokens are saved on top of the state read inside the lock.
RefreshSave(p) ==
    /\ pc[p] = "fetched"
    /\ Writes(p, SaveOf(p, out[p]), "adopt")
    /\ UNCHANGED <<files, mem, lock, backend, bounds>>

\* A backend call fails: the heartbeat tries again at its next tick, the outer
\* loop sleeps and reloads, a command gives up.
Fails(p) ==
    \E step \in IF p = Daemon THEN {"idle", "retry"} ELSE {"gone"} : Leave(p, mem[p], step)

RefreshFails(p) ==
    /\ pc[p] = "loaded"
    /\ Expiring(out[p].access)
    /\ Fails(p)
    /\ UNCHANGED <<files, backend, bounds>>

\* The backend has rotated the token and the answer is lost.
RefreshLost(p) ==
    /\ pc[p] = "loaded"
    /\ Expiring(out[p].access)
    /\ faults < MaxFaults
    /\ faults' = faults + 1
    /\ burned' = burned \cup {out[p].refresh}
    /\ Fails(p)
    /\ UNCHANGED <<files, gen, expired, approved, revoked, list, expiries>>

\* The outer loop after its sleep.
Reload ==
    /\ pc[Daemon] = "retry"
    /\ mem' = [mem EXCEPT ![Daemon] = Load]
    /\ Go(Daemon, "idle")
    /\ UNCHANGED <<files, out, goal, lock, backend, bounds>>

-----------------------------------------------------------------------------
(* The trust sync of the daemon                                            *)

\* trusted_devices_tick: the backend answers with the devices of this host.
ListDevices ==
    /\ pc[Daemon] = "idle"
    /\ list' = [approved |-> approved, revoked |-> revoked]
    /\ Go(Daemon, "listed")
    /\ UNCHANGED <<files, mem, out, goal, lock, gen, expired, burned, approved, revoked, bounds>>

\* The answer is applied: the trust fields are read again, the devices listed
\* as revoked are dropped, their sessions are closed, and the whole state is
\* written if something, permissions included, has changed.  A host without
\* trusted devices is abandoned.
TrustTick(permissions) ==
    LET removed == disk.trusted \cap list.revoked
        m == [mem[Daemon] EXCEPT !.trusted = disk.trusted \ removed]
    IN /\ pc[Daemon] = "listed"
       /\ mem' = [mem EXCEPT ![Daemon] = m]
       /\ IF removed # {} \/ permissions
          THEN Writes(Daemon, m,
                      IF removed # {} /\ m.trusted = {} /\ list.approved \subseteq list.revoked
                      THEN "abandon" ELSE "tick")
          ELSE Go(Daemon, "idle") /\ UNCHANGED <<out, goal>>
       /\ list' = NoList
       /\ UNCHANGED <<files, lock, gen, expired, burned, approved, revoked, bounds>>

\* An abandoned daemon saves once more before it uninstalls its service.
Abandon ==
    /\ pc[Daemon] = "closing"
    /\ Writes(Daemon, SaveOf(Daemon, mem[Daemon]), "leave")
    /\ UNCHANGED <<files, mem, lock, backend, bounds>>

-----------------------------------------------------------------------------
(* The commands                                                            *)

CliStart(c) ==
    /\ pc[c] = "off"
    /\ mem' = [mem EXCEPT ![c] = Load]
    /\ Go(c, "idle")
    /\ UNCHANGED <<files, out, goal, lock, backend, bounds>>

\* pair: the token has enough life left, the QR code is shown.
PairShow(c) ==
    /\ pc[c] = "idle"
    /\ Job[c] = "pair"
    /\ ~Expiring(mem[c].access)
    /\ Go(c, "ready")
    /\ UNCHANGED <<files, mem, out, goal, lock, backend, bounds>>

\* pair: the app scans the code and the backend approves its device.
Scanned(c) ==
    /\ pc[c] = "ready"
    /\ Device[c] \notin approved \cup revoked
    /\ approved' = approved \cup {Device[c]}
    /\ UNCHANGED <<files, mem, out, pc, goal, lock, gen, expired, burned, revoked, list, bounds>>

\* pair: up to five minutes after the state was loaded the claim is delivered,
\* and persist_paired_device adds the device to that state.
PairClaim(c) ==
    LET m == [mem[c] EXCEPT !.trusted = @ \cup {Device[c]}]
    IN /\ pc[c] = "ready"
       /\ Device[c] \in approved \ revoked
       /\ mem' = [mem EXCEPT ![c] = m]
       /\ Writes(c, m, "pair")
       /\ UNCHANGED <<files, lock, backend, bounds>>

\* pair: the service is restarted to load the new device.
PairRestart(c) ==
    /\ pc[c] = "restart"
    /\ pc[Daemon] = "idle"
    /\ pc' = [pc EXCEPT ![c] = "gone", ![Daemon] = "stopping"]
    /\ mem' = [mem EXCEPT ![c] = Nothing]
    /\ UNCHANGED <<files, out, goal, lock, backend, bounds>>

\* A daemon that was told to stop closes its sessions and saves.
ShutdownSave ==
    /\ pc[Daemon] = "stopping"
    /\ Writes(Daemon, SaveOf(Daemon, mem[Daemon]), "stop")
    /\ UNCHANGED <<files, mem, lock, backend, bounds>>

\* devices revoke: the backend first, then the local copy.
CliRevoke(c) ==
    /\ pc[c] = "idle"
    /\ Job[c] = "revoke"
    /\ revoked' = revoked \cup {Device[c]}
    /\ mem' = [mem EXCEPT ![c].trusted = @ \ {Device[c]}]
    /\ Go(c, "revoking")
    /\ UNCHANGED <<files, out, goal, lock, gen, expired, burned, approved, list, bounds>>

\* devices revoke: the copy is written with save.
RevokeSave(c) ==
    /\ pc[c] = "revoking"
    /\ Writes(c, SaveOf(c, mem[c]), "revoke")
    /\ UNCHANGED <<files, mem, lock, backend, bounds>>

\* A backend call fails, the scan times out, the restart fails.
CliGivesUp(c) ==
    /\ pc[c] \in {"idle", "ready", "restart"}
    /\ Leave(c, mem[c], "gone")
    /\ UNCHANGED <<files, backend, bounds>>

-----------------------------------------------------------------------------
(* The rest of the world                                                   *)

\* Time passes: access tokens expire in the order they were issued.
Expire ==
    /\ expiries < MaxExpiries
    /\ expiries' = expiries + 1
    /\ expired' \in expired + 1 .. gen
    /\ UNCHANGED <<files, mem, out, pc, goal, lock, gen, burned, approved, revoked, list, faults>>

\* A device is revoked in the app.
RevokedInApp(d) ==
    /\ d \in approved \ revoked
    /\ revoked' = revoked \cup {d}
    /\ UNCHANGED <<files, mem, out, pc, goal, lock, gen, expired, burned, approved, list, bounds>>

\* A process is killed; the operating system drops its lock.
Killed(p) ==
    /\ pc[p] \notin {"off", "gone"}
    /\ faults < MaxFaults
    /\ faults' = faults + 1
    /\ Leave(p, mem[p], IF p = Daemon THEN "off" ELSE "gone")
    /\ UNCHANGED <<files, backend, expiries>>

\* The service manager starts the daemon.
DaemonStart ==
    /\ pc[Daemon] = "off"
    /\ mem' = [mem EXCEPT ![Daemon] = Load]
    /\ Go(Daemon, "idle")
    /\ UNCHANGED <<files, out, goal, lock, backend, bounds>>

\* The steps of p that need no answer from the backend.
LocalStep(p) == Put(p) \/ Rename(p) \/ RefreshLoad(p) \/ Adopt(p) \/ RefreshSave(p)

Next ==
    \/ \E p \in Procs :
          \/ LocalStep(p) \/ RefreshStart(p) \/ Rotate(p) \/ Reauth(p)
          \/ RefreshFails(p) \/ RefreshLost(p) \/ WriteFails(p) \/ Killed(p)
    \/ DaemonSave \/ DaemonStart \/ Reload \/ ListDevices \/ ShutdownSave \/ Abandon
    \/ \E permissions \in BOOLEAN : TrustTick(permissions)
    \/ \E c \in Clis :
          \/ CliStart(c) \/ PairShow(c) \/ Scanned(c) \/ PairClaim(c) \/ PairRestart(c)
          \/ CliRevoke(c) \/ RevokeSave(c) \/ CliGivesUp(c)
    \/ Expire
    \/ \E d \in Devices : RevokedInApp(d)

Spec == Init /\ [][Next]_vars

\* Processes that run go on running, the lock is not withheld for ever from a
\* process that keeps asking, a backend that is asked again and again answers,
\* and the two ticks of the daemon fire again and again.
Fairness ==
    /\ \A p \in Procs :
          /\ WF_vars(LocalStep(p))
          /\ WF_vars(Rotate(p) \/ Reauth(p) \/ RefreshFails(p))
    /\ SF_vars(RefreshStart(Daemon))
    /\ SF_vars(Rotate(Daemon) \/ Reauth(Daemon))
    /\ SF_vars(ListDevices)
    /\ WF_vars(TrustTick(FALSE))
    /\ WF_vars(ShutdownSave \/ Abandon)
    /\ WF_vars(DaemonStart)
    /\ WF_vars(Reload)

LiveSpec == Spec /\ Fairness

-----------------------------------------------------------------------------
(* Properties                                                              *)

\* Between reading the refresh token and storing its successor.
InRefresh(p) ==
    \/ pc[p] \in {"locked", "loaded", "fetched"}
    \/ pc[p] \in {"put", "rename"} /\ goal[p] = "adopt"

\* Exactly the process that is inside the read/refresh/write window holds
\* refresh.lock: no two rotations overlap, and every way out of
\* safe_refresh_if_needed, errors and death included, gives the lock back.
RotationLocked == \A p \in Procs : InRefresh(p) <=> lock = p

\* Until the first command runs, a crash between the two writes of a save never
\* leaves an access token on disk whose refresh token is older: what a restart
\* loads can be refreshed once the access token runs out.
SecretNotBehind == (\A c \in Clis : pc[c] = "off") => secret >= disk.access

\* Whatever tokens were burned by crashes, lost answers or stale saves of
\* another process, a daemon that has not been abandoned comes back to a
\* usable access token.
DaemonRecovers ==
    []<>(pc[Daemon] = "gone" \/ (pc[Daemon] # "off" /\ ~Expiring(mem[Daemon].access)))

\* A revoked device is in the end dropped from state.json for good, although
\* commands write back copies of the trust list that still contain it.
RevocationArrives ==
    \A d \in Devices : <>[](d \in revoked => pc[Daemon] = "gone" \/ d \notin disk.trusted)

\* Whatever other processes and crashes leave in the two files, the daemon puts
\* tokens and trust right again (auth.rs 115-210, daemon.rs 751-817).
StateConverges == DaemonRecovers /\ RevocationArrives

=============================================================================
