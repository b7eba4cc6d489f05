---------------------------- MODULE ExposedPorts ----------------------------
(***************************************************************************)
(* The allowlist of forwarded ports (exposed_ports.rs): one JSON file that *)
(* the CLI, the daemon's ports/expose and ports/unexpose handlers (rpc.rs) *)
(* and every starting daemon rewrite, each by list, change, write, with no *)
(* lock.  The write itself is atomic.                                      *)
(***************************************************************************)
EXTENDS Naturals

CONSTANTS
    Ports,      \* ports asked about; 0 is refused
    OpMax       \* bound: operations begun

PortsAssumption == Ports \subseteq Nat /\ OpMax \in Nat

VARIABLES
    file,       \* what the file says of each port
    op,         \* per writer: what it is doing, with the list it read
    typed,      \* the ports the operator has exposed for good at some time
    ops

vars == <<file, op, typed, ops>>

Writers == {"cli", "rpc", "boot"}

Listed == [Ports -> {"none", "ephemeral", "persistent"}]

Empty == [n \in Ports |-> "none"]

Idle == [do |-> "idle", port |-> 0, as |-> "none", read |-> Empty]

TypeOK ==
    /\ file \in Listed
    /\ op \in [Writers -> [do : {"idle", "set", "purge"}, port : Ports \cup {0},
                           as : {"none", "ephemeral", "persistent"}, read : Listed]]
    /\ typed \subseteq Ports
    /\ ops \in 0..OpMax

Init ==
    /\ file = Empty
    /\ op = [w \in Writers |-> Idle]
    /\ typed = {}
    /\ ops = 0

Begins(w) ==
    /\ op[w] = Idle /\ ops < OpMax
    /\ ops' = ops + 1

(* add(port, ephemeral): port 0 is refused; the list is read. *)
Add(w, n, as) ==
    /\ n # 0
    /\ Begins(w)
    /\ op' = [op EXCEPT ![w] = [do |-> "set", port |-> n, as |-> as, read |-> file]]
    /\ typed' = IF as = "persistent" /\ w = "cli" THEN typed \cup {n} ELSE typed
    /\ UNCHANGED file

(* pocketshell expose [--ephemeral], and the menu's entry. *)
Expose(n) == \E as \in {"ephemeral", "persistent"} : Add("cli", n, as)

\* Mutant: the exposure is kept across restarts.
HandleExposePortKept(n) == Add("rpc", n, "persistent")

(* ports/expose: a phone's exposure is ephemeral, always. *)
HandleExposePort(n) == Add("rpc", n, "ephemeral")

(* remove(port), from the CLI or the phone: nothing is written if the port *)
(* is not there.                                                           *)
Remove(w, n) ==
    /\ Begins(w)
    /\ op' = [op EXCEPT ![w] = IF file[n] = "none" THEN Idle
              ELSE [do |-> "set", port |-> n, as |-> "none", read |-> file]]
    /\ UNCHANGED <<file, typed>>

(* purge_ephemeral, by every daemon run before it takes the pid lock, so   *)
(* also by one that will find another running.                             *)
Purge ==
    /\ Begins("boot")
    /\ op' = [op EXCEPT !["boot"] =
              IF \E n \in Ports : file[n] = "ephemeral"
              THEN [do |-> "purge", port |-> 0, as |-> "none", read |-> file] ELSE Idle]
    /\ UNCHANGED <<file, typed>>

Kept(read) == [n \in Ports |-> IF read[n] = "ephemeral" THEN "none" ELSE read[n]]

(* write: the list as it was read, changed, replaces the file. *)
Write(w) ==
    /\ op[w] # Idle
    /\ file' = IF op[w].do = "purge" THEN Kept(op[w].read)
               ELSE [op[w].read EXCEPT ![op[w].port] = op[w].as]
    /\ op' = [op EXCEPT ![w] = Idle]
    /\ UNCHANGED <<typed, ops>>

(* The disk is full, the directory is gone: the error is reported. *)
WriteFails(w) ==
    /\ op[w] # Idle
    /\ op' = [op EXCEPT ![w] = Idle]
    /\ UNCHANGED <<file, typed, ops>>

Next ==
    \/ \E n \in Ports :
          Expose(n) \/ HandleExposePort(n) \/ \E w \in {"cli", "rpc"} : n # 0 /\ Remove(w, n)
    \/ Purge
    \/ \E w \in Writers : Write(w) \/ WriteFails(w)

Spec == Init /\ [][Next]_vars

-----------------------------------------------------------------------------
(* However the writers race, a port stays listed over a restart only if    *)
(* the operator asked for that on the host: "mobile exposures are          *)
(* ephemeral-only" (rpc.rs), and no write-back of an old list makes one    *)
(* last.  Port 0 is never listed.                                          *)
PersistentOnlyTyped == \A n \in Ports : file[n] = "persistent" => n \in typed \ {0}
=============================================================================
