------------------------------- MODULE Pairing -------------------------------
(***************************************************************************)
(* `pocketshell pair` for a host without an identity, and with --reset     *)
(* (pair_qr and pair_qr_new_host of main.rs): the claim that a device      *)
(* scans (api.rs), the identity in state.json and in the secret store      *)
(* (store.rs) and the daemon, which loads it when it starts.               *)
(*                                                                         *)
(* A host is its key: the backend matches a host by its public key, the    *)
(* secret store holds the private one.  A save is two steps, the secret    *)
(* and then state.json.  A host that has an identity is paired with one    *)
(* more device instead, which StateFile models.                            *)
(***************************************************************************)
EXTENDS Naturals, FiniteSets

CONSTANTS
    KeyMax,         \* bound: key pairs generated
    Resets,         \* bound: pair --reset
    Faults          \* bound: crashes, lost answers, failed calls, time-outs

PairingAssumption == KeyMax \in Nat /\ Resets \in Nat /\ Faults \in Nat

NoKey == 0

VARIABLES
    pc,         \* where the command is
    key,        \* the key pair it works with
    claim,      \* the backend's claim: its key and state
    records,    \* hosts the backend has registered
    disk,       \* the host of state.json
    secret,     \* the private key in the secret store
    pinned,     \* the host whose pairing pinned a device in state.json
    paired,     \* the host of the last pairing that succeeded
    daemon,     \* the identity a running daemon has loaded
    saving,     \* the daemon has written the secret of a save
    undone,     \* a daemon has saved an identity over another one
    used, resets, faults

files == <<disk, secret, pinned>>
counts == <<used, resets, faults>>
host == <<daemon, saving, undone>>
vars == <<pc, key, claim, records, files, paired, host, counts>>

NoClaim == [key |-> NoKey, state |-> "none"]

\* A new host, a paired one, and a reinstalled one whose secrets survived.
Init ==
    /\ pc = "idle" /\ key = NoKey /\ claim = NoClaim
    /\ disk \in {NoKey, 1} /\ secret \in {disk, 1}
    /\ records = {secret} \ {NoKey} /\ used = secret
    /\ pinned = disk /\ paired = disk
    /\ daemon \in {NoKey, disk} /\ saving = FALSE /\ undone = FALSE
    /\ resets = 0 /\ faults = 0

Goes(step) == pc' = step
Fault == faults < Faults /\ faults' = faults + 1 /\ UNCHANGED <<used, resets>>

---------------------------------------------------------------------------
Starts ==
    /\ pc = "idle" /\ disk = NoKey
    /\ Goes("keypair")
    /\ UNCHANGED <<key, claim, records, files, paired, host, counts>>

\* --reset: the secrets first, then state.json.
ClearSecrets ==
    /\ pc = "idle" /\ resets < Resets
    /\ secret' = NoKey /\ resets' = resets + 1 /\ paired' = NoKey
    /\ Goes("wipe")
    /\ UNCHANGED <<key, claim, records, disk, pinned, host, used, faults>>

WipeState ==
    /\ pc = "wipe"
    /\ disk' = NoKey
    /\ Goes("keypair")
    /\ UNCHANGED <<key, claim, records, secret, pinned, paired, host, counts>>

Generate == key' = used + 1 /\ used' = used + 1

\* Mutant: a key is always generated.
ChooseKeyFresh == used < KeyMax /\ Generate

\* A private key that survives in the secret store is used again.
ChooseKey ==
    IF secret # NoKey THEN key' = secret /\ UNCHANGED used
    ELSE used < KeyMax /\ Generate

StartClaim ==
    /\ pc = "keypair" /\ ChooseKey
    /\ claim' = [key |-> key', state |-> "open"]
    /\ Goes("polling")
    /\ UNCHANGED <<records, files, paired, host, resets, faults>>

\* The device scans the code: the backend registers the host, or finds it.
Scans ==
    /\ claim.state = "open"
    /\ claim' = [claim EXCEPT !.state = "claimed"]
    /\ records' = records \cup {claim.key}
    /\ UNCHANGED <<pc, key, files, paired, host, counts>>

ClaimExpires ==
    /\ claim.state = "open"
    /\ claim' = [claim EXCEPT !.state = "expired"]
    /\ UNCHANGED <<pc, key, records, files, paired, host, counts>>

\* The answer with the tokens is given once, and may be lost.
PollClaimed ==
    /\ pc = "polling" /\ claim.state = "claimed"
    /\ claim' = [claim EXCEPT !.state = "delivered"]
    /\ \/ Goes("put") /\ UNCHANGED counts
       \/ Fault /\ UNCHANGED pc
    /\ UNCHANGED <<key, records, files, paired, host>>

\* The claim was delivered or has expired: the command fails.
PollRefused ==
    /\ pc = "polling" /\ claim.state \in {"delivered", "expired"}
    /\ Goes("idle")
    /\ UNCHANGED <<key, claim, records, files, paired, host, counts>>

PutSecrets ==
    /\ pc = "put"
    /\ secret' = key
    /\ Goes("rename")
    /\ UNCHANGED <<key, claim, records, disk, pinned, paired, host, counts>>

RenameState ==
    /\ pc = "rename"
    /\ disk' = key
    /\ Goes("persist")
    /\ UNCHANGED <<key, claim, records, secret, pinned, paired, host, counts>>

\* persist_paired_device: the device of the claim, with save_full.
PersistDevice ==
    /\ pc = "persist"
    /\ secret' = key /\ disk' = key /\ pinned' = key /\ paired' = key
    /\ Goes("restart")
    /\ UNCHANGED <<key, claim, records, host, counts>>

\* The daemon is restarted, or installed and started: it loads state.json.
RestartDaemon ==
    /\ pc = "restart"
    /\ \/ daemon' = disk /\ saving' = FALSE /\ UNCHANGED counts
       \/ Fault /\ UNCHANGED <<daemon, saving>>
    /\ Goes("idle")
    /\ UNCHANGED <<key, claim, records, files, paired, undone>>

\* The command is killed, runs out of attempts, or a call of it fails.
Fails ==
    /\ pc \notin {"idle", "restart"} /\ Fault
    /\ Goes("idle")
    /\ UNCHANGED <<key, claim, records, files, paired, host>>

---------------------------------------------------------------------------
\* A running daemon saves sessions and tokens with the identity it has loaded.
DaemonPuts ==
    /\ daemon # NoKey /\ ~saving
    /\ secret' = daemon /\ saving' = TRUE
    /\ undone' = (undone \/ daemon # secret)
    /\ UNCHANGED <<pc, key, claim, records, disk, pinned, paired, daemon, counts>>

DaemonRenames ==
    /\ saving
    /\ disk' = daemon /\ saving' = FALSE
    /\ undone' = (undone \/ daemon # disk)
    /\ UNCHANGED <<pc, key, claim, records, secret, pinned, paired, daemon, counts>>

Pair ==
    \/ Starts \/ ClearSecrets \/ WipeState \/ StartClaim \/ PollClaimed \/ PollRefused
    \/ PutSecrets \/ RenameState \/ PersistDevice \/ RestartDaemon \/ Fails

Next == Pair \/ Scans \/ ClaimExpires \/ DaemonPuts \/ DaemonRenames

Spec == Init /\ [][Next]_vars

---------------------------------------------------------------------------
\* After a pairing that reported success, state.json, the secret store, the
\* backend and the pinned device are of the same host, and a daemon that was
\* restarted has it, unless a daemon with another identity has saved it
\* meanwhile (main.rs:770-803).
PairedAgrees ==
    paired # NoKey /\ ~undone =>
        /\ {disk, secret, pinned} = {paired} /\ paired \in records
        /\ daemon \in {NoKey, paired} \/ pc = "restart" \/ faults > 0

\* A host is registered a second time only after a reset, or when a pairing
\* failed after its claim was opened: a reinstalled host finds its record again,
\* also after a crash within the save (main.rs:657 and store.rs:165).
FoundAgain == Cardinality(records) <= 1 + resets + faults

\* A pairing leaves one identity, and keeps the one there was.
PairingSound == PairedAgrees /\ FoundAgain

=============================================================================
