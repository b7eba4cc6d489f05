------------------------------- MODULE MCHost -------------------------------
(* The host around the sessions: instances of SelfUpdate, DaemonService,   *)
(* ExposedPorts, StatsFeed, Attention, Pairing, DevicePeers and            *)
(* HostTransfer for model checking.  They share no state: each behaviour   *)
(* exercises the one that focus names, and leaves the others as they       *)
(* begin.                                                                  *)
EXTENDS Integers, Sequences

CONSTANTS Tasks, Releases, Installs, UpdateFaults, Hosts, UpdateOverlap
VARIABLES
    hostKind, binaries, latest, task, cliBinary, daemonBinary, flag, unitName,
    installed, updatesMade, updateFaults
Update ==
    INSTANCE SelfUpdate WITH
        Faults <- UpdateFaults, Overlap <- UpdateOverlap, faults <- updateFaults, cli <- cliBinary,
        host <- hostKind, daemon <- daemonBinary, unit <- unitName, made <- updatesMade,
        disk <- binaries

CONSTANTS Pids, InodeMax, Managers, Crashes, Disorder
VARIABLES systemd, proc, path, made, pidOf, lock, sock, unit, sup, command, crashes
Service == INSTANCE DaemonService WITH Hosts <- Managers, cli <- command

CONSTANTS Ports, OpMax
VARIABLES portsFile, portsOp, portsTyped, ops
Exposed ==
    INSTANCE ExposedPorts WITH
        file <- portsFile, op <- portsOp, typed <- portsTyped

CONSTANTS FlushEvery, BufCap, Thresholds, Metric, Cooldown, MinuteMax, DropMax
VARIABLES minute, conn, up, age, due, buf, batches, subscription, summary, last
Stats == INSTANCE StatsFeed WITH stats <- subscription, got <- batches

CONSTANTS Chunks, OscLimit, QuietFor, MinCommand, IdleBytes, MinIdle
VARIABLES
    parser, armed, fire_in, command_age, input_age, bytes_since_arm,
    quiet_for, raised
Marks ==
    INSTANCE Attention WITH Quiet <- QuietFor, pending <- armed, events <- raised

CONSTANTS KeyMax, Resets, PairFaults
VARIABLES
    pairing, key, claim, records, disk, secret, pinned, paired, daemon,
    saving, undone, used, resets, pairFaults
Pair == INSTANCE Pairing WITH Faults <- PairFaults, faults <- pairFaults, pc <- pairing

CONSTANTS PeerKeys, OfferMax, ByteMax, PeerFaults, Grace, Ttls, MinTtl, Margin
VARIABLES
    offers, peerFaults, peers, since, labels, queue, sent, cache, relayed,
    pendingBytes, flight, billed, lost
Peers ==
    INSTANCE DevicePeers WITH
        Keys <- PeerKeys, Faults <- PeerFaults, faults <- peerFaults, pending <- pendingBytes

CONSTANTS Attempts, Size, Grown, HighWater, TransferFaults
VARIABLES
    out, inb, net, answer, chan, heard, wire, back, sending, read, slot,
    upload, tmp, file, srcEvents, dstEvents, results, requested, transferFaults
Transfer ==
    INSTANCE HostTransfer WITH
        Faults <- TransferFaults, faults <- transferFaults, task <- sending

VARIABLE focus

updateVars ==
    <<hostKind, binaries, latest, task, cliBinary, daemonBinary, flag, unitName,
      installed, updatesMade, updateFaults>>
serviceVars ==
    <<systemd, proc, path, made, pidOf, lock, sock, unit, sup, command, crashes>>
portsVars == <<portsFile, portsOp, portsTyped, ops>>
statsVars == <<minute, conn, up, age, due, buf, batches, subscription, summary, last>>
marksVars ==
    <<parser, armed, fire_in, command_age, input_age, bytes_since_arm, quiet_for,
      raised>>
pairVars ==
    <<pairing, key, claim, records, disk, secret, pinned, paired, daemon, saving,
      undone, used, resets, pairFaults>>
peersVars ==
    <<offers, peerFaults, peers, since, labels, queue, sent, cache, relayed,
      pendingBytes, flight, billed, lost>>
transferVars ==
    <<out, inb, net, answer, chan, heard, wire, back, sending, read, slot, upload, tmp,
      file, srcEvents, dstEvents, results, requested, transferFaults>>
vars == <<updateVars, serviceVars, portsVars, statsVars, marksVars, pairVars,
    peersVars, transferVars, focus>>

\* Two thresholds of one metric, with different cooldowns.
TwoOfOne == <<"cpu", "cpu">>
Cooldowns == <<1, 2>>
\* Single bytes, so that a sequence may be cut anywhere, and one read that ends
\* a command.
Reads ==
    {<<b>> : b \in {"esc", "bel", "]", "\\", "A", "C", "D", "N", "x"}}
        \cup {<<"esc", "]", "D", "bel", "x">>}
\* Two attempts to copy an empty file.
Sizes == <<0, 0>>

ASSUME UpdateAssumption == Update!UpdateAssumption
ASSUME ServiceAssumption == Service!ServiceAssumption
ASSUME PortsAssumption == Exposed!PortsAssumption
ASSUME FeedAssumption == Stats!FeedAssumption
ASSUME AttentionAssumption == Marks!AttentionAssumption
ASSUME PairingAssumption == Pair!PairingAssumption
ASSUME PeersAssumption == Peers!PeersAssumption
ASSUME TransferAssumption == Transfer!TransferAssumption

PairRests == disk = 1 /\ secret = 1 /\ daemon = 1

Init ==
    /\ focus \in {"update", "service", "ports", "stats", "marks", "pair", "peers",
          "transfer"}
    /\ Update!Init /\ Service!Init /\ Exposed!Init /\ Stats!Init /\ Marks!Init
    /\ Pair!Init /\ Peers!Init /\ Transfer!Init
    /\ focus # "update" => hostKind = "bare"
    /\ focus # "service" => systemd = TRUE
    /\ focus # "pair" => PairRests

Stay ==
    /\ UNCHANGED focus
    /\ focus # "update" => UNCHANGED updateVars
    /\ focus # "service" => UNCHANGED serviceVars
    /\ focus # "ports" => UNCHANGED portsVars
    /\ focus # "stats" => UNCHANGED statsVars
    /\ focus # "marks" => UNCHANGED marksVars
    /\ focus # "pair" => UNCHANGED pairVars
    /\ focus # "peers" => UNCHANGED peersVars
    /\ focus # "transfer" => UNCHANGED transferVars

Next ==
    \/ focus = "update" /\ Update!Next /\ Stay
    \/ focus = "service" /\ Service!Next /\ Stay
    \/ focus = "ports" /\ Exposed!Next /\ Stay
    \/ focus = "stats" /\ Stats!Next /\ Stay
    \/ focus = "marks" /\ Marks!Next /\ Stay
    \/ focus = "pair" /\ Pair!Next /\ Stay
    \/ focus = "peers" /\ Peers!Next /\ Stay
    \/ focus = "transfer" /\ Transfer!Next /\ Stay

Spec == Init /\ [][Next]_vars

-----------------------------------------------------------------------------
(* Properties                                                              *)

\* SelfUpdate!UpdateSound: whatever step an update fails or dies at, a whole
\* binary is left and the next update may run; one that nothing disturbs takes
\* effect (update.rs 356-391, daemon/runtime.rs 147-184).
UpdateSound == Update!TypeOK /\ Update!UpdateSound

\* DaemonService!ServingReachable: one daemon serves, and the pid file and the
\* socket name it (daemon/runtime.rs 20-75, service.rs 900-960).
ServingReachable == Service!TypeOK /\ Service!ServingReachable

\* ExposedPorts!PersistentOnlyTyped: what the phone exposes does not outlast a
\* restart (exposed_ports.rs 85-140).
PersistentOnlyTyped == Exposed!TypeOK /\ Exposed!PersistentOnlyTyped

\* StatsFeed!MinuteSamples: minutes are reported once and in order, and at most
\* one is missing between two batches (daemon.rs 940-975).
MinuteSamples == Stats!TypeOK /\ Stats!MinuteSamples

\* Attention!AttentionEarned: the phone is called only after a quiet period, and
\* once for each submitted line (terminal_marks.rs 405-599).
AttentionEarned == Marks!AttentionEarned

\* Pairing!PairingSound: a pairing leaves one identity, and keeps the one there
\* was (main.rs 628-855).
PairingSound == Pair!PairingSound

\* DevicePeers!BytesAccounted: every relayed byte is billed or known to be lost
\* (webrtc_manager.rs 603-703, daemon.rs 1215-1260).
BytesAccounted == Peers!BytesAccounted

\* DevicePeers!LabelNotStale and CredsOutliveMargin: no candidate goes out under
\* the id of an older offer, and credentials that are served outlive the margin
\* (daemon.rs 3290-3310, 5830-5842, turn.rs 1-60).
SignalsSound == Peers!LabelNotStale /\ Peers!CredsOutliveMargin

\* HostTransfer!AnswersMatch, FileWhole and NoTmpLeft: no attempt gets the answer
\* of another, the destination is replaced as a whole or not at all, and a closed
\* channel leaves no temporary file (daemon.rs 4252-4256, daemon/files.rs 641-779,
\* 1028-1044).
TransferSound == Transfer!AnswersMatch /\ Transfer!FileWhole /\ Transfer!NoTmpLeft

=============================================================================
