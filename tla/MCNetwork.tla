----------------------------- MODULE MCNetwork ------------------------------
(* What crosses the network and must arrive or end: instances of           *)
(* HttpForward, WsTunnel, FrameCodec, HostTransfer and DevicePeers for     *)
(* model checking.  They share no state: each behaviour exercises the one  *)
(* that focus names, and leaves the others as they begin.                  *)
EXTENDS Integers, Sequences

CONSTANTS Ids, Cap, ReqMax, RespMax, QueueCap
VARIABLES
    pending, in_flight, pump, reader, signal, streaming, produced, queue,
    sent, open
Http == INSTANCE HttpForward

CONSTANTS Script, BufCap, MsgMax, OutCap
VARIABLES
    streams, buf, relay, partial, chunks, out, server, up, said, lost, wsSent,
    tunnelOpen
Ws == INSTANCE WsTunnel WITH open <- tunnelOpen, sent <- wsSent

CONSTANTS ShortMax, LongMax, CountMax, Texts, HeaderTexts, Payloads
VARIABLES frame, wire, got
Codec == INSTANCE FrameCodec

CONSTANTS Attempts, FileSize, Grown, HighWater, TransferFaults
VARIABLES
    outbound, inb, net, answer, chan, heard, frames, back, task, read, slot,
    upload, tmp, file, srcEvents, dstEvents, results, requested, transferFaults
Transfer ==
    INSTANCE HostTransfer WITH
        Size <- FileSize, Faults <- TransferFaults, faults <- transferFaults, out <- outbound,
        wire <- frames

CONSTANTS Keys, OfferMax, ByteMax, PeerFaults, Grace, Ttls, MinTtl, Margin
VARIABLES
    offers, peerFaults, peers, since, labels, candidates, sentCandidates,
    cache, relayed, pendingBytes, flight, billed, lostBytes
Peers ==
    INSTANCE DevicePeers WITH
        Faults <- PeerFaults, faults <- peerFaults, queue <- candidates,
        sent <- sentCandidates, pending <- pendingBytes, lost <- lostBytes

VARIABLE focus

httpVars ==
    <<pending, in_flight, pump, reader, signal, streaming, produced, queue, sent, open>>
wsVars ==
    <<streams, buf, relay, partial, chunks, out, server, up, said, lost, wsSent,
      tunnelOpen>>
codecVars == <<frame, wire, got>>
transferVars ==
    <<outbound, inb, net, answer, chan, heard, frames, back, task, read, slot, upload,
      tmp, file, srcEvents, dstEvents, results, requested, transferFaults>>
peersVars ==
    <<offers, peerFaults, peers, since, labels, candidates, sentCandidates, cache,
      relayed, pendingBytes, flight, billed, lostBytes>>
vars == <<httpVars, wsVars, codecVars, transferVars, peersVars, focus>>

\* A message of two fragments and one of one; the other tunnel is silent.
Fragments == <<<<FALSE, TRUE, TRUE>>, <<>>>>
\* A file that may grow while it is read.
Sizes == <<1>>
SizesRead == <<2>>
\* Strings of characters of one and of two bytes.
Strings == UNION {[1..n -> {1, 2}] : n \in 0..3}
Headers == {<<2>>, <<1, 2>>}
Raw == {<<>>, <<5>>, <<0, 2>>}

Init ==
    /\ focus \in {"http", "ws", "codec", "transfer", "peers"}
    /\ Http!Init /\ Ws!Init /\ Codec!Init /\ Transfer!Init /\ Peers!Init
    /\ focus # "codec" => frame.op = "ReqEnd"

Stay ==
    /\ UNCHANGED focus
    /\ focus # "http" => UNCHANGED httpVars
    /\ focus # "ws" => UNCHANGED wsVars
    /\ focus # "codec" => UNCHANGED codecVars
    /\ focus # "transfer" => UNCHANGED transferVars
    /\ focus # "peers" => UNCHANGED peersVars

Next ==
    \/ focus = "http" /\ Http!Next /\ Stay
    \/ focus = "ws" /\ Ws!Next /\ Stay
    \/ focus = "codec" /\ Codec!Next /\ Stay
    \/ focus = "transfer" /\ Transfer!Next /\ Stay
    \/ focus = "peers" /\ Peers!Next /\ Stay

\* The fairness of each component: since focus does not change, the fairness of
\* a disjunction over it is that of each disjunct.
Task(i) ==
    /\ \/ focus = "http" /\ Http!Pump(i)
       \/ focus = "ws" /\ Ws!Relay(i)
       \/ focus = "transfer" /\ i \in Attempts /\ Transfer!Source(i)
    /\ Stay

Drain(i) ==
    /\ \/ focus = "http" /\ Http!ReaderGivesUp(i)
       \/ focus = "ws" /\ Ws!PumpSends(i)
       \/ focus = "transfer" /\ i \in Attempts /\ Transfer!Target(i)
    /\ Stay

Loop ==
    /\ \/ focus = "transfer" /\ Transfer!SourceEvent
       \/ focus = "peers" /\ Peers!Tick
    /\ Stay

OtherLoop ==
    /\ \/ focus = "transfer" /\ Transfer!TargetEvent
       \/ focus = "peers" /\ Peers!Poll
    /\ Stay

Sender ==
    /\ \/ focus = "transfer" /\ \E a \in Attempts : chan[a] = "open" /\ Transfer!Sends(a)
       \/ focus = "peers" /\ Peers!SendCandidate
    /\ Stay

Fairness ==
    /\ \A i \in Ids : WF_vars(Task(i)) /\ WF_vars(Drain(i))
    /\ WF_vars(Loop) /\ WF_vars(OtherLoop) /\ WF_vars(Sender)

Spec == Init /\ [][Next]_vars /\ Fairness

-----------------------------------------------------------------------------
(* Properties                                                              *)

\* FrameCodec!RoundTrip: a frame arrives as it was sent (http_forward.rs 304-560).
RoundTrip == Codec!RoundTrip

Begun(i) ==
    \/ focus = "http" /\ Http!Promoted(i)
    \/ focus = "ws" /\ Ws!LetGo(i)
    \/ focus = "transfer" /\ i \in Attempts /\ Transfer!Started(i)
    \/ focus = "peers" /\ i = 1 /\ \E k \in Keys : Peers!Dying(k)

Ended(i) ==
    \/ focus = "http" /\ Http!Settled(i)
    \/ focus = "ws" /\ Ws!Ended(i)
    \/ focus = "transfer" /\ i \in Attempts /\ Transfer!HasEnded(i)
    \/ focus = "peers" /\ \A k \in Keys : ~Peers!Dying(k)

\* HttpForward!Answered, WsTunnel!TunnelEnds, HostTransfer!Reported and
\* DevicePeers!DeadPeerLeaves, of the one in focus: a request is answered, an
\* abandoned tunnel is closed, a transfer comes to a result, a dead peer leaves
\* (http_forward.rs 802-830, ws_forward.rs 348-363, daemon/files.rs 845-1066,
\* webrtc_manager.rs 401-440).
WorkEnds == \A i \in Ids : Begun(i) ~> Ended(i)

=============================================================================
