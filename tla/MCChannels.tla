----------------------------- MODULE MCChannels -----------------------------
(* How devices, local terminals and the backend reach the daemon:          *)
(* instances of ChannelAuth, WsAuth, SessionCipher, LocalAttach,           *)
(* ControlPlane, HttpForward and WsTunnel for model checking.  They share  *)
(* no state: each behaviour exercises the one that focus names, and leaves *)
(* the others as they begin.                                               *)
EXTENDS Integers, TLC

CONSTANTS Devices, NoDevice, Revocable, Grants, Layouts, Ids, MaxEvents
VARIABLES
    dev, kind, st, tables, events, chal, pending, expects, authed, forwards,
    owner, trusted, disk, revoked, byCli, proven, accepted
Channels == INSTANCE ChannelAuth

CONSTANTS Signers, Nonces, MessageTypes, Skew, Ttl, SweepAt, Drift, Horizon
VARIABLES now, grants, sent, cache, handled
Signed ==
    INSTANCE WsAuth WITH
        Devices <- Signers, Types <- MessageTypes, accepted <- handled

CONSTANTS KeyMax, ReqMax, Frames
VARIABLES host, mobile, keys, net, done, shown
Cipher == INSTANCE SessionCipher

CONSTANTS Clients, ChunkMax, TypedMax
VARIABLES
    cli, localSent, typed, reader, localEvents, writers, attached, session,
    written, queue, got
Local ==
    INSTANCE LocalAttach WITH
        pending <- writers, events <- localEvents, sent <- localSent

CONSTANTS PingEvery, PongWithin, IdleLimit, BackoffMax, BusyMax
VARIABLES
    link, backoff, alive, silent, owed, inbox, sinceMsg, deadline, pingIn,
    watch, busy, held, late
Control == INSTANCE ControlPlane

CONSTANTS Requests, RequestCap, BodyMax, RespMax, QueueCap
VARIABLES
    requests, in_flight, pump, bodyReader, signal, streaming, produced, chunksRead,
    answered, httpOpen
Http ==
    INSTANCE HttpForward WITH
        Ids <- Requests, Cap <- RequestCap, ReqMax <- BodyMax, pending <- requests,
        reader <- bodyReader, queue <- chunksRead, sent <- answered, open <- httpOpen

CONSTANTS Tunnels, Script, TunnelCap, BufCap, MsgMax, OutCap
VARIABLES
    streams, buf, relay, partial, chunks, out, server, up, said, lost, tunnelSent,
    tunnelOpen
Ws ==
    INSTANCE WsTunnel WITH
        Ids <- Tunnels, Cap <- TunnelCap, sent <- tunnelSent, open <- tunnelOpen

VARIABLE focus

channelsVars ==
    <<dev, kind, st, tables, events, chal, pending, expects, authed, forwards, owner,
      trusted, disk, revoked, byCli, proven, accepted>>
signedVars == <<now, grants, sent, cache, handled>>
cipherVars == <<host, mobile, keys, net, done, shown>>
localVars ==
    <<cli, localSent, typed, reader, localEvents, writers, attached, session, written,
      queue, got>>
controlVars ==
    <<link, backoff, alive, silent, owed, inbox, sinceMsg, deadline, pingIn, watch,
      busy, held, late>>
httpVars ==
    <<requests, in_flight, pump, bodyReader, signal, streaming, produced, chunksRead,
      answered, httpOpen>>
wsVars ==
    <<streams, buf, relay, partial, chunks, out, server, up, said, lost, tunnelSent,
      tunnelOpen>>
vars ==
    <<channelsVars, signedVars, cipherVars, localVars, controlVars, httpVars, wsVars,
      focus>>

ChannelIds == 1 .. 2
CONSTANTS d1, d2

\* Channels of different kinds share no key, so that two of the same kind are
\* what interferes; an http channel also reads the session of a terminal.
\* Control and agent channels are handled as those of files are.
PairedKinds == {"terminal", "http", "stats", "files"}
SameKind ==
    {[c \in ChannelIds |-> k] : k \in PairedKinds}
        \cup {<<"terminal", "http">>, <<"control", "agent">>}
Permissions == d1 :> {"shell", "stats"} @@ d2 :> {"shell"}
SignedTypes == [offer |-> "shell", stats_offer |-> "stats"]

\* A message of two fragments and one of one; the other tunnel is silent.
Fragments == <<<<FALSE, TRUE, TRUE>>, <<>>>>

ASSUME ChannelAssumption == Channels!ChannelAssumption
ASSUME ControlAssumption == Control!ControlAssumption
ASSUME WsAuthAssumption == Signed!WsAuthAssumption
ASSUME CipherAssumption == Cipher!CipherAssumption
ASSUME HttpAssumption == Http!HttpAssumption
ASSUME WsAssumption == Ws!WsAssumption

ChannelsRest == dev = [c \in Ids |-> d1] /\ kind = [c \in Ids |-> "http"]

Init ==
    /\ focus \in {"channels", "signed", "cipher", "local", "control", "http", "ws"}
    /\ Channels!Init /\ Signed!Init /\ Cipher!Init /\ Local!Init /\ Control!Init
    /\ Http!Init /\ Ws!Init
    /\ focus # "channels" => ChannelsRest

Stay ==
    /\ UNCHANGED focus
    /\ focus # "channels" => UNCHANGED channelsVars
    /\ focus # "signed" => UNCHANGED signedVars
    /\ focus # "cipher" => UNCHANGED cipherVars
    /\ focus # "local" => UNCHANGED localVars
    /\ focus # "control" => UNCHANGED controlVars
    /\ focus # "http" => UNCHANGED httpVars
    /\ focus # "ws" => UNCHANGED wsVars

Next ==
    \/ focus = "channels" /\ Channels!Next /\ Stay
    \/ focus = "signed" /\ Signed!Next /\ Stay
    \/ focus = "cipher" /\ Cipher!Next /\ Stay
    \/ focus = "local" /\ Local!Next /\ Stay
    \/ focus = "control" /\ Control!Next /\ Stay
    \/ focus = "http" /\ Http!Next /\ Stay
    \/ focus = "ws" /\ Ws!Next /\ Stay

Spec == Init /\ [][Next]_vars

-----------------------------------------------------------------------------
(* Properties                                                              *)

\* ChannelAuth!AuthHasChannel and RevokedSilenced: authentication outlives
\* neither the channel that earned it nor the trust in its device
\* (daemon.rs 751-799, 1542-1562 and the other close events).
AuthSound == Channels!TypeOK /\ Channels!AuthHasChannel /\ Channels!RevokedSilenced

\* ChannelAuth!HttpSessionMatches and HttpEarned: an http channel carries
\* requests only after its own answer, and only while the forwarding session of
\* the device is the one made for it (daemon.rs 3056-3158).
HttpPerChannel == Channels!HttpSessionMatches /\ Channels!HttpEarned

\* WsAuth!HandledOnce: a signed message is handled once (auth.rs 502-581).
HandledOnce == Signed!HandledOnce

\* SessionCipher!InOrderOnce and NonceUnique: encrypted requests are carried out
\* once and in their order, and no nonce is used twice
\* (signaling_crypto.rs 125-208).
CipherSound == Cipher!InOrderOnce /\ Cipher!NonceUnique

\* LocalAttach!LocalClientsServed: local terminals lose nothing, and those that
\* left are forgotten (local_ipc.rs, daemon.rs 980-1045).
LocalClientsServed == Local!LocalClientsServed

\* ControlPlane!WatchdogSound: a dead connection is given up in time, a living
\* one only when a handler kept the loop (transport.rs, daemon.rs 3380-3440).
WatchdogSound == Control!TypeOK /\ Control!WatchdogSound

\* HttpForward!LoadBounded and ResponseWhole, WsTunnel!MessagesIntact and
\* FramesInOrder: no more requests run than the cap allows, a response reaches the
\* device whole or as an error, and no tunnel mixes up, repeats or cuts a message
\* (http_forward.rs 679-834, 1152-1247; ws_forward.rs 301-363).
ForwardingSound ==
    /\ Http!LoadBounded /\ Http!ResponseWhole
    /\ Ws!MessagesIntact /\ Ws!FramesInOrder

=============================================================================
