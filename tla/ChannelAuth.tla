----------------------------- MODULE ChannelAuth -----------------------------
(***************************************************************************)
(* The data channels of the devices and their authentication: the channel  *)
(* tables and callbacks of webrtc_manager.rs, the challenge and response   *)
(* of daemon/auth.rs, and the WebRtcEvent arms of the select loop that     *)
(* open, authenticate, use and close channels (daemon.rs).                 *)
(*                                                                         *)
(* Callbacks of a channel only send events; the loop handles the events of *)
(* all channels in the order they were sent.  What is authenticated is not *)
(* a channel but a key: the session for a terminal, the device for stats,  *)
(* files, control and agent channels (and the agent, of which there is one *)
(* here), the channel itself for http.  A challenge is named by the        *)
(* channel whose opening issued it.                                        *)
(***************************************************************************)
EXTENDS Integers, Sequences, FiniteSets

CONSTANTS
    Devices,    \* mobile devices
    NoDevice,   \* no session record names a device
    Revocable,  \* bound: the devices that are ever revoked
    Grants,     \* permissions of each device
    Layouts,    \* bound: which channel is of which kind
    Ids,        \* bound: the channels that are ever opened, positive numbers
    MaxEvents   \* bound: events in the queue

ChannelAssumption ==
    /\ IsFiniteSet(Devices) /\ NoDevice \notin Devices
    /\ Revocable \subseteq Devices
    /\ Grants \in [Devices -> SUBSET {"shell", "stats"}]
    /\ Layouts \subseteq [Ids -> {"terminal", "http", "stats", "files", "control", "agent"}]
    /\ Ids \subseteq Nat \ {0}
    /\ MaxEvents \in Nat \ {0}

VARIABLES
    dev, kind,  \* device and label of each channel
    st,         \* where a channel stands: see Stages
    tables,     \* channels in the tables of WebRtcManager
    events,     \* the event queue
    chal,       \* the last challenge that reached the device over the channel
    pending,    \* pending_auth: the challenge of each key, 0 if none
    expects,    \* the device that pending_auth names with it
    authed,     \* authenticated_channels
    forwards,   \* http_forward_sessions: the channel it was made for, 0 if none
    owner,      \* mobile_device_id of the session record
    trusted,    \* trusted devices in the memory of the daemon
    disk,       \* trusted devices in the state file
    revoked,    \* devices that the backend reports as revoked
    byCli,      \* devices that the command line has revoked
    proven,     \* channels whose device has answered its challenge
    accepted    \* channels with a message that was acted upon

channelVars == <<dev, kind, st, tables, chal>>
authVars == <<pending, expects, authed, forwards, proven, accepted>>
trustVars == <<trusted, disk, revoked, byCli>>
vars == <<channelVars, events, authVars, owner, trustVars>>

DeviceKinds == {"stats", "files", "control", "agent"}
Kinds == DeviceKinds \cup {"terminal", "http"}

\* "unused":  not opened yet
\* "queued":  open, its peer has not been polled
\* "stillborn": closed before its peer was polled
\* "open":    handlers are registered
\* "closing": the host closes it
\* "closed":  the close event has been sent, or never will be
\* "gone":    the close event has been handled
Stages == {"unused", "queued", "stillborn", "open", "closing", "closed", "gone"}

Keys ==
    {<<"terminal">>} \cup (DeviceKinds \X Devices)
        \cup ({"http"} \X Devices \X Ids)

\* What is authenticated when the device of c answers.
Key(c) ==
    IF kind[c] = "terminal" THEN <<"terminal">>
    ELSE IF kind[c] = "http" THEN <<"http", dev[c], c>>
    ELSE <<kind[c], dev[c]>>

\* Keys that contain the id of device d.
KeysOf(d) == {k \in Keys : Len(k) > 1 /\ k[2] = d}

HttpKeys(d) == {k \in KeysOf(d) : k[1] = "http"}

Event(t, c) == [type |-> t, chan |-> c, answers |-> 0]

EventTypes == {"opened", "closed", "answer", "data"}

\* The tables hold channels whose callbacks are set.
TypeOK ==
    /\ dev \in [Ids -> Devices] /\ kind \in [Ids -> Kinds]
    /\ st \in [Ids -> Stages]
    /\ tables \subseteq {c \in Ids : st[c] \in {"open", "closed"}}
    /\ events \in Seq([type : EventTypes, chan : Ids, answers : Ids \cup {0}])
    /\ chal \in [Ids -> Ids \cup {0}]
    /\ pending \in [Keys -> Ids \cup {0}] /\ expects \in [Keys -> Devices \cup {NoDevice}]
    /\ authed \subseteq Keys
    /\ forwards \in [Devices -> Ids \cup {0}]
    /\ owner \in Devices \cup {NoDevice}
    /\ trusted \subseteq Devices /\ disk \subseteq Devices
    /\ revoked \subseteq Devices /\ byCli \subseteq Devices
    /\ proven \subseteq Ids /\ accepted \subseteq Ids

Init ==
    /\ dev \in [Ids -> Devices] /\ kind \in Layouts
    /\ st = [c \in Ids |-> "unused"]
    /\ tables = {} /\ events = <<>>
    /\ chal = [c \in Ids |-> 0]
    /\ pending = [k \in Keys |-> 0]
    /\ expects = [k \in Keys |-> NoDevice]
    /\ authed = {}
    /\ forwards = [d \in Devices |-> 0]
    /\ owner = NoDevice
    /\ trusted = Devices /\ disk = Devices /\ revoked = {} /\ byCli = {}
    /\ proven = {} /\ accepted = {}

-----------------------------------------------------------------------------
(* Channels                                                                *)

Room == Len(events) < MaxEvents

\* A channel arrives on a peer, which only a trusted device can have made.
Arrives(c) ==
    /\ st[c] = "unused"
    /\ \A e \in Ids : e < c => st[e] # "unused"
    /\ dev[c] \in trusted
    /\ st' = [st EXCEPT ![c] = "queued"]
    /\ UNCHANGED <<dev, kind, tables, chal, events, authVars, owner, trustVars>>

\* handle_new_channel: the channel enters its table, its callbacks are set.
\* A channel that has closed by now never runs its close callback.
NewChannel(c) ==
    /\ Room
    /\ st[c] \in {"queued", "stillborn"}
    /\ st' = [st EXCEPT ![c] = IF @ = "queued" THEN "open" ELSE "closed"]
    /\ tables' = tables \cup {c}
    /\ events' = Append(events, Event("opened", c))
    /\ UNCHANGED <<dev, kind, chal, authVars, owner, trustVars>>

NewStatsChannel(c) == kind[c] = "stats" /\ NewChannel(c)
NewControlChannel(c) == kind[c] = "control" /\ NewChannel(c)
NewAgentChannel(c) == kind[c] = "agent" /\ NewChannel(c)
NewHttpChannel(c) == kind[c] = "http" /\ NewChannel(c)
NewFilesChannel(c) == kind[c] = "files" /\ NewChannel(c)
NewTerminalChannel(c) == kind[c] = "terminal" /\ NewChannel(c)

\* The device closes the channel, or its transport is lost.
RemoteCloses(c) ==
    /\ Room
    /\ \/ /\ st[c] = "queued"
          /\ st' = [st EXCEPT ![c] = "stillborn"]
          /\ UNCHANGED events
       \/ /\ st[c] = "open"
          /\ st' = [st EXCEPT ![c] = "closed"]
          /\ events' = Append(events, Event("closed", c))
    /\ UNCHANGED <<dev, kind, tables, chal, authVars, owner, trustVars>>

\* close_peer: channels that wait for a poll are dropped with the peer, those
\* in the tables are closed by tasks of their own.
ClosePeer(cs) ==
    /\ st' = [c \in Ids |->
                IF c \in cs /\ st[c] = "open" /\ c \in tables THEN "closing"
                ELSE IF c \in cs /\ st[c] \in {"queued", "stillborn"} THEN "gone"
                ELSE st[c]]
    /\ tables' = tables \ cs

\* A peer of device d that carries the channels cs fails, or is replaced.
PeerCloses(d, cs) ==
    /\ cs # {}
    /\ \A c \in cs : dev[c] = d /\ st[c] \in {"queued", "stillborn", "open", "closed"}
    /\ ClosePeer(cs)
    /\ UNCHANGED <<dev, kind, chal, events, authVars, owner, trustVars>>

\* The task that closes a channel runs its close callback.
CloseRuns(c) ==
    /\ Room
    /\ st[c] = "closing"
    /\ st' = [st EXCEPT ![c] = "closed"]
    /\ events' = Append(events, Event("closed", c))
    /\ UNCHANGED <<dev, kind, tables, chal, authVars, owner, trustVars>>

\* The device answers the last challenge it has received over the channel.
Answers(c) ==
    /\ Room
    /\ st[c] = "open" /\ chal[c] # 0
    /\ ~ \E i \in DOMAIN events : events[i].type = "answer" /\ events[i].chan = c
    /\ events' = Append(events, [Event("answer", c) EXCEPT !.answers = chal[c]])
    /\ UNCHANGED <<channelVars, authVars, owner, trustVars>>

Sends(c) ==
    /\ Room
    /\ st[c] = "open"
    /\ ~ \E i \in DOMAIN events : events[i].type = "data" /\ events[i].chan = c
    /\ events' = Append(events, Event("data", c))
    /\ UNCHANGED <<channelVars, authVars, owner, trustVars>>

-----------------------------------------------------------------------------
(* The handlers of the events                                              *)

Handle(t, c) ==
    /\ events # <<>>
    /\ Head(events).type = t /\ Head(events).chan = c
    /\ events' = Tail(events)

\* Closed channels of the kind leave their table.
Prune(c) == tables \ {e \in tables : kind[e] = kind[c] /\ st[e] # "open"}

Challenge(k, c, d) ==
    /\ pending' = [pending EXCEPT ![k] = c]
    /\ expects' = [expects EXCEPT ![k] = d]

\* The challenges of the keys ks are forgotten.
Forget(ks) ==
    /\ pending' = [k \in Keys |-> IF k \in ks THEN 0 ELSE pending[k]]
    /\ expects' = [k \in Keys |-> IF k \in ks THEN NoDevice ELSE expects[k]]

\* ChannelOpened of a terminal: the device of the record is challenged over
\* all channels of the session; a session without a record is not challenged.
TerminalOpened(c) ==
    /\ Handle("opened", c) /\ kind[c] = "terminal"
    /\ IF owner = NoDevice
       THEN UNCHANGED <<pending, expects, chal, tables>>
       ELSE /\ Challenge(Key(c), c, owner)
            /\ tables' = Prune(c)
            /\ chal' = [e \in Ids |-> IF e \in Prune(c) /\ kind[e] = "terminal"
                                      THEN c ELSE chal[e]]
    /\ UNCHANGED <<dev, kind, st, authed, forwards, proven, accepted, owner, trustVars>>

\* A per-device channel is challenged over itself.
DeviceOpened(c) ==
    /\ Handle("opened", c)
    /\ Challenge(Key(c), c, dev[c])
    /\ chal' = [chal EXCEPT ![c] = c]
    /\ UNCHANGED <<dev, kind, st, tables, authed, forwards, proven, accepted, owner, trustVars>>

StatsOpened(c) == kind[c] = "stats" /\ DeviceOpened(c)
FilesOpened(c) == kind[c] = "files" /\ DeviceOpened(c)
ControlOpened(c) == kind[c] = "control" /\ DeviceOpened(c)
AgentOpened(c) == kind[c] = "agent" /\ DeviceOpened(c)

\* Mutant of HttpOpened: the authentication of earlier channels stays.
HttpOpenedKeepsAuth(c) ==
    /\ Handle("opened", c) /\ kind[c] = "http"
    /\ pending' = [k \in Keys |-> IF k = Key(c) THEN c ELSE pending[k]]
    /\ expects' = [expects EXCEPT ![Key(c)] = dev[c]]
    /\ forwards' = [forwards EXCEPT ![dev[c]] = c]
    /\ chal' = [chal EXCEPT ![c] = c]
    /\ UNCHANGED <<dev, kind, st, tables, authed, proven, accepted, owner, trustVars>>

\* HttpChannelOpened: a new forwarding session replaces the old one, and no
\* earlier http channel of the device stays authenticated or challenged.
HttpOpened(c) ==
    /\ Handle("opened", c) /\ kind[c] = "http"
    /\ authed' = authed \ HttpKeys(dev[c])
    /\ pending' = [k \in Keys |-> IF k = Key(c) THEN c
                                  ELSE IF k \in HttpKeys(dev[c]) THEN 0 ELSE pending[k]]
    /\ expects' = [k \in Keys |-> IF k = Key(c) THEN dev[c]
                                  ELSE IF k \in HttpKeys(dev[c]) THEN NoDevice ELSE expects[k]]
    /\ forwards' = [forwards EXCEPT ![dev[c]] = c]
    /\ chal' = [chal EXCEPT ![c] = c]
    /\ UNCHANGED <<dev, kind, st, tables, proven, accepted, owner, trustVars>>

\* Mutant of Deauthenticate: only the challenges are forgotten.
DeauthenticateHalf(ks) ==
    /\ authed' = authed
    /\ Forget(ks)

\* The keys ks are neither authenticated nor challenged any more.
Deauthenticate(ks) ==
    /\ authed' = authed \ ks
    /\ Forget(ks)

\* The close events name a session or a device, not the channel that closed:
\* a successor loses its authentication or its challenge.
Closed(c, ks) ==
    /\ Handle("closed", c)
    /\ st' = [st EXCEPT ![c] = "gone"]
    /\ tables' = Prune(c)
    /\ Deauthenticate(ks)
    /\ UNCHANGED <<dev, kind, chal, proven, accepted, owner, trustVars>>

TerminalClosed(c) == kind[c] = "terminal" /\ Closed(c, {Key(c)}) /\ UNCHANGED forwards
StatsClosed(c) == kind[c] = "stats" /\ Closed(c, {Key(c)}) /\ UNCHANGED forwards
FilesClosed(c) == kind[c] = "files" /\ Closed(c, {Key(c)}) /\ UNCHANGED forwards
ControlClosed(c) == kind[c] = "control" /\ Closed(c, {Key(c)}) /\ UNCHANGED forwards
AgentClosed(c) == kind[c] = "agent" /\ Closed(c, {Key(c)}) /\ UNCHANGED forwards

\* The forwarding session of the device goes too, whoever it belongs to.
HttpClosed(c) ==
    /\ kind[c] = "http"
    /\ Closed(c, HttpKeys(dev[c]))
    /\ forwards' = [forwards EXCEPT ![dev[c]] = 0]

Permission(k) == IF k = "stats" THEN "stats" ELSE "shell"

\* verify_device_auth and device_permission_result: the challenge that the key
\* waits for, signed by the device it was meant for.
Verified(c, n) ==
    /\ pending[Key(c)] = n
    /\ expects[Key(c)] = dev[c]
    /\ dev[c] \in trusted
    /\ Permission(kind[c]) \in Grants[dev[c]]

\* An auth_response.  The challenge is used up, whoever answers and whatever
\* the outcome.
Answered(c) ==
    LET ok == Verified(c, Head(events).answers)
    IN /\ Handle("answer", c)
       /\ Forget({Key(c)})
       /\ authed' = IF ok THEN authed \cup {Key(c)} ELSE authed
       /\ proven' = IF ok THEN proven \cup {c} ELSE proven
       /\ UNCHANGED <<channelVars, forwards, accepted, owner, trustVars>>

InputAnswered(c) == kind[c] = "terminal" /\ Answered(c)
StatsAnswered(c) == kind[c] = "stats" /\ Answered(c)
FilesAnswered(c) == kind[c] = "files" /\ Answered(c)
ControlAnswered(c) == kind[c] = "control" /\ Answered(c)
AgentAnswered(c) == kind[c] = "agent" /\ Answered(c)
HttpAnswered(c) == kind[c] = "http" /\ Answered(c)

Authenticated(c) == Key(c) \in authed

\* Any other message is dropped unless its key is authenticated; one for http
\* also needs a forwarding session.
Message(c) ==
    /\ Handle("data", c)
    /\ accepted' = IF Authenticated(c) /\ (kind[c] = "http" => forwards[dev[c]] # 0)
                   THEN accepted \cup {c} ELSE accepted
    /\ UNCHANGED <<channelVars, pending, expects, authed, forwards, proven, owner, trustVars>>

-----------------------------------------------------------------------------
(* Sessions and trust                                                      *)

\* session_request or session_join makes d the device of the record.
SessionOf(d) ==
    /\ d \in trusted /\ owner # d
    /\ \E c \in Ids : kind[c] = "terminal"
    /\ owner' = d
    /\ UNCHANGED <<channelVars, events, authVars, trustVars>>

\* A device is revoked in the app, or with the command of the host, which
\* removes it from the state file too.
Revoked(d, cli) ==
    /\ d \notin revoked
    /\ revoked' = revoked \cup {d}
    /\ disk' = IF cli THEN disk \ {d} ELSE disk
    /\ byCli' = IF cli THEN byCli \cup {d} ELSE byCli
    /\ UNCHANGED <<channelVars, events, authVars, owner, trusted>>

\* The trust tick: trust is read back from the file, the devices revoked since
\* are removed from it and lose what they had authenticated.
TrustTick ==
    LET ks == UNION {KeysOf(d) : d \in disk \cap revoked}
    IN /\ trusted' = disk \ revoked
       /\ disk' = disk \ revoked
       /\ Deauthenticate(ks)
       /\ UNCHANGED <<channelVars, events, forwards, proven, accepted, owner,
                      revoked, byCli>>

Next ==
    \/ \E c \in Ids :
          \/ NewStatsChannel(c) \/ NewControlChannel(c) \/ NewAgentChannel(c)
          \/ NewHttpChannel(c) \/ NewFilesChannel(c) \/ NewTerminalChannel(c)
          \/ Arrives(c) \/ RemoteCloses(c) \/ CloseRuns(c)
          \/ Answers(c) \/ Sends(c)
          \/ TerminalOpened(c) \/ StatsOpened(c) \/ FilesOpened(c)
          \/ ControlOpened(c) \/ AgentOpened(c) \/ HttpOpened(c)
          \/ TerminalClosed(c) \/ StatsClosed(c) \/ FilesClosed(c)
          \/ ControlClosed(c) \/ AgentClosed(c) \/ HttpClosed(c)
          \/ InputAnswered(c) \/ StatsAnswered(c) \/ FilesAnswered(c)
          \/ ControlAnswered(c) \/ AgentAnswered(c) \/ HttpAnswered(c)
          \/ Message(c)
    \/ \E d \in Devices :
          \/ \E cs \in SUBSET Ids : PeerCloses(d, cs)
          \/ SessionOf(d)
    \/ \E d \in Revocable, cli \in BOOLEAN : Revoked(d, cli)
    \/ TrustTick

Spec == Init /\ [][Next]_vars

-----------------------------------------------------------------------------
(* Properties                                                              *)

\* Authentication does not outlive the channel that earned it: as long as a key
\* is authenticated, the close event of a channel that answered for the key is
\* still to be handled (ChannelClosed and its variants).
AuthHasChannel ==
    \A k \in authed : \E c \in proven : Key(c) = k /\ st[c] # "gone"

\* An authenticated http channel is the one that the forwarding session of its
\* device was made for, so that a device has at most one of them
\* (HttpChannelOpened, HttpChannelClosed).
HttpSessionMatches ==
    \A d \in Devices, c \in Ids : <<"http", d, c>> \in authed => forwards[d] = c

\* An http channel carries requests only after its own device answered the
\* challenge of that very channel (HttpForwardMessage).
HttpEarned ==
    \A c \in accepted : kind[c] = "http" => c \in proven

\* A device that is no longer trusted, other than by the command of the host,
\* has nothing authenticated that is keyed by its id (the trust tick).
RevokedSilenced ==
    \A d \in Devices \ (trusted \cup byCli) : KeysOf(d) \cap authed = {}

=============================================================================
