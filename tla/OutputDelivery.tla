---------------------------- MODULE OutputDelivery ----------------------------
(***************************************************************************)
(* How the output of a persistent session travels to its viewers: the PTY  *)
(* reader thread with scrollback, terminal mirror and bounded queue        *)
(* (pty.rs, terminal/), the output tick of the daemon that sends each      *)
(* chunk over the data channels and, unless exactly one authenticated      *)
(* channel took it, over the control-plane socket (daemon.rs), the         *)
(* snapshot that a joining viewer resumes from, and the channel table      *)
(* (webrtc_manager.rs).                                                    *)
(*                                                                         *)
(* Chunks are numbered from 1 in the order they are read; a stream offset  *)
(* is the number of chunks before it.  Every stage is first in, first out, *)
(* so a stage is the number of chunks that have passed it.  The reader is  *)
(* a thread of its own; the handlers of the daemon do not interleave with  *)
(* each other, but the tick awaits every send and the reader runs on.  A   *)
(* device has at most one channel of the session in the table.             *)
(***************************************************************************)
EXTENDS Integers, FiniteSets

CONSTANTS
    Viewers,    \* devices that view the session
    NoViewer,   \* nobody is challenged
    Cap,        \* capacity of the output queue
    MaxChunks   \* bound: chunks the shell writes

ASSUME OutputAssumption ==
    /\ IsFiniteSet(Viewers)
    /\ NoViewer \notin Viewers
    /\ Cap \in Nat \ {0}
    /\ MaxChunks \in Nat

VARIABLES
    scrolled,   \* chunks appended to the scrollback
    fed,        \* chunks fed to the mirror: bytes_fed
    enq,        \* chunks put into the queue
    deq,        \* chunks drained from the queue
    done,       \* drained chunks that the tick has dealt with
    ws,         \* the control-plane socket: see Sockets
    chan,       \* the channel of each device in session_channels: see Channels
    closing,    \* devices whose ChannelClosed event is not handled yet
    authed,     \* the session is in authenticated_channels
    pending,    \* the device that pending_auth expects for the session
    owner,      \* mobile_device_id of the session record: who joined last
    joined,     \* devices that resumed over the current connection
    base,       \* base_offset of their snapshot
    missed      \* devices that were not sent a chunk after their snapshot

reader == <<scrolled, fed, enq>>
output == <<deq, done>>
channels == <<chan, closing, authed, pending>>
resume == <<owner, joined, base, missed>>
vars == <<scrolled, fed, enq, deq, done, ws, chan, closing, authed, pending,
          owner, joined, base, missed>>

\* "up": the select loop runs; "rotating": reconnecting with a new token;
\* "down": lost, the clean-up is done
Sockets == {"up", "rotating", "down"}

\* "none":   there is no channel
\* "open":   works
\* "stale":  the device has lost it, the host has not noticed
\* "closed": closed, still in the table
\* "pruned": out of the table after a failed send, not closed
Channels == {"none", "open", "stale", "closed", "pruned"}

\* The channel table holds channels of viewers that have joined.
TypeOK ==
    /\ scrolled \in 0 .. MaxChunks
    /\ fed \in Nat /\ enq \in Nat /\ deq \in Nat /\ done \in Nat
    /\ ws \in Sockets
    /\ chan \in [Viewers -> Channels]
    /\ closing \subseteq Viewers
    /\ authed \in BOOLEAN
    /\ pending \in Viewers \cup {NoViewer}
    /\ owner \in Viewers \cup {NoViewer}
    /\ joined \subseteq Viewers
    /\ base \in [Viewers -> Nat]
    /\ missed \subseteq joined
    /\ \A v \in Viewers : chan[v] # "none" => v \in joined

Init ==
    /\ scrolled = 0 /\ fed = 0 /\ enq = 0 /\ deq = 0 /\ done = 0
    /\ ws = "up"
    /\ chan = [v \in Viewers |-> "none"]
    /\ closing = {}
    /\ authed = FALSE /\ pending = NoViewer
    /\ owner = NoViewer /\ joined = {}
    /\ base = [v \in Viewers |-> 0]
    /\ missed = {}

-----------------------------------------------------------------------------
(* The reader thread                                                       *)

\* The shell has written a chunk; it is appended to the scrollback.
Read ==
    /\ scrolled < MaxChunks
    /\ scrolled = enq
    /\ scrolled' = scrolled + 1
    /\ UNCHANGED <<fed, enq, output, ws, channels, resume>>

\* TerminalMirror::feed, under the lock that gives the chunk its offset.
Feed ==
    /\ fed < scrolled
    /\ fed' = fed + 1
    /\ UNCHANGED <<scrolled, enq, output, ws, channels, resume>>

\* Mutant of Enqueue: the chunk is sent before the mirror has seen it.
EnqueueUnfed ==
    /\ enq < scrolled
    /\ enq - deq < Cap
    /\ enq' = enq + 1
    /\ UNCHANGED <<scrolled, fed, output, ws, channels, resume>>

\* The bounded send; it blocks while the queue is full.
Enqueue ==
    /\ enq < fed
    /\ enq - deq < Cap
    /\ enq' = enq + 1
    /\ UNCHANGED <<scrolled, fed, output, ws, channels, resume>>

-----------------------------------------------------------------------------
(* The output tick                                                         *)

\* Between two handlers of the select loop.
Selecting == ws = "up" /\ done = deq

\* Mutant of DrainOutput: nothing is drained while nobody has joined.
DrainOutputJoined ==
    /\ Selecting
    /\ joined # {}
    /\ deq < enq
    /\ deq' = enq
    /\ UNCHANGED <<reader, done, ws, channels, resume>>

\* drain_output empties the queue; the reader may fill it again at once.
DrainOutput ==
    /\ Selecting
    /\ deq < enq
    /\ deq' = enq
    /\ UNCHANGED <<reader, done, ws, channels, resume>>

InTable(ch) == {v \in Viewers : ch[v] \in {"open", "stale", "closed"}}

\* broadcast on the channels ch: those of took take the data, a stale one may
\* seem to; the others are pruned.
Taken(ch, took) == took \subseteq {v \in Viewers : ch[v] \in {"open", "stale"}}

Broadcast(ch, took) ==
    [v \in Viewers |-> IF v \in InTable(ch) \ took THEN "pruned" ELSE ch[v]]

\* Mutant of ChannelSuffices: the result of the send is ignored.
ChannelSufficesUnsent(took) ==
    Cardinality(InTable(chan)) = 1 /\ authed

\* The fallback over the socket is skipped.
ChannelSuffices(took) ==
    /\ took # {}
    /\ Cardinality(InTable(Broadcast(chan, took))) = 1
    /\ authed

\* What a lost socket leaves behind: every peer is closed, all viewers have to
\* join again.  authenticated_channels and pending_auth are not touched.
CleanUp ==
    /\ ws' = "down"
    /\ closing' = closing \cup {v \in Viewers : chan[v] # "none"}
    /\ chan' = [v \in Viewers |-> "none"]
    /\ joined' = {}
    /\ missed' = {}
    /\ base' = [v \in Viewers |-> 0]
    /\ UNCHANGED <<authed, pending, owner>>

\* Viewers the data channels serve.
Receives(took) == {v \in took : chan[v] = "open"}

\* The next chunk of the batch is broadcast, and goes over the socket too
\* unless the channel suffices.
FanOut(took) ==
    /\ ws = "up"
    /\ done < deq
    /\ Taken(chan, took)
    /\ chan' = Broadcast(chan, took)
    /\ done' = done + 1
    /\ missed' = IF ChannelSuffices(took)
                 THEN missed \cup {v \in joined \ Receives(took) : done + 1 > base[v]}
                 ELSE missed
    /\ UNCHANGED <<reader, deq, ws, closing, authed, pending, owner, joined, base>>

\* The fallback fails: the rest of the batch is dropped with the connection.
FanOutFails(took) ==
    /\ ws = "up"
    /\ done < deq
    /\ Taken(chan, took)
    /\ ~ChannelSuffices(took)
    /\ done' = deq
    /\ CleanUp
    /\ UNCHANGED <<reader, deq>>

-----------------------------------------------------------------------------
(* The other handlers                                                      *)

\* Mutant of Join: the snapshot of an earlier join is sent again.
JoinOnceOnly(v) ==
    /\ Selecting
    /\ owner' = v
    /\ joined' = joined \cup {v}
    /\ base' = [base EXCEPT ![v] = IF v \in joined THEN @ ELSE fed]
    /\ missed' = missed \ {v}
    /\ UNCHANGED <<reader, output, ws, channels>>

\* session_join with resume_protocol 2: the mirror is captured, the record
\* becomes the record of device v.
Join(v) ==
    /\ Selecting
    /\ owner' = v
    /\ joined' = joined \cup {v}
    /\ base' = [base EXCEPT ![v] = fed]
    /\ missed' = missed \ {v}
    /\ UNCHANGED <<reader, output, ws, channels>>

\* poll_events finds a terminal channel; ChannelOpened challenges the device
\* that the record names, on all channels of the session.
ChannelOpened(v, took) ==
    LET opened == [chan EXCEPT ![v] = "open"]
    IN /\ Selecting
       /\ v \in joined
       /\ chan[v] = "none"
       /\ Taken(opened, took)
       /\ chan' = Broadcast(opened, took)
       /\ pending' = owner
       /\ UNCHANGED <<reader, output, ws, closing, authed, resume>>

\* The answer of device v to a challenge; all channels get the auth_result.
AuthResponse(v, took) ==
    /\ Selecting
    /\ chan[v] \in {"open", "pruned"}
    /\ Taken(chan, took)
    /\ chan' = Broadcast(chan, took)
    /\ pending' = NoViewer
    /\ authed' = (authed \/ v = pending)
    /\ UNCHANGED <<reader, output, ws, closing, resume>>

\* ChannelClosed: closed channels are pruned, the session has to authenticate
\* again.
ChannelClosed(v) ==
    /\ Selecting
    /\ v \in closing
    /\ closing' = closing \ {v}
    /\ chan' = [u \in Viewers |-> IF chan[u] = "closed" THEN "none" ELSE chan[u]]
    /\ authed' = FALSE
    /\ pending' = NoViewer
    /\ UNCHANGED <<reader, output, ws, resume>>

\* poll_events closes the peer of a device after a failure or too long a
\* disconnection, or a new offer replaces it.
PeerClosed(v) ==
    /\ Selecting
    /\ chan[v] # "none"
    /\ chan' = [chan EXCEPT ![v] = "none"]
    /\ closing' = closing \cup {v}
    /\ UNCHANGED <<reader, output, ws, authed, pending, resume>>

\* The heartbeat rotated the token: channels and viewers stay.
TokenRotated ==
    /\ Selecting
    /\ ws' = "rotating"
    /\ UNCHANGED <<reader, output, channels, resume>>

\* The socket fails outside the output tick.
SocketFails ==
    /\ Selecting
    /\ CleanUp
    /\ UNCHANGED <<reader, output>>

Connect ==
    /\ ws \in {"rotating", "down"}
    /\ ws' = "up"
    /\ UNCHANGED <<reader, output, channels, resume>>

-----------------------------------------------------------------------------
(* The network                                                             *)

GoesStale(v) ==
    /\ chan[v] = "open"
    /\ chan' = [chan EXCEPT ![v] = "stale"]
    /\ UNCHANGED <<reader, output, ws, closing, authed, pending, resume>>

\* The device closes its channel, or the transport notices the loss.
RemoteCloses(v) ==
    /\ chan[v] \in {"open", "stale", "pruned"}
    /\ chan' = [chan EXCEPT ![v] = IF @ = "pruned" THEN "none" ELSE "closed"]
    /\ closing' = closing \cup {v}
    /\ UNCHANGED <<reader, output, ws, authed, pending, resume>>

Next ==
    \/ Read \/ Feed \/ Enqueue
    \/ DrainOutput
    \/ \E took \in SUBSET Viewers : FanOut(took) \/ FanOutFails(took)
    \/ \E v \in Viewers :
          \/ \E took \in SUBSET Viewers : ChannelOpened(v, took) \/ AuthResponse(v, took)
          \/ Join(v) \/ ChannelClosed(v) \/ PeerClosed(v)
          \/ GoesStale(v) \/ RemoteCloses(v)
    \/ TokenRotated \/ SocketFails \/ Connect

Spec == Init /\ [][Next]_vars

\* The reader thread runs; the tick fires again and again while a connection
\* lasts, each of its sends ends (broadcast after 500 ms), and the outer loop
\* reconnects for ever.
Fairness ==
    /\ WF_vars(Feed)
    /\ WF_vars(Enqueue)
    /\ SF_vars(DrainOutput)
    /\ WF_vars(\E took \in SUBSET Viewers : FanOut(took) \/ FanOutFails(took))
    /\ WF_vars(Connect)

LiveSpec == Spec /\ Fairness

-----------------------------------------------------------------------------
(* Properties                                                              *)

\* No stage of the pipeline overtakes the one before it: what is in the queue
\* is in the mirror, what is in the mirror is in the scrollback; the reader is
\* at most one chunk ahead of a queue that never exceeds its capacity.
Pipeline ==
    /\ done <= deq /\ deq <= enq /\ enq <= fed /\ fed <= scrolled
    /\ scrolled <= enq + 1
    /\ enq - deq <= Cap

\* A snapshot contains every chunk that was drained before the viewer joined,
\* whether it was sent or dropped with a lost socket: resuming never needs a
\* chunk that is gone.
ResumeCovers == [][\A v \in Viewers : Join(v) => deq <= base'[v]]_vars

\* As long as one device alone has joined it gets every chunk after its
\* snapshot, over its channel or over the socket, however channels are opened,
\* pruned, closed and authenticated; unless its own channel is dead and still
\* seems to take the data.
SoleViewerServed ==
    [][\A v \in Viewers : joined = {v} /\ v \in missed' \ missed => chan[v] = "stale"]_vars

\* Whatever the shell writes leaves the host in the end: a full queue that
\* blocks the reader is drained again, with or without viewers and across
\* reconnects.
OutputFlows == \A n \in 1 .. MaxChunks : scrolled >= n ~> done >= n

=============================================================================
