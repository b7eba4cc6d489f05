------------------------------ MODULE WsTunnel ------------------------------
(***************************************************************************)
(* WebSockets of a page on the device, tunnelled to a server on this host: *)
(* the WsOpen, WsData and WsClose arms of HttpForwardSession::ingest       *)
(* (http_forward.rs), forward_ws and relay_loop (ws_forward.rs) and the    *)
(* pump of daemon.rs.                                                      *)
(*                                                                         *)
(* The page says the fragments of Script, in order; the select loop hands  *)
(* them to the relay with try_send, and drops what does not fit.  A        *)
(* fragment is known by its place in Script.  An id is used for one        *)
(* tunnel.                                                                 *)
(***************************************************************************)
EXTENDS Integers, Sequences, FiniteSets, SequencesExt

CONSTANTS
    Ids,        \* tunnels
    Script,     \* the page's fragments on each: TRUE is the last one of a message
    Cap,        \* MAX_CONCURRENT_WS
    BufCap,     \* events between the select loop and the relay
    MsgMax,     \* WS_MSG_MAX_BYTES, in fragments
    OutCap      \* frames between the relay and the pump

WsAssumption ==
    /\ Script \in [Ids -> Seq(BOOLEAN)]
    /\ Cap \in Nat /\ BufCap \in Nat /\ MsgMax \in Nat /\ OutCap \in Nat

VARIABLES
    streams,    \* ws_streams: the tunnels whose sender the session holds
    buf,        \* client_rx of each tunnel
    relay,      \* its task: see Relays
    partial,    \* fragments of the message that is being put together
    chunks,     \* fragments of the server's message that are still to be sent
    out,        \* frames on their way to the pump
    server,     \* what the server got: messages, each the fragments it is made of
    up,         \* the connection to the server: "none", "open", "closed"
    said,       \* number of fragments that the page has sent
    lost,       \* a fragment of the page was dropped
    sent,       \* frames that went to the device
    open        \* the data channel

page == <<streams, said, lost>>
task == <<relay, partial, chunks, out>>
vars == <<page, buf, task, server, up, sent, open>>

\* "connect": from the allowlist to the handshake; "up": relay_loop; "done".
Relays == {"none", "connect", "up", "done"}

Init ==
    /\ streams = {} /\ buf = [i \in Ids |-> <<>>]
    /\ relay = [i \in Ids |-> "none"] /\ partial = [i \in Ids |-> <<>>]
    /\ chunks = [i \in Ids |-> 0] /\ out = [i \in Ids |-> <<>>]
    /\ server = [i \in Ids |-> <<>>] /\ up = [i \in Ids |-> "none"]
    /\ said = [i \in Ids |-> 0] /\ lost = [i \in Ids |-> FALSE]
    /\ sent = [i \in Ids |-> <<>>] /\ open = TRUE

Update(f, i, v) == [f EXCEPT ![i] = v]

-----------------------------------------------------------------------------
(* HttpForwardSession::ingest                                              *)

\* reap_closed_ws: the relay has dropped its receiver.
Reaped == {i \in streams : relay[i] # "done"}

WsOpen(i) ==
    /\ open /\ relay[i] = "none" /\ sent[i] = <<>>
    /\ streams' = IF Cardinality(Reaped) >= Cap THEN Reaped ELSE Reaped \cup {i}
    /\ IF Cardinality(Reaped) >= Cap
       THEN sent' = Update(sent, i, <<"error">>) /\ UNCHANGED relay
       ELSE relay' = Update(relay, i, "connect") /\ UNCHANGED sent
    /\ UNCHANGED <<said, lost, buf, partial, chunks, out, server, up, open>>

Takes(i) == relay[i] # "done" /\ Len(buf[i]) < BufCap

WsData(i) ==
    /\ open /\ i \in streams /\ said[i] < Len(Script[i])
    /\ said' = [said EXCEPT ![i] = @ + 1]
    /\ IF Takes(i)
       THEN buf' = [buf EXCEPT ![i] = Append(@, said[i] + 1)] /\ UNCHANGED lost
       ELSE lost' = Update(lost, i, TRUE) /\ UNCHANGED buf
    /\ UNCHANGED <<streams, task, server, up, sent, open>>

\* The event of WsClose, which is no fragment.
Close == 0

\* The sender goes with the entry, whether or not the event still fits.
WsClose(i) ==
    /\ open /\ i \in streams
    /\ streams' = streams \ {i}
    /\ buf' = IF Takes(i) THEN [buf EXCEPT ![i] = Append(@, Close)] ELSE buf
    /\ UNCHANGED <<said, lost, task, server, up, sent, open>>

\* HttpChannelClosed.
Shutdown ==
    /\ open /\ open' = FALSE /\ streams' = {}
    /\ UNCHANGED <<said, lost, buf, task, server, up, sent>>

-----------------------------------------------------------------------------
(* forward_ws                                                              *)

\* An event is taken before the answer to the handshake is looked at.
Event(i) == buf[i] # <<>>
Abandoned(i) == buf[i] = <<>> /\ i \notin streams

Ends(i, frame) ==
    /\ relay' = Update(relay, i, "done")
    /\ out' = [out EXCEPT ![i] = Append(@, frame)]

\* Not exposed, no handshake, no answer in time; closed or abandoned by the page.
OpenFails(i) ==
    /\ relay[i] = "connect" /\ Ends(i, "error")
    /\ buf' = Update(buf, i, <<>>)
    /\ UNCHANGED <<page, partial, chunks, server, up, sent, open>>

\* Data before the server is connected is dropped.
OpenDrops(i) ==
    /\ relay[i] = "connect" /\ Event(i) /\ Head(buf[i]) # Close
    /\ buf' = [buf EXCEPT ![i] = Tail(@)] /\ lost' = Update(lost, i, TRUE)
    /\ UNCHANGED <<streams, said, task, server, up, sent, open>>

OpenOk(i) ==
    /\ relay[i] = "connect" /\ ~Event(i) /\ i \in streams
    /\ relay' = Update(relay, i, "up") /\ up' = Update(up, i, "open")
    /\ out' = [out EXCEPT ![i] = Append(@, "ok")]
    /\ UNCHANGED <<page, buf, partial, chunks, server, sent, open>>

-----------------------------------------------------------------------------
(* relay_loop                                                              *)

Idle(i) == relay[i] = "up" /\ chunks[i] = 0
Room(i) == Len(out[i]) < OutCap

\* A message of the server: an empty one is one fragment too.
ServerSpeaks(i) ==
    /\ Idle(i) /\ up[i] = "open" /\ ~Contains(sent[i] \o out[i], "fin")
    /\ \E size \in 0..2 : chunks' = Update(chunks, i, IF size = 0 THEN 1 ELSE size)
    /\ UNCHANGED <<page, buf, relay, partial, out, server, up, sent, open>>

\* send_chunked waits for room; a pump that has ended closes the tunnel.
SendChunk(i) ==
    /\ relay[i] = "up" /\ chunks[i] > 0
    /\ IF open THEN
           /\ Room(i)
           /\ out' = [out EXCEPT ![i] = Append(@, IF chunks[i] = 1 THEN "fin" ELSE "more")]
           /\ chunks' = [chunks EXCEPT ![i] = @ - 1]
           /\ UNCHANGED <<relay, up, buf>>
       ELSE
           /\ relay' = Update(relay, i, "done") /\ chunks' = Update(chunks, i, 0)
           /\ up' = Update(up, i, "closed") /\ buf' = Update(buf, i, <<>>)
           /\ UNCHANGED out
    /\ UNCHANGED <<page, partial, server, sent, open>>

\* The close frame waits for room too.
Stops(i) ==
    /\ Room(i) /\ Ends(i, "close")
    /\ up' = Update(up, i, "closed") /\ buf' = Update(buf, i, <<>>)
    /\ UNCHANGED <<page, partial, chunks, server, sent, open>>

ServerCloses(i) == Idle(i) /\ Stops(i)

\* A fragment of the page: the last one hands the message to the server.
RelayData(i) ==
    /\ Idle(i) /\ Event(i) /\ Head(buf[i]) # Close /\ Len(partial[i]) < MsgMax
    /\ LET whole == Append(partial[i], Head(buf[i]))
           fin == Script[i][Head(buf[i])] IN
        /\ partial' = Update(partial, i, IF fin THEN <<>> ELSE whole)
        /\ server' = IF fin THEN [server EXCEPT ![i] = Append(@, whole)] ELSE server
    /\ buf' = [buf EXCEPT ![i] = Tail(@)]
    /\ UNCHANGED <<page, relay, chunks, out, up, sent, open>>

\* Too large, not UTF-8 when it is whole, or a server that takes no more.
RelayRefuses(i) == Idle(i) /\ Event(i) /\ Head(buf[i]) # Close /\ Stops(i)

\* The page's close is passed on, and echoed.
RelayEchoes(i) == Idle(i) /\ Event(i) /\ Head(buf[i]) = Close /\ Stops(i)

\* The sender is gone: the server's side is closed without a word to the page.
RelayAbandoned(i) ==
    /\ Idle(i) /\ Abandoned(i)
    /\ relay' = Update(relay, i, "done") /\ up' = Update(up, i, "closed")
    /\ UNCHANGED <<page, buf, partial, chunks, out, server, sent, open>>

\* pump_forward_outcome: a send that fails on the closed channel ends it.
PumpSends(i) ==
    /\ out[i] # <<>>
    /\ IF open
       THEN sent' = [sent EXCEPT ![i] = Append(@, Head(out[i]))] /\ out' = [out EXCEPT ![i] = Tail(@)]
       ELSE out' = Update(out, i, <<>>) /\ UNCHANGED sent
    /\ UNCHANGED <<page, buf, relay, partial, chunks, server, up, open>>

-----------------------------------------------------------------------------

Relay(i) ==
    \/ OpenFails(i) \/ OpenDrops(i) \/ OpenOk(i) \/ SendChunk(i)
    \/ RelayData(i) \/ RelayRefuses(i) \/ RelayEchoes(i) \/ RelayAbandoned(i)

Next ==
    \/ Shutdown
    \/ \E i \in Ids :
          \/ WsOpen(i) \/ WsData(i) \/ WsClose(i)
          \/ Relay(i) \/ ServerSpeaks(i) \/ ServerCloses(i) \/ PumpSends(i)

\* Tasks are scheduled, the handshake has a timeout, and the server reads, or
\* fails, sometime.
Fairness == \A i \in Ids : WF_vars(Relay(i)) /\ WF_vars(PumpSends(i))

Spec == Init /\ [][Next]_vars /\ Fairness

-----------------------------------------------------------------------------
(* Properties                                                              *)

\* The place of the last fragment that the server got in its first k messages.
Upto(i, k) == IF k = 0 THEN 0 ELSE Last(server[i][k])

\* What the server gets are the page's fragments, none of them twice and none
\* out of order, each message up to a last fragment and with no other in it;
\* and as long as no fragment was dropped, whole messages, the first ones that
\* the page has sent (ws_forward.rs 301-347).
MessagesIntact ==
    \A i \in Ids : \A k \in DOMAIN server[i] :
        LET m == server[i][k] IN
        /\ m # <<>>
        /\ \A a \in DOMAIN m :
              /\ m[a] \in (Upto(i, k - 1) + 1) .. said[i]
              /\ Script[i][m[a]] <=> a = Len(m)
              /\ \A b \in DOMAIN m : a < b => m[a] < m[b]
              /\ ~lost[i] => m[a] = Upto(i, k - 1) + a

\* The device gets an error, or ok, whole messages and at most one close that
\* comes last and never within a message ("then exactly one WsClose",
\* ws_forward.rs 77).
FramesInOrder ==
    \A i \in Ids :
        LET s == sent[i] IN
        \A k \in DOMAIN s :
            /\ s[k] \in {"error", "close"} => k = Len(s)
            /\ s[k] \in {"ok", "error"} <=> k = 1
            /\ s[k] = "close" => s[k - 1] # "more"

LetGo(i) == i \notin streams /\ relay[i] # "none"
Ended(i) == relay[i] = "done" /\ up[i] # "open"

\* A tunnel that the page has closed, or that lost its channel, does not stay
\* connected to the server, even when the close itself did not fit into the
\* buffer (ws_forward.rs 348-363, http_forward.rs 802-807).
TunnelEnds == \A i \in Ids : LetGo(i) ~> Ended(i)

=============================================================================
