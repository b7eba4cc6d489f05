---------------------------- MODULE HostTransfer ----------------------------
(***************************************************************************)
(* A file that a device has one host send directly to another: the         *)
(* host_transfer_* messages and DirectHostTransferEvent of the select      *)
(* loops of the two hosts (daemon.rs), and the callbacks of the data       *)
(* channel between them (bind_outbound_host_transfer_channel and           *)
(* bind_inbound_host_transfer_channel, daemon/files.rs).                   *)
(*                                                                         *)
(* There is one transfer id.  The device may request it again: each time   *)
(* is an attempt, which the offer id tells apart.  Signals are relayed by  *)
(* the backend, late, or not at all.  The channel is reliable and ordered  *)
(* until it closes.                                                        *)
(***************************************************************************)
EXTENDS Integers, Sequences, FiniteSets

CONSTANTS
    Attempts,   \* 1..n
    Size,       \* chunks of the source file at each request
    Grown,      \* chunks it has at most when it is read
    HighWater,  \* DIRECT_TRANSFER_BUFFER_HIGH_WATER, in frames
    Faults      \* bound on lost signals, cancels, expiries and breaks

TransferAssumption ==
    /\ Attempts \subseteq Nat \ {0}
    /\ Size \in [Attempts -> Nat] /\ Grown \in [Attempts -> Nat]
    /\ HighWater \in Nat /\ Faults \in Nat

VARIABLES
    out, inb,   \* the attempt in outbound_ and inbound_host_transfers, or 0
    net,        \* signals in transit: <<type, attempt>>
    answer,     \* the answer that the peer of each attempt was given, or 0
    chan,       \* its channel: "none", "offered", "connecting", "open", "closed"
    heard,      \* the hosts whose on_close has run
    wire, back, \* frames and results in the channel
    task,       \* on_open: "idle", "sending", "await", "done"
    read,       \* chunks it has read
    slot,       \* result_tx: "empty" or the first result
    upload,     \* upload_state: chunks written, or -1
    tmp,        \* attempts whose temporary file exists
    file,       \* the destination: [by, size]; by 0 is the file before
    srcEvents, dstEvents,   \* direct_transfer_event_rx of the two hosts
    results,    \* what the device is told: <<status, attempt>>
    requested,  \* number of requests
    faults      \* lost signals, cancels, expiries and breaks so far

signals == <<out, inb, net, answer, requested>>
source == <<task, read, slot>>
target == <<upload, tmp, file>>
channel == <<chan, heard, wire, back>>
events == <<srcEvents, dstEvents, results>>
vars == <<signals, source, target, channel, events, faults>>

Init ==
    /\ out = 0 /\ inb = 0 /\ net = {} /\ requested = 0
    /\ answer = [a \in Attempts |-> 0] /\ chan = [a \in Attempts |-> "none"]
    /\ heard = [a \in Attempts |-> {}]
    /\ wire = [a \in Attempts |-> <<>>] /\ back = [a \in Attempts |-> <<>>]
    /\ task = [a \in Attempts |-> "idle"] /\ read = [a \in Attempts |-> 0]
    /\ slot = [a \in Attempts |-> "empty"]
    /\ upload = [a \in Attempts |-> -1] /\ tmp = {} /\ file = [by |-> 0, size |-> 0]
    /\ srcEvents = <<>> /\ dstEvents = <<>> /\ results = {}
    /\ faults = 0

Fault == faults < Faults /\ faults' = faults + 1

Failed(a) == [type |-> "result", status |-> "error", attempt |-> a]
Done(a) == [type |-> "result", status |-> "ok", attempt |-> a]
Cleanup == [type |-> "cleanup"]

-----------------------------------------------------------------------------
(* Signals                                                                 *)

\* host_transfer_request refused: trust, fields, attestation, file, TURN, peer.
RequestRefused(a) ==
    /\ requested + 1 = a /\ requested' = a
    /\ srcEvents' = Append(srcEvents, Failed(a))
    /\ UNCHANGED <<out, inb, net, answer, source, target, channel, dstEvents, results, faults>>

\* The entry of an earlier attempt is replaced; its peer is not closed.
Request(a) ==
    /\ requested + 1 = a /\ requested' = a
    /\ out' = a /\ chan' = [chan EXCEPT ![a] = "offered"]
    /\ net' = net \cup {<<"offer", a>>}
    /\ UNCHANGED <<inb, answer, source, target, heard, wire, back, events, faults>>

\* host_transfer_offer: the target tells the device itself when it refuses.
OfferRefused(a) ==
    /\ <<"offer", a>> \in net /\ net' = net \ {<<"offer", a>>}
    /\ results' = results \cup {<<"error", a>>}
    /\ UNCHANGED <<out, inb, answer, requested, source, target, channel, srcEvents, dstEvents, faults>>

Offer(a) ==
    /\ <<"offer", a>> \in net
    /\ inb' = a /\ net' = (net \ {<<"offer", a>>}) \cup {<<"answer", a>>}
    /\ UNCHANGED <<out, answer, requested, source, target, channel, events, faults>>

\* Mutant: the offer id is not compared.
AnswerOfAny(a) ==
    /\ <<"answer", a>> \in net /\ net' = net \ {<<"answer", a>>}
    /\ IF out # 0 /\ chan[out] = "offered" THEN
           /\ answer' = [answer EXCEPT ![out] = a]
           /\ chan' = [chan EXCEPT ![out] = "connecting"]
       ELSE UNCHANGED <<answer, chan>>
    /\ UNCHANGED <<out, inb, requested, source, target, heard, wire, back, events, faults>>

\* host_transfer_answer: only for the attempt that is current.
Answer(a) ==
    /\ <<"answer", a>> \in net /\ net' = net \ {<<"answer", a>>}
    /\ IF out = a /\ chan[a] = "offered" THEN
           /\ answer' = [answer EXCEPT ![a] = a]
           /\ chan' = [chan EXCEPT ![a] = "connecting"]
       ELSE UNCHANGED <<answer, chan>>
    /\ UNCHANGED <<out, inb, requested, source, target, heard, wire, back, events, faults>>

SignalLost ==
    /\ \E s \in net : net' = net \ {s}
    /\ Fault
    /\ UNCHANGED <<out, inb, answer, requested, source, target, channel, events>>

\* peer.close(): what was in the channel is gone.
Closed(a) ==
    /\ chan' = [chan EXCEPT ![a] = "closed"]
    /\ wire' = [wire EXCEPT ![a] = <<>>] /\ back' = [back EXCEPT ![a] = <<>>]

\* host_transfer_cancel at the host that has the outbound entry.
CancelSource ==
    /\ out # 0 /\ out' = 0
    /\ srcEvents' = Append(srcEvents, Failed(out)) /\ Closed(out)
    /\ Fault
    /\ UNCHANGED <<inb, net, answer, requested, source, target, heard, dstEvents, results>>

CancelTarget ==
    /\ inb # 0 /\ inb' = 0 /\ Closed(inb)
    /\ Fault
    /\ UNCHANGED <<out, net, answer, requested, source, target, heard, events>>

\* The discovery tick forgets an entry that is too old; its peer is not closed.
Expire ==
    /\ \/ out # 0 /\ out' = 0 /\ UNCHANGED inb
       \/ inb # 0 /\ inb' = 0 /\ UNCHANGED out
    /\ Fault
    /\ UNCHANGED <<net, answer, requested, source, target, channel, events>>

-----------------------------------------------------------------------------
(* The source: bind_outbound_host_transfer_channel                         *)

\* on_open runs once.
Opens(a) ==
    /\ chan[a] = "connecting" /\ chan' = [chan EXCEPT ![a] = "open"]
    /\ task' = [task EXCEPT ![a] = "sending"]
    /\ wire' = [wire EXCEPT ![a] = <<"start">>]
    /\ UNCHANGED <<signals, read, slot, target, heard, back, events, faults>>

\* The file cannot be opened or read, or a send fails or takes too long.
SendFails(a) ==
    /\ task[a] = "sending" /\ task' = [task EXCEPT ![a] = "done"]
    /\ srcEvents' = srcEvents \o <<Failed(a), Cleanup>>
    /\ UNCHANGED <<signals, read, slot, target, channel, dstEvents, results, faults>>

\* The file may have grown since it was requested, or shrunk.
SendChunk(a) ==
    /\ task[a] = "sending" /\ chan[a] = "open" /\ Len(wire[a]) < HighWater
    /\ read[a] < Grown[a]
    /\ read' = [read EXCEPT ![a] = @ + 1]
    /\ wire' = [wire EXCEPT ![a] = Append(@, "chunk")]
    /\ UNCHANGED <<signals, task, slot, target, chan, heard, back, events, faults>>

SendEnd(a) ==
    /\ task[a] = "sending" /\ chan[a] = "open"
    /\ task' = [task EXCEPT ![a] = "await"]
    /\ wire' = [wire EXCEPT ![a] = Append(@, "end")]
    /\ UNCHANGED <<signals, read, slot, target, chan, heard, back, events, faults>>

\* on_message: the first result is the one that counts.
Acknowledged(a) ==
    /\ back[a] # <<>> /\ back' = [back EXCEPT ![a] = Tail(@)]
    /\ slot' = [slot EXCEPT ![a] = IF @ = "empty" THEN Head(back[a]) ELSE @]
    /\ UNCHANGED <<signals, task, read, target, chan, heard, wire, events, faults>>

Reports(a, status) ==
    /\ task' = [task EXCEPT ![a] = "done"]
    /\ srcEvents' = srcEvents \o <<IF status = "ok" THEN Done(a) ELSE Failed(a), Cleanup>>
    /\ UNCHANGED <<signals, read, slot, target, channel, dstEvents, results, faults>>

Settles(a) == task[a] = "await" /\ slot[a] # "empty" /\ Reports(a, slot[a])

AwaitTimesOut(a) == task[a] = "await" /\ slot[a] = "empty" /\ Reports(a, "error")

\* The connection between the hosts breaks.
Breaks(a) ==
    /\ chan[a] \in {"connecting", "open"} /\ Closed(a)
    /\ Fault
    /\ UNCHANGED <<signals, source, target, heard, events>>

SourceHearsClose(a) ==
    /\ chan[a] = "closed" /\ "src" \notin heard[a]
    /\ heard' = [heard EXCEPT ![a] = @ \cup {"src"}]
    /\ slot' = [slot EXCEPT ![a] = IF @ = "empty" THEN "error" ELSE @]
    /\ srcEvents' = Append(srcEvents, Cleanup)
    /\ UNCHANGED <<signals, task, read, target, chan, wire, back, dstEvents, results, faults>>

-----------------------------------------------------------------------------
(* The target: bind_inbound_host_transfer_channel                          *)

\* The result may fail to be sent, which nobody looks at.
Answers(a, status) == back' = [back EXCEPT ![a] = Append(@, status)] \/ UNCHANGED back

Took(a) == wire' = [wire EXCEPT ![a] = Tail(@)]

\* The upload, if there is one, ends without a file.
GivesUp(a) ==
    /\ upload' = [upload EXCEPT ![a] = -1] /\ tmp' = tmp \ {a} /\ UNCHANGED file
    /\ Answers(a, "error") /\ dstEvents' = Append(dstEvents, Cleanup)

Starts(a) ==
    /\ wire[a] # <<>> /\ Head(wire[a]) = "start" /\ Took(a)
    /\ \/ GivesUp(a)
       \/ /\ upload' = [upload EXCEPT ![a] = 0] /\ tmp' = tmp \cup {a}
          /\ UNCHANGED <<file, back, dstEvents>>
    /\ UNCHANGED <<signals, source, chan, heard, srcEvents, results, faults>>

\* A chunk that is too much, or cannot be written, ends the upload.
Writes(a) ==
    /\ wire[a] # <<>> /\ Head(wire[a]) = "chunk" /\ Took(a)
    /\ IF upload[a] = -1 THEN UNCHANGED <<target, back, dstEvents>>
       ELSE
           \/ GivesUp(a)
           \/ /\ upload[a] + 1 <= Size[a] /\ upload' = [upload EXCEPT ![a] = @ + 1]
              /\ UNCHANGED <<tmp, file, back, dstEvents>>
    /\ UNCHANGED <<signals, source, chan, heard, srcEvents, results, faults>>

\* The temporary file is renamed; the size that was declared is not compared.
Finishes(a) ==
    /\ wire[a] # <<>> /\ Head(wire[a]) = "end" /\ Took(a)
    /\ \/ GivesUp(a)
       \/ /\ upload[a] # -1
          /\ upload' = [upload EXCEPT ![a] = -1] /\ tmp' = tmp \ {a}
          /\ file' = [by |-> a, size |-> upload[a]]
          /\ Answers(a, "ok") /\ UNCHANGED dstEvents
    /\ UNCHANGED <<signals, source, chan, heard, srcEvents, results, faults>>

TargetHearsClose(a) ==
    /\ chan[a] = "closed" /\ "dst" \notin heard[a]
    /\ heard' = [heard EXCEPT ![a] = @ \cup {"dst"}]
    /\ upload' = [upload EXCEPT ![a] = -1] /\ tmp' = tmp \ {a}
    /\ dstEvents' = Append(dstEvents, Cleanup)
    /\ UNCHANGED <<signals, source, file, chan, wire, back, srcEvents, results, faults>>

-----------------------------------------------------------------------------
(* DirectHostTransferEvent in the select loops                             *)

\* A cleanup names the transfer, not the attempt: it closes the current one.
SourceEvent ==
    /\ srcEvents # <<>> /\ srcEvents' = Tail(srcEvents)
    /\ IF Head(srcEvents) = Cleanup THEN
           /\ UNCHANGED results
           /\ IF out # 0 THEN out' = 0 /\ Closed(out)
              ELSE UNCHANGED <<out, chan, wire, back>>
       ELSE
           /\ results' = results \cup {<<Head(srcEvents).status, Head(srcEvents).attempt>>}
           /\ UNCHANGED <<out, chan, wire, back>>
    /\ UNCHANGED <<inb, net, answer, requested, source, target, heard, dstEvents, faults>>

TargetEvent ==
    /\ dstEvents # <<>> /\ dstEvents' = Tail(dstEvents)
    /\ IF inb # 0 THEN inb' = 0 /\ Closed(inb) ELSE UNCHANGED <<inb, chan, wire, back>>
    /\ UNCHANGED <<out, net, answer, requested, source, target, heard, srcEvents, results, faults>>

-----------------------------------------------------------------------------

Source(a) == Settles(a) \/ AwaitTimesOut(a) \/ Acknowledged(a) \/ SourceHearsClose(a)
Target(a) == Starts(a) \/ Writes(a) \/ Finishes(a) \/ TargetHearsClose(a)

Next ==
    \/ SignalLost \/ CancelSource \/ CancelTarget \/ Expire \/ SourceEvent \/ TargetEvent
    \/ \E a \in Attempts :
          \/ RequestRefused(a) \/ Request(a) \/ OfferRefused(a) \/ Offer(a) \/ Answer(a)
          \/ Opens(a) \/ SendFails(a) \/ SendChunk(a) \/ SendEnd(a) \/ Breaks(a)
          \/ Source(a) \/ Target(a)

\* The loops and the callbacks run; what is sent gets through, or times out,
\* while the channel is open.
Sends(a) == SendChunk(a) \/ SendEnd(a) \/ SendFails(a)

Fairness ==
    /\ WF_vars(SourceEvent) /\ WF_vars(TargetEvent)
    /\ \A a \in Attempts :
          /\ WF_vars(Source(a)) /\ WF_vars(Target(a))
          /\ WF_vars(chan[a] = "open" /\ Sends(a))

Spec == Init /\ [][Next]_vars /\ Fairness

-----------------------------------------------------------------------------
(* Properties                                                              *)

\* Late and lost signals never give the peer of one attempt the answer that was
\* made for another (daemon.rs 4252-4256).
AnswersMatch == \A a \in Attempts : answer[a] \in {0, a}

\* Whatever fails, the destination is the file of before, or all that the
\* source read of its file in some attempt; and the device hears ok only of an
\* attempt that has replaced it (files.rs 641-760, 1028-1044).
FileWhole ==
    /\ file.by # 0 => task[file.by] \in {"await", "done"} /\ file.size = read[file.by]
    /\ (\E a \in Attempts : <<"ok", a>> \in results) => file.by # 0

\* After the channel has closed no temporary file stays behind
\* (files.rs 768-779).
NoTmpLeft == \A a \in tmp : "dst" \notin heard[a]

Started(a) == task[a] # "idle"
HasEnded(a) == chan[a] = "closed" \/ \E s \in {"ok", "error"} : <<s, a>> \in results

\* A transfer that has started comes to a result for the device, unless its
\* channel closes under it (files.rs 845-1066).
Reported == \A a \in Attempts : Started(a) ~> HasEnded(a)

=============================================================================
