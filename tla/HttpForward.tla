---------------------------- MODULE HttpForward ----------------------------
(***************************************************************************)
(* Requests of a page on the device that are forwarded to a server on this *)
(* host: HttpForwardSession and forward_request (http_forward.rs), and the *)
(* arm of the select loop and the pump that carry its frames (daemon.rs).  *)
(*                                                                         *)
(* For every request there are up to three actors: the select loop, which  *)
(* takes frames from the channel; the task that fetches and then pumps     *)
(* frames to the channel; and the reader of the body, which fills the      *)
(* queue of the pump.  The loop can only signal the others, through the    *)
(* sender that it keeps in in_flight.                                      *)
(*                                                                         *)
(* An id is used for one request.  Bodies are counted in chunks.           *)
(***************************************************************************)
EXTENDS Integers, Sequences, FiniteSets, SequencesExt

CONSTANTS
    Ids,        \* request ids
    Cap,        \* MAX_CONCURRENT_REQUESTS
    ReqMax,     \* REQ_BODY_MAX_BYTES
    RespMax,    \* RESP_BODY_MAX_BYTES
    QueueCap    \* frames between the reader and the pump

HttpAssumption ==
    /\ IsFiniteSet(Ids) /\ Cap \in Nat
    /\ ReqMax \in Nat /\ RespMax \in Nat /\ QueueCap \in Nat

VARIABLES
    pending, in_flight,  \* HttpForwardSession
    pump,       \* the task of each request: see Pumps
    reader,     \* the task that reads its body: "none", "reading", "ended"
    signal,     \* the sender has signalled, or is gone
    streaming,  \* the response is an event stream
    produced,   \* chunks of the response that were read
    queue,      \* frames for the pump
    sent,       \* frames that went to the device
    open        \* the channel

requests == <<pending, in_flight>>
tasks == <<pump, reader, streaming, produced, queue>>
vars == <<requests, tasks, signal, sent, open>>

None == [size |-> 0, aborted |-> FALSE, live |-> FALSE]

\* "none": not promoted; "gate": about to read the allowlist; "fetch": waits for
\* the head; "ok", "error", "denied": has an outcome to send; "body": pumps.
Pumps == {"none", "gate", "fetch", "ok", "error", "denied", "body", "done", "panicked"}

Init ==
    /\ pending = [i \in Ids |-> None] /\ in_flight = {}
    /\ pump = [i \in Ids |-> "none"] /\ reader = [i \in Ids |-> "none"]
    /\ signal = [i \in Ids |-> FALSE] /\ streaming = [i \in Ids |-> FALSE]
    /\ produced = [i \in Ids |-> 0] /\ queue = [i \in Ids |-> <<>>]
    /\ sent = [i \in Ids |-> <<>>]
    /\ open = TRUE

-----------------------------------------------------------------------------
(* HttpForwardSession::ingest                                              *)

\* Some task still holds the receiver of the cancel signal.
Listening(i) == pump[i] \in {"gate", "fetch"} \/ reader[i] = "reading"

\* reap_completed_in_flight, at the top of every ingest.
Reaped == {i \in in_flight : Listening(i)}

SendsBack(i, frame) == sent' = [sent EXCEPT ![i] = Append(@, frame)]

\* An id is used for one request; a head may be repeated, and starts it anew.
ReqHead(i) ==
    /\ open /\ pump[i] = "none" /\ sent[i] = <<>>
    /\ pending' = [pending EXCEPT ![i] = [size |-> 0, aborted |-> FALSE, live |-> TRUE]]
    /\ in_flight' = Reaped
    /\ UNCHANGED <<tasks, signal, sent, open>>

\* No method, or a path that is not absolute.
ReqHeadMalformed(i) ==
    /\ open /\ pump[i] = "none" /\ sent[i] = <<>> /\ ~pending[i].live
    /\ SendsBack(i, "refused")
    /\ in_flight' = Reaped
    /\ UNCHANGED <<pending, tasks, signal, open>>

\* A body that grows too large is refused, once.
ReqBody(i) ==
    /\ open /\ pending[i].live /\ ~pending[i].aborted
    /\ in_flight' = Reaped
    /\ IF pending[i].size + 1 > ReqMax THEN
           /\ pending' = [pending EXCEPT ![i].aborted = TRUE]
           /\ SendsBack(i, "refused")
       ELSE
           /\ pending' = [pending EXCEPT ![i].size = @ + 1]
           /\ UNCHANGED sent
    /\ UNCHANGED <<tasks, signal, open>>

ReqEndAborted(i) ==
    /\ open /\ pending[i].aborted
    /\ pending' = [pending EXCEPT ![i] = None] /\ in_flight' = Reaped
    /\ UNCHANGED <<tasks, signal, sent, open>>

ReqEndShed(i) ==
    /\ open /\ pending[i].live /\ ~pending[i].aborted
    /\ Cardinality(Reaped) >= Cap
    /\ pending' = [pending EXCEPT ![i] = None] /\ in_flight' = Reaped
    /\ SendsBack(i, "refused")
    /\ UNCHANGED <<tasks, signal, open>>

\* The request is promoted: its task is spawned.
ReqEnd(i) ==
    /\ open /\ pending[i].live /\ ~pending[i].aborted
    /\ Cardinality(Reaped) < Cap
    /\ pending' = [pending EXCEPT ![i] = None] /\ in_flight' = Reaped \cup {i}
    /\ pump' = [pump EXCEPT ![i] = "gate"]
    /\ UNCHANGED <<reader, streaming, produced, queue, signal, sent, open>>

\* Before the promotion the buffer is dropped; after it the task is signalled,
\* and the device told at once.
ReqCancelPending(i) ==
    /\ open /\ pending[i].live
    /\ pending' = [pending EXCEPT ![i] = None] /\ in_flight' = Reaped
    /\ UNCHANGED <<tasks, signal, sent, open>>

\* Mutant: the entry is removed and the task is not told.
ReqCancelForgets(i) ==
    /\ open /\ ~pending[i].live /\ i \in Reaped
    /\ in_flight' = Reaped \ {i}
    /\ SendsBack(i, "cancelled")
    /\ UNCHANGED <<pending, tasks, signal, open>>

ReqCancel(i) ==
    /\ open /\ ~pending[i].live /\ i \in Reaped
    /\ in_flight' = Reaped \ {i}
    /\ signal' = [signal EXCEPT ![i] = TRUE]
    /\ SendsBack(i, "cancelled")
    /\ UNCHANGED <<pending, tasks, open>>

\* HttpChannelClosed: what is assembled is dropped and every task signalled.
Shutdown ==
    /\ open /\ open' = FALSE
    /\ pending' = [i \in Ids |-> None] /\ in_flight' = {}
    /\ signal' = [i \in Ids |-> signal[i] \/ i \in in_flight]
    /\ UNCHANGED <<tasks, sent>>

-----------------------------------------------------------------------------
(* forward_request                                                         *)

Outcome(i, o) == pump' = [pump EXCEPT ![i] = o]

\* The outcome is logged with the path cut at byte 128: when that is within a
\* character, the task panics (log_path).
Logged(i, o) == Outcome(i, o) \/ Outcome(i, "panicked")

\* The allowlist is read again for every request: others change it all the time.
Gate(i) ==
    /\ pump[i] = "gate"
    /\ Outcome(i, "fetch") \/ Logged(i, "denied")
    /\ UNCHANGED <<requests, reader, streaming, produced, queue, signal, sent, open>>

\* Mutant: a server that never answers is waited for.
FetchWaits(i) ==
    /\ pump[i] = "fetch" /\ signal[i] /\ Outcome(i, "error")
    /\ UNCHANGED <<requests, reader, streaming, produced, queue, signal, sent, open>>

\* A cancelled fetch, one that fails, and one without an answer in time.
FetchEnds(i) ==
    /\ pump[i] = "fetch" /\ Outcome(i, "error")
    /\ UNCHANGED <<requests, reader, streaming, produced, queue, signal, sent, open>>

\* The head of the response: the reader of its body is spawned.
FetchSucceeds(i) ==
    /\ pump[i] = "fetch" /\ ~signal[i]
    /\ Logged(i, "ok")
    /\ IF pump'[i] = "ok" THEN
           /\ reader' = [reader EXCEPT ![i] = "reading"]
           /\ \E s \in BOOLEAN : streaming' = [streaming EXCEPT ![i] = s]
       ELSE UNCHANGED <<reader, streaming>>
    /\ UNCHANGED <<requests, produced, queue, signal, sent, open>>

\* The reader can hand a frame over, or finds the pump gone.
Room(i) == pump[i] = "done" \/ Len(queue[i]) < QueueCap

Queued(i, frame) ==
    queue' = IF pump[i] = "done" THEN queue ELSE [queue EXCEPT ![i] = Append(@, frame)]

\* A chunk of the body; one too many is an error.
ReaderChunk(i) ==
    /\ reader[i] = "reading" /\ ~signal[i] /\ Room(i)
    /\ IF produced[i] + 1 > RespMax THEN
           /\ reader' = [reader EXCEPT ![i] = "ended"]
           /\ Queued(i, "error") /\ UNCHANGED produced
       ELSE
           /\ reader' = [reader EXCEPT ![i] = IF pump[i] = "done" THEN "ended" ELSE @]
           /\ produced' = [produced EXCEPT ![i] = @ + 1]
           /\ Queued(i, "body")
    /\ UNCHANGED <<requests, pump, streaming, signal, sent, open>>

ReaderEnds(i, frame) ==
    /\ reader[i] = "reading" /\ Room(i)
    /\ reader' = [reader EXCEPT ![i] = "ended"]
    /\ Queued(i, frame)
    /\ UNCHANGED <<requests, pump, streaming, produced, signal, sent, open>>

\* The end of the body, or an error of the server.
ReaderDone(i) == ~signal[i] /\ \E frame \in {"end", "error"} : ReaderEnds(i, frame)

\* The signal; and, unless it is an event stream, silence for too long.
ReaderGivesUp(i) == (signal[i] \/ ~streaming[i]) /\ ReaderEnds(i, "error")

-----------------------------------------------------------------------------
(* pump_forward_outcome                                                    *)

\* The head goes first; a send on a closed channel ends the pump.
PumpHead(i) ==
    /\ pump[i] \in {"ok", "error", "denied"}
    /\ IF open THEN
           /\ SendsBack(i, IF pump[i] = "ok" THEN "head" ELSE "error")
           /\ Outcome(i, IF pump[i] = "ok" THEN "body" ELSE "done")
       ELSE Outcome(i, "done") /\ UNCHANGED sent
    /\ UNCHANGED <<requests, reader, streaming, produced, queue, signal, open>>

PumpBody(i) ==
    /\ pump[i] = "body" /\ queue[i] # <<>>
    /\ IF open THEN
           /\ SendsBack(i, Head(queue[i])) /\ queue' = [queue EXCEPT ![i] = Tail(@)]
           /\ UNCHANGED pump
       ELSE Outcome(i, "done") /\ queue' = [queue EXCEPT ![i] = <<>>] /\ UNCHANGED sent
    /\ UNCHANGED <<requests, reader, streaming, produced, signal, open>>

PumpDone(i) ==
    /\ pump[i] = "body" /\ queue[i] = <<>> /\ reader[i] = "ended"
    /\ Outcome(i, "done")
    /\ UNCHANGED <<requests, reader, streaming, produced, queue, signal, sent, open>>

-----------------------------------------------------------------------------

Pump(i) == Gate(i) \/ FetchEnds(i) \/ PumpHead(i) \/ PumpBody(i) \/ PumpDone(i)

Next ==
    \/ Shutdown
    \/ \E i \in Ids :
          \/ ReqHead(i) \/ ReqHeadMalformed(i) \/ ReqBody(i) \/ ReqEndAborted(i)
          \/ ReqEndShed(i) \/ ReqEnd(i) \/ ReqCancelPending(i) \/ ReqCancel(i)
          \/ Pump(i) \/ FetchSucceeds(i)
          \/ ReaderChunk(i) \/ ReaderDone(i) \/ ReaderGivesUp(i)

\* Tasks are scheduled, and waits have a timeout, or end with the signal.
Fairness == \A i \in Ids : WF_vars(Pump(i)) /\ WF_vars(ReaderGivesUp(i))

Spec == Init /\ [][Next]_vars /\ Fairness

-----------------------------------------------------------------------------
(* Properties                                                              *)

\* However requests are promoted, cancelled and finished, no more than Cap run
\* that nobody has told to stop: the tasks the loop has forgotten have been
\* signalled (http_forward.rs 679-745, 825-834).
LoadBounded ==
    /\ Cardinality({i \in Ids : Listening(i) /\ ~signal[i]}) <= Cap
    /\ \A i \in Ids : Listening(i) /\ ~signal[i] => i \in in_flight

\* The places in what went to the device of the frames of the response itself.
Own(i) == {k \in DOMAIN sent[i] : sent[i][k] \notin {"cancelled", "refused"}}

\* What the device gets of a response is an error, or a head, the chunks that
\* the server sent and one end; and the end comes only after all of them
\* (http_forward.rs 1152-1247, daemon.rs 224-247).
ResponseWhole ==
    \A i \in Ids : \A k \in Own(i) :
        LET f == sent[i][k] IN
        /\ f \in {"end", "error"} => \A l \in Own(i) : l <= k
        /\ f = "head" <=> (f # "error" /\ \A l \in Own(i) : k <= l)
        /\ f = "end" => Cardinality(Own(i)) = produced[i] + 2

Promoted(i) == pump[i] # "none"

Settled(i) ==
    \/ open /\ streaming[i]
    \/ /\ ~Listening(i) /\ pump[i] \in {"done", "panicked"}
       /\ (open /\ pump[i] = "done") =>
             sent[i] # <<>> /\ Last(sent[i]) \in {"end", "error", "cancelled"}

\* A request that was promoted is answered to its end, unless the channel
\* closes, or the task dies over a path it cannot log; and either way, also when
\* it is an event stream, no task stays behind that reads from the server
\* (http_forward.rs 819-830, 1050-1109, 1171-1193).
Answered == \A i \in Ids : Promoted(i) ~> Settled(i)

=============================================================================
