----------------------------- MODULE LocalAttach -----------------------------
(***************************************************************************)
(* Terminals of the host attached to one session through the daemon's Unix *)
(* socket: the command (sessions_attach of main.rs), a reader task for     *)
(* each connection and the client tables of the loop (daemon/local_ipc.rs, *)
(* daemon.rs), and the session whose output they share (pty.rs).           *)
(*                                                                         *)
(* Output is a sequence of numbered chunks; the scrollback is all that the *)
(* shell has written.  A frame that the loop writes is printed at once.    *)
(***************************************************************************)
EXTENDS Integers, Sequences, SequencesExt

CONSTANTS
    Clients,    \* connections, by client_id
    ChunkMax,   \* bound: chunks the shell writes
    TypedMax    \* bound: frames a client sends after its attach

VARIABLES
    cli,        \* the command: off, waiting for its answer, attached, gone
    sent,       \* frames it has sent and the reader has not read
    typed,      \* how many frames it sent after its attach
    reader,     \* local_attach_reader: none, reading, done
    events,     \* local_event_rx
    pending,    \* local_pending_writers
    attached,   \* local_clients
    session,    \* live, exited (not reaped yet), closed
    written,    \* chunks in the scrollback
    queue,      \* chunks in output_rx
    got         \* what each client has printed

command == <<cli, sent, typed>>
daemon == <<reader, events, pending, attached>>
shell == <<session, written, queue>>
vars == <<command, daemon, shell, got>>

Init ==
    /\ cli = [c \in Clients |-> "off"] /\ sent = [c \in Clients |-> <<>>]
    /\ typed = [c \in Clients |-> 0]
    /\ reader = [c \in Clients |-> "none"] /\ events = <<>>
    /\ pending = {} /\ attached = {}
    /\ session = "live" /\ written = 0 /\ queue = <<>>
    /\ got = [c \in Clients |-> <<>>]

---------------------------------------------------------------------------
\* The command.

Sends(c, frame) == sent' = [sent EXCEPT ![c] = Append(@, frame)]
Now(c, state) == cli' = [cli EXCEPT ![c] = state]

Connects(c) ==
    /\ cli[c] = "off"
    /\ Now(c, "waiting") /\ Sends(c, "attach")
    /\ UNCHANGED <<typed, daemon, shell, got>>

\* The user types or resizes the window: a frame of either kind is "data".
Types(c) ==
    /\ cli[c] = "attached" /\ typed[c] < TypedMax
    /\ typed' = [typed EXCEPT ![c] = @ + 1]
    /\ Sends(c, "data")
    /\ UNCHANGED <<cli, daemon, shell, got>>

Detaches(c) ==
    /\ cli[c] = "attached"
    /\ Now(c, "gone") /\ Sends(c, "detach")
    /\ UNCHANGED <<typed, daemon, shell, got>>

\* The command is killed.
Dies(c) ==
    /\ cli[c] \in {"waiting", "attached"}
    /\ Now(c, "gone")
    /\ UNCHANGED <<sent, typed, daemon, shell, got>>

\* The daemon has dropped the write half: the command reads the end.
HearsEnd(c) ==
    /\ cli[c] \in {"waiting", "attached"}
    /\ reader[c] # "none" /\ c \notin pending \cup attached
    /\ Now(c, "gone")
    /\ UNCHANGED <<sent, typed, daemon, shell, got>>

---------------------------------------------------------------------------
\* The reader task of a connection.

Tells(c, type) == events' = Append(events, [type |-> type, client |-> c])

Reads(c) ==
    /\ reader[c] = "reading" /\ sent[c] # <<>>
    /\ sent' = [sent EXCEPT ![c] = Tail(@)]
    /\ IF Head(sent[c]) = "detach"
       THEN reader' = [reader EXCEPT ![c] = "done"] /\ Tells(c, "disconnected")
       ELSE Tells(c, Head(sent[c])) /\ UNCHANGED reader
    /\ UNCHANGED <<cli, typed, pending, attached, shell, got>>

\* The end of the stream, an error, or five minutes without a frame.
ReaderEnds(c) ==
    /\ reader[c] = "reading" /\ sent[c] = <<>>
    /\ reader' = [reader EXCEPT ![c] = "done"] /\ Tells(c, "disconnected")
    /\ UNCHANGED <<command, pending, attached, shell, got>>

---------------------------------------------------------------------------
\* The loop of the daemon.

Accepts(c) ==
    /\ cli[c] # "off" /\ reader[c] = "none"
    /\ reader' = [reader EXCEPT ![c] = "reading"] /\ pending' = pending \cup {c}
    /\ UNCHANGED <<command, events, attached, shell, got>>

Handles(type) == events # <<>> /\ Head(events).type = type /\ events' = Tail(events)
Sender == Head(events).client

\* A live session answers with its scrollback; writing to a command that is
\* gone may fail.
Attaches(c) ==
    /\ attached' \in {attached \cup {c}} \cup (IF cli[c] = "gone" THEN {attached} ELSE {})
    /\ cli' = [cli EXCEPT ![c] = IF @ = "waiting" THEN "attached" ELSE @]
    /\ got' = [got EXCEPT ![c] = IF cli[c] = "waiting" THEN [i \in 1..written |-> i] ELSE @]

\* The session is not active: an error, and the write half is dropped.
Refuses(c) ==
    /\ cli' = [cli EXCEPT ![c] = "gone"]
    /\ UNCHANGED <<attached, got>>

HandlesAttach ==
    /\ Handles("attach")
    /\ pending' = pending \ {Sender}
    /\ IF Sender \notin pending THEN UNCHANGED <<attached, cli, got>>
       ELSE IF session # "closed" THEN Attaches(Sender) ELSE Refuses(Sender)
    /\ UNCHANGED <<sent, typed, reader, shell>>

\* write_input and resize of the session.
HandlesInput ==
    /\ Handles("data")
    /\ UNCHANGED <<command, reader, pending, attached, shell, got>>

\* Mutant: only the pending writers are cleaned.
HandlesDisconnectedPending ==
    /\ Handles("disconnected")
    /\ pending' = pending \ {Sender}
    /\ UNCHANGED <<command, reader, attached, shell, got>>

\* Only the table of attached clients is cleaned.
HandlesDisconnected ==
    /\ Handles("disconnected")
    /\ attached' = attached \ {Sender}
    /\ UNCHANGED <<command, reader, pending, shell, got>>

\* send_output for every queued chunk; a client that cannot be written to is
\* removed.
OutputTick ==
    /\ queue # <<>>
    /\ queue' = <<>>
    /\ \E dead \in SUBSET {c \in attached : cli[c] = "gone"} : attached' = attached \ dead
    /\ got' = [c \in Clients |->
                 IF c \in attached /\ cli[c] = "attached" THEN got[c] \o queue ELSE got[c]]
    /\ UNCHANGED <<command, reader, events, pending, session, written>>

ShellWrites ==
    /\ session = "live" /\ written < ChunkMax
    /\ written' = written + 1 /\ queue' = Append(queue, written')
    /\ UNCHANGED <<command, daemon, session, got>>

ShellExits ==
    /\ session = "live" /\ session' = "exited"
    /\ UNCHANGED <<command, daemon, written, queue, got>>

\* reap_exited_sessions drops the session with its queue; end_session tells
\* and removes its clients.
Reaps ==
    /\ session = "exited" /\ session' = "closed" /\ queue' = <<>>
    /\ cli' = [c \in Clients |-> IF c \in attached THEN "gone" ELSE cli[c]]
    /\ attached' = {}
    /\ UNCHANGED <<sent, typed, reader, events, pending, written, got>>

\* A device closes the session, or it is evicted: nothing tells the clients.
Closed ==
    /\ session # "closed" /\ session' = "closed" /\ queue' = <<>>
    /\ UNCHANGED <<command, daemon, written, got>>

ClientStep(c) == Connects(c) \/ Types(c) \/ Detaches(c) \/ Dies(c) \/ HearsEnd(c)
ReaderStep(c) == Reads(c) \/ ReaderEnds(c) \/ Accepts(c)

Next ==
    \/ \E c \in Clients : ClientStep(c) \/ ReaderStep(c)
    \/ HandlesAttach \/ HandlesInput \/ HandlesDisconnected
    \/ OutputTick \/ ShellWrites \/ ShellExits \/ Reaps \/ Closed

Spec == Init /\ [][Next]_vars

---------------------------------------------------------------------------
\* What an attached terminal prints has no gap: the scrollback it is answered
\* with meets the first chunk it is sent, and nothing is missing once the queue
\* is drained (daemon.rs:997 and 1032).
SeamGapFree ==
    \A c \in Clients :
        /\ \A i \in DOMAIN got[c] : got[c][i] <= (IF i = 1 THEN 1 ELSE got[c][i - 1] + 1)
        /\ cli[c] = "attached" /\ c \in attached /\ session # "closed" =>
              written = 0 \/ written \in ToSet(got[c]) \cup ToSet(queue)

\* A connection whose reader has ended, and whose end the loop has handled, is
\* not served any more, though its attach may have been handled after it left
\* (daemon.rs:1022).
GoneForgotten ==
    \A c \in attached : reader[c] = "done" =>
        \E i \in DOMAIN events : events[i] = [type |-> "disconnected", client |-> c]

\* Local terminals lose nothing and leave nothing behind among the clients.
LocalClientsServed == SeamGapFree /\ GoneForgotten

=============================================================================
