-------------------------- MODULE SessionLifecycle --------------------------
(***************************************************************************)
(* The life of terminal sessions in the host daemon: the table of PTYs     *)
(* (pty.rs, SessionManager), the session records of the state store        *)
(* (store.rs), the terminal data channels of the viewers                   *)
(* (webrtc_manager.rs) and the session rows of the backend, as the select  *)
(* loop and handle_signal of daemon.rs change them.                        *)
(*                                                                         *)
(* The daemon is one task, so every handler is one action.  What runs      *)
(* beside it is the environment: shells exit, data channels die and their  *)
(* close events wait in the WebRtcEvent queue, the control-plane socket    *)
(* fails between two sends, a backend call fails, a process dies.          *)
(*                                                                         *)
(* The same handlers also clear peer_session_routes and session_ciphers;   *)
(* no handler modelled here reads either, and they are left out.           *)
(***************************************************************************)
EXTENDS Integers, FiniteSets

CONSTANTS
    Sessions,       \* session ids the backend hands out
    Devices,        \* paired mobile devices
    Kind,           \* what a session asks for, fixed by its backend row
    Owner,          \* the device that created the session
    Target,         \* the session a "rejoin" session wants to attach to
    Limit,          \* config.session_limit
    EventStates,    \* states the backend may relay in a session_event
    BackendFails,   \* whether a transition_session call may fail
    NoRec,          \* "the store has no record of this session"
    Unknown         \* the device of a record that touch_session_state made up

\* "shell":       create_session, a native persistent PTY
\* "attach":      tmux, screen and relay attachments, PTYs that do not persist
\* "rejoin":      attach_target of type "pocketshell": names another session
\* "passthrough": purpose agent or utility, no PTY at all
Kinds == {"shell", "attach", "rejoin", "passthrough"}

SessionState == {"Requested", "Approved", "Connecting", "Connected",
                 "Detached", "Ended", "Failed"}

\* A backend row as far as the host can tell: not created, requested, listed as
\* active (CONNECTED or DETACHED), over (ENDED or FAILED).
RowState == {"none", "pending", "active", "over"}

Record == [state : SessionState, persistent : BOOLEAN,
           device : Devices \cup {Unknown}]

ASSUME ConstantsAssumption ==
    /\ IsFiniteSet(Sessions)
    /\ Limit \in Nat
    /\ Kind \in [Sessions -> Kinds]
    /\ Owner \in [Sessions -> Devices]
    /\ Target \in [Sessions -> Sessions]
    /\ EventStates \subseteq SessionState
    /\ BackendFails \in BOOLEAN
    /\ NoRec \notin Record
    /\ Unknown \notin Devices

VARIABLES
    phase,      \* where the daemon is: see Phases
    trusted,    \* store.state.trusted_devices
    ptys,       \* keys of SessionManager.sessions
    exited,     \* PTYs whose child has exited and is not reaped yet
    rec,        \* store.state.sessions: a record per session, or NoRec
    older,      \* <<s, t>>: the record of s has the smaller updated_at
    chans,      \* open terminal data channels: session -> devices
    closing,    \* ChannelClosed events not handled yet, <<session, device>>
    row         \* the backend's session rows

vars == <<phase, trusted, ptys, exited, rec, older, chans, closing, row>>

\* "connecting": top of the outer loop, no control-plane socket
\* "connected":  inside the select loop
\* "backoff":    the socket was lost, the clean-up is done, asleep
\* "stopped":    the process has ended
Phases == {"connecting", "connected", "backoff", "stopped"}

TypeOK ==
    /\ phase \in Phases
    /\ trusted \subseteq Devices
    /\ ptys \subseteq Sessions
    /\ exited \subseteq ptys
    /\ rec \in [Sessions -> Record \cup {NoRec}]
    /\ older \subseteq Sessions \X Sessions
    /\ chans \in [Sessions -> SUBSET Devices]
    /\ closing \subseteq Sessions \X Devices
    /\ row \in [Sessions -> RowState]

Init ==
    /\ phase = "connecting"
    /\ trusted \in SUBSET Devices
    /\ ptys = {}
    /\ exited = {}
    /\ rec = [s \in Sessions |-> NoRec]
    /\ older = {}
    /\ chans = [s \in Sessions |-> {}]
    /\ closing = {}
    /\ row = [s \in Sessions |-> "none"]

-----------------------------------------------------------------------------
(* Helpers: the store, the channel table, the backend.                     *)

Terminal == {"Ended", "Failed"}

HasRecord(s) == rec[s] # NoRec

\* SessionManager::is_persistent: only native shells survive a detach.
Native == {s \in ptys : Kind[s] = "shell"}

\* StateStore::touch_session_state on the sessions of S.
TouchSessionState(r, S, st) ==
    [s \in Sessions |->
        IF s \notin S THEN r[s]
        ELSE IF r[s] = NoRec
             THEN [state |-> st, persistent |-> FALSE, device |-> Unknown]
             ELSE [r[s] EXCEPT !.state = st]]

\* StateStore::upsert_session with a Connected record.
UpsertSession(r, s, pers, d) ==
    [r EXCEPT ![s] = [state |-> "Connected", persistent |-> pers, device |-> d]]

\* Sessions the eviction loop of session_request may kill to make room.
EvictableIn(r) ==
    {s \in Sessions : r[s] # NoRec /\ r[s].persistent /\ r[s].state = "Detached"}

Evictable == EvictableIn(rec)

\* The records become r, those of S with updated_at = now.  Only the order of
\* evictable records is ever read, and only it is kept; records stamped by one
\* sweep are not ordered among themselves.
Stamp(r, S) ==
    LET kept == EvictableIn(r) \ S
    IN {p \in older : p[1] \in kept /\ p[2] \in kept}
         \cup (kept \X (EvictableIn(r) \cap S))

\* WebRtcManager::close_session for the sessions of S: the channels leave the
\* table at once, their close events arrive later.
ChannelEvents(S) == {e \in S \X Devices : e[2] \in chans[e[1]]}

CloseChannels(S) ==
    /\ chans' = [s \in Sessions |-> IF s \in S THEN {} ELSE chans[s]]
    /\ closing' = closing \cup ChannelEvents(S)

\* BackendClient::transition_session for the sessions of S.  Each call is
\* awaited, may fail, and its failure is only logged.
Rows(r, S, st) ==
    {[s \in Sessions |-> IF s \in done THEN st ELSE r[s]] :
        done \in IF BackendFails THEN SUBSET S ELSE {S}}

\* Rows that list_active_sessions returns, and with include_pending=true.
ActiveRows == {s \in Sessions : row[s] = "active"}
PendingRows == {s \in Sessions : row[s] \in {"pending", "active"}}

-----------------------------------------------------------------------------
(* session_request                                                         *)

\* Mutant of Accepts: the limit is compared with > instead of >=.
AcceptsOneMore(s, P, spawnable) ==
    CASE Kind[s] = "passthrough" -> TRUE
      [] Kind[s] = "rejoin" -> Target[s] \in P
      [] OTHER -> Cardinality(P) <= Limit /\ s \notin P /\ spawnable

\* What accept_session answers when the table holds the PTYs of P.  The
\* limit is tested before the duplicate id; spawnable stands for everything
\* after both: openpty, the program, the relayed device.
Accepts(s, P, spawnable) ==
    CASE Kind[s] = "passthrough" -> TRUE
      [] Kind[s] = "rejoin" -> Target[s] \in P
      [] OTHER -> Cardinality(P) < Limit /\ s \notin P /\ spawnable

LimitReached(s, P) == Kind[s] \in {"shell", "attach"} /\ Cardinality(P) >= Limit

\* E is what a loop over Evictable, oldest first, has visited at some point.
OldestFirst(E) ==
    /\ E \subseteq Evictable
    /\ \A s \in E, t \in Evictable \ E : <<t, s>> \notin older

\* Mutant of Evicts: the loop does not stop at the first success.
EvictsEveryone(s, E, spawnable) ==
    E = IF LimitReached(s, ptys) THEN Evictable ELSE {}

\* The loop closes one candidate at a time and retries accept_session after
\* each, whatever the error of the last try was.
Evicts(s, E, spawnable) ==
    IF ~LimitReached(s, ptys) \/ Evictable = {}
    THEN E = {}
    ELSE /\ OldestFirst(E)
         /\ Accepts(s, ptys \ E, spawnable) \/ E = Evictable
         /\ \E last \in E : /\ OldestFirst(E \ {last})
                             /\ ~Accepts(s, ptys \ (E \ {last}), spawnable)

\* PTYs after accept_session has succeeded on the table P.
Spawned(s, P) == IF Kind[s] \in {"shell", "attach"} THEN P \cup {s} ELSE P

\* The handler for a trusted device with the permission.  An untrusted one is
\* answered with a failed session_ack and changes nothing.  A session_ack that
\* cannot be sent returns before the record is written.
SessionRequest(s, spawnable, ackSent, E) ==
    LET accept == Accepts(s, ptys \ E, spawnable)
        evictedRec == TouchSessionState(rec, E, "Ended")
    IN /\ phase = "connected"
       /\ row[s] # "none"
       /\ Owner[s] \in trusted
       /\ Evicts(s, E, spawnable)
       /\ ptys' = IF accept THEN Spawned(s, ptys \ E) ELSE ptys \ E
       /\ exited' = exited \ E
       /\ rec' = IF accept /\ ackSent
                 THEN UpsertSession(evictedRec, s, Kind[s] = "shell", Owner[s])
                 ELSE evictedRec
       /\ older' = Stamp(rec', E \cup {s})
       /\ \E r \in Rows(row, E, "over") :
             row' \in IF ackSent
                     THEN Rows(r, {s}, IF accept THEN "active" ELSE "over")
                     ELSE {r}
       /\ UNCHANGED <<phase, trusted, chans, closing>>

-----------------------------------------------------------------------------
(* The other signals that end, detach or revive a session.                 *)

\* session_join from device d: any trusted device may join, and the record
\* becomes its own.  Without a live PTY the answer is reconnect_failed; that,
\* or an ack that cannot be sent, changes nothing.
SessionJoin(s, d) ==
    /\ phase = "connected"
    /\ row[s] # "none"
    /\ d \in trusted
    /\ s \in ptys
    /\ rec' = UpsertSession(rec, s, Kind[s] = "shell", d)
    /\ older' = Stamp(rec', {s})
    /\ row' \in Rows(row, {s}, "active")
    /\ UNCHANGED <<phase, trusted, ptys, exited, chans, closing>>

\* signal/control session_detach of a session with a native PTY.
SessionDetach(s) ==
    /\ phase = "connected"
    /\ row[s] # "none"
    /\ trusted # {}
    /\ s \in Native
    /\ CloseChannels({s})
    /\ rec' = TouchSessionState(rec, {s}, "Detached")
    /\ older' = Stamp(rec', {s})
    /\ row' \in Rows(row, {s}, "active")
    /\ UNCHANGED <<phase, trusted, ptys, exited>>

\* session_detach of any other session: "detach acts as close".  The data
\* channels stay open and an unknown session still gets a record.
SessionDetachCloses(s) ==
    /\ phase = "connected"
    /\ row[s] # "none"
    /\ trusted # {}
    /\ s \notin Native
    /\ ptys' = ptys \ {s}
    /\ exited' = exited \ {s}
    /\ rec' = TouchSessionState(rec, {s}, "Ended")
    /\ older' = Stamp(rec', {s})
    /\ row' \in Rows(row, {s}, "over")
    /\ UNCHANGED <<phase, trusted, chans, closing>>

\* session_close / disconnect.  Without a PTY close_session fails and the
\* handler returns once the channels are closed.
SessionClose(s) ==
    /\ phase = "connected"
    /\ row[s] # "none"
    /\ trusted # {}
    /\ CloseChannels({s})
    /\ IF s \in ptys
       THEN /\ ptys' = ptys \ {s}
            /\ exited' = exited \ {s}
            /\ rec' = TouchSessionState(rec, {s}, "Ended")
            /\ older' = Stamp(rec', {s})
            /\ row' \in Rows(row, {s}, "over")
       ELSE UNCHANGED <<ptys, exited, rec, older, row>>
    /\ UNCHANGED <<phase, trusted>>

\* signal/terminal: input (or a keepalive) that arrives over the WebSocket
\* completes a connection that was still being set up.
TerminalSignal(s, keepalive) ==
    /\ phase = "connected"
    /\ trusted # {}
    /\ s \in ptys \/ keepalive
    /\ HasRecord(s)
    /\ rec[s].state \in {"Approved", "Connecting"}
    /\ rec' = TouchSessionState(rec, {s}, "Connected")
    /\ older' = Stamp(rec', {s})
    /\ row' \in Rows(row, {s}, "active")
    /\ UNCHANGED <<phase, trusted, ptys, exited, chans, closing>>

\* session_event relayed by the backend: any state, at any time.
SessionEvent(s, st) ==
    /\ phase = "connected"
    /\ row[s] # "none"
    /\ rec' = TouchSessionState(rec, {s}, st)
    /\ older' = Stamp(rec', {s})
    /\ UNCHANGED <<phase, trusted, ptys, exited, chans, closing, row>>

-----------------------------------------------------------------------------
(* Terminal data channels.                                                 *)

\* poll_events finds a new terminal channel of device d: it joins the fan-out
\* of the session.  ChannelOpened looks the record up and does not change it.
ChannelOpened(s, d) ==
    /\ phase = "connected"
    /\ d \in trusted
    /\ HasRecord(s)
    /\ d \notin chans[s]
    /\ chans' = [chans EXCEPT ![s] = @ \cup {d}]
    /\ UNCHANGED <<phase, trusted, ptys, exited, rec, older, closing, row>>

\* The network, the app or close_peer ends a channel; on_close queues an event.
ChannelLost(s, d) ==
    /\ d \in chans[s]
    /\ chans' = [chans EXCEPT ![s] = @ \ {d}]
    /\ closing' = closing \cup {<<s, d>>}
    /\ UNCHANGED <<phase, trusted, ptys, exited, rec, older, row>>

\* WebRtcEvent::ChannelClosed: when no channel is left the record is detached.
\* The backend is not told.
ChannelClosed(s, d) ==
    /\ phase = "connected"
    /\ <<s, d>> \in closing
    /\ closing' = closing \ {<<s, d>>}
    /\ IF /\ chans[s] = {}
          /\ HasRecord(s)
          /\ rec[s].state \notin Terminal \cup {"Detached"}
       THEN rec' = TouchSessionState(rec, {s}, "Detached") /\ older' = Stamp(rec', {s})
       ELSE UNCHANGED <<rec, older>>
    /\ UNCHANGED <<phase, trusted, ptys, exited, chans, row>>

-----------------------------------------------------------------------------
(* The ticks of the select loop.                                           *)

\* The shell of a session exits by itself.
ChildExit(s) ==
    /\ s \in ptys \ exited
    /\ exited' = exited \cup {s}
    /\ UNCHANGED <<phase, trusted, ptys, rec, older, chans, closing, row>>

\* session_reap_tick: every exited child at once.
ReapTick ==
    /\ phase = "connected"
    /\ exited # {}
    /\ ptys' = ptys \ exited
    /\ exited' = {}
    /\ CloseChannels(exited)
    /\ rec' = TouchSessionState(rec, exited, "Ended")
    /\ older' = Stamp(rec', exited)
    /\ row' \in Rows(row, exited, "over")
    /\ UNCHANGED <<phase, trusted>>

\* clear_ended_sessions of the heartbeat drops the terminal records that are
\* old enough: S.
HeartbeatPurge(S) ==
    LET ended == {s \in Sessions : HasRecord(s) /\ rec[s].state \in Terminal}
    IN /\ phase = "connected"
       /\ S # {} /\ S \subseteq ended
       /\ rec' = [s \in Sessions |-> IF s \in S THEN NoRec ELSE rec[s]]
       /\ UNCHANGED <<phase, trusted, ptys, exited, older, chans, closing, row>>

\* Mutant of DevicesRevoked: the PTYs are closed, the records are not touched.
DevicesRevokedSilently(D) ==
    LET removed == D \cap trusted
        affected == {s \in Sessions : HasRecord(s) /\ rec[s].device \in removed}
    IN /\ phase = "connected"
       /\ removed # {}
       /\ trusted \ removed # {}
       /\ trusted' = trusted \ removed
       /\ ptys' = ptys \ affected
       /\ exited' = exited \ affected
       /\ row' \in Rows(row, affected, "over")
       /\ UNCHANGED <<phase, rec, older, chans, closing>>

\* trusted_devices_tick when the backend reports the devices of D revoked:
\* their sessions are closed and marked Failed, whatever state they had.
DevicesRevoked(D) ==
    LET removed == D \cap trusted
        affected == {s \in Sessions : HasRecord(s) /\ rec[s].device \in removed}
    IN /\ phase = "connected"
       /\ removed # {}
       /\ trusted \ removed # {}
       /\ trusted' = trusted \ removed
       /\ ptys' = ptys \ affected
       /\ exited' = exited \ affected
       /\ rec' = TouchSessionState(rec, affected, "Failed")
       /\ older' = Stamp(rec', affected)
       /\ row' \in Rows(row, affected, "over")
       /\ UNCHANGED <<phase, chans, closing>>

\* The last trusted device is gone, or the backend no longer knows the host:
\* everything is closed and the daemon ends.
HostAbandoned ==
    /\ phase = "connected"
    /\ trusted # {}
    /\ phase' = "stopped"
    /\ trusted' = {}
    /\ ptys' = {} /\ exited' = {}
    /\ CloseChannels(Sessions)
    /\ row' \in Rows(row, {s \in Sessions : HasRecord(s) /\ rec[s].device \in trusted}, "over")
    /\ UNCHANGED <<rec, older>>

\* close_all_active_sessions.  The rows are listed first; when that fails the
\* list is empty, and only listed sessions get their record and row ended.
CloseAllEffect(listed) ==
    /\ ptys' = {} /\ exited' = {}
    /\ CloseChannels(Sessions)
    /\ rec' = TouchSessionState(rec, listed, "Ended")
    /\ older' = Stamp(rec', listed)
    /\ row' \in Rows(row, listed, "over")

\* host_control close_all, and the legacy host_close_all_sessions signal.
CloseAllSessions(listOk) ==
    /\ phase = "connected"
    /\ trusted # {}
    /\ CloseAllEffect(IF listOk THEN PendingRows ELSE {})
    /\ UNCHANGED <<phase, trusted>>

-----------------------------------------------------------------------------
(* The control-plane connection and the process.                           *)

\* Mutant of Reconcile: stale rows are looked up and left alone.
ReconcileNothing == {}

\* The socket is up: rows the backend still believes active are ended when
\* this daemon has no PTY for them.  Each transition may fail.
Reconcile == {s \in ActiveRows : s \notin ptys}

Connect ==
    /\ phase \in {"connecting", "backoff"}
    /\ phase' = "connected"
    /\ row' \in Rows(row, Reconcile, "over")
    /\ UNCHANGED <<trusted, ptys, exited, rec, older, chans, closing>>

\* The heartbeat rotated the access token: reconnect, nothing else.
TokenRotated ==
    /\ phase = "connected"
    /\ phase' = "connecting"
    /\ UNCHANGED <<trusted, ptys, exited, rec, older, chans, closing, row>>

\* Mutant of Disconnected: detach_all keeps every PTY, like a native one.
DisconnectedKeepsAll ==
    LET swept == {s \in Sessions : HasRecord(s) /\ rec[s].state \notin Terminal}
    IN /\ phase = "connected"
       /\ phase' = "backoff"
       /\ CloseChannels(Sessions)
       /\ rec' = TouchSessionState(TouchSessionState(rec, swept \cap Native, "Detached"),
                                   swept \ Native, "Failed")
       /\ older' = Stamp(rec', swept)
       /\ UNCHANGED <<trusted, row, ptys, exited>>

\* Any other way out of the select loop: a failed send, a read error, the
\* watchdog, a sleep/wake gap.  detach_all closes what does not persist.
Disconnected ==
    LET swept == {s \in Sessions : HasRecord(s) /\ rec[s].state \notin Terminal}
    IN /\ phase = "connected"
       /\ phase' = "backoff"
       /\ ptys' = Native
       /\ exited' = exited \cap Native
       /\ CloseChannels(Sessions)
       /\ rec' = TouchSessionState(TouchSessionState(rec, swept \cap Native, "Detached"),
                                   swept \ Native, "Failed")
       /\ older' = Stamp(rec', swept)
       /\ UNCHANGED <<trusted, row>>

\* SIGTERM, SIGINT, daemon_kill and host_control restart.
Shutdown(listOk) ==
    /\ phase = "connected"
    /\ phase' = "stopped"
    /\ CloseAllEffect(IF listOk THEN PendingRows ELSE {})
    /\ UNCHANGED trusted

\* The process is killed; the PTYs and peers die with it.
Crash ==
    /\ phase # "stopped"
    /\ phase' = "stopped"
    /\ ptys' = {} /\ exited' = {}
    /\ chans' = [s \in Sessions |-> {}] /\ closing' = {}
    /\ UNCHANGED <<trusted, rec, older, row>>

\* run_foreground wipes the session records it finds in state.json.
Start ==
    /\ phase = "stopped"
    /\ phase' = "connecting"
    /\ rec' = [s \in Sessions |-> NoRec]
    /\ older' = {}
    /\ chans' = [s \in Sessions |-> {}] /\ closing' = {}
    /\ UNCHANGED <<trusted, ptys, exited, row>>

\* The app asks the backend for a session; the row is created.
RequestedByMobile(s) ==
    /\ row[s] = "none"
    /\ row' = [row EXCEPT ![s] = "pending"]
    /\ UNCHANGED <<phase, trusted, ptys, exited, rec, older, chans, closing>>

\* `pocketshell pair` trusts a device; the daemon rereads the trust fields.
Pair(d) ==
    /\ d \notin trusted
    /\ trusted' = trusted \cup {d}
    /\ UNCHANGED <<phase, ptys, exited, rec, older, chans, closing, row>>

Next ==
    \/ \E s \in Sessions :
          \/ RequestedByMobile(s)
          \/ \E spawnable, ackSent \in BOOLEAN, E \in SUBSET Evictable :
                SessionRequest(s, spawnable, ackSent, E)
          \/ \E d \in Devices : SessionJoin(s, d)
          \/ SessionDetach(s)
          \/ SessionDetachCloses(s)
          \/ SessionClose(s)
          \/ \E keepalive \in BOOLEAN : TerminalSignal(s, keepalive)
          \/ \E st \in EventStates : SessionEvent(s, st)
          \/ \E d \in Devices :
                ChannelOpened(s, d) \/ ChannelLost(s, d) \/ ChannelClosed(s, d)
          \/ ChildExit(s)
    \/ ReapTick
    \/ \E S \in SUBSET Sessions : HeartbeatPurge(S)
    \/ \E D \in SUBSET Devices : DevicesRevoked(D)
    \/ HostAbandoned
    \/ \E listOk \in BOOLEAN : CloseAllSessions(listOk) \/ Shutdown(listOk)
    \/ Connect
    \/ TokenRotated
    \/ Disconnected
    \/ Crash
    \/ Start
    \/ \E d \in Devices : Pair(d)

Spec == Init /\ [][Next]_vars

\* The access token lives 15 minutes, so a connection that lasts is rotated;
\* the outer loop retries for ever, and not every retry meets a failing
\* backend; the service manager restarts the daemon; the reap tick fires every
\* few seconds of a connection.
Fairness ==
    /\ WF_vars(TokenRotated)
    /\ SF_vars(Connect /\ row' = [s \in Sessions |->
                                    IF s \in Reconcile THEN "over" ELSE row[s]])
    /\ WF_vars(Start)
    /\ SF_vars(ReapTick)

LiveSpec == Spec /\ Fairness

-----------------------------------------------------------------------------
(* Properties.                                                             *)

\* However requests, evictions, failed acks and reconnects interleave, the
\* SessionManager never holds more PTYs than config.session_limit.
WithinLimit == Cardinality(ptys) <= Limit

\* While the daemon is cut off from the control plane the three tables agree:
\* only native PTYs are left, no terminal channel is open, and every record
\* that is not over is Detached and has its PTY, so that a viewer can rejoin
\* exactly the sessions it is shown.
OfflineConsistent ==
    phase = "backoff" =>
        /\ ptys = Native
        /\ \A s \in Sessions : chans[s] = {}
        /\ \A s \in Sessions :
              HasRecord(s) /\ rec[s].state \notin Terminal
                => rec[s].state = "Detached" /\ s \in ptys

\* A running daemon never kills the PTY of a recorded session without marking
\* the record Ended or Failed in the same step: not when it evicts, revokes,
\* reaps, detaches or loses its connection.  close_all is the exception: it
\* marks only what the backend listed.
NoSilentKill ==
    [][\/ phase' = "stopped"
       \/ \E listOk \in BOOLEAN : CloseAllSessions(listOk)
       \/ \A s \in ptys \ ptys' : HasRecord(s) => rec'[s].state \in Terminal]_vars

\* A request the host can serve, for a session that does not run yet, costs at
\* most one other session its PTY, even when stale Detached records without a
\* PTY are evicted on the way.
ServableEvictsAtMostOne ==
    [][Cardinality(ptys \ ptys') > 1 =>
          ~ \E s \in Sessions \ ptys, ackSent \in BOOLEAN, E \in SUBSET Evictable :
               SessionRequest(s, TRUE, ackSent, E)]_vars

\* A servable request is refused only when every slot is taken by a session
\* that may not be evicted: the eviction loop never gives up too early.
RefusedOnlyIfFull ==
    [][Cardinality(ptys') < Limit \/ ptys' \cap Evictable' # {} =>
          \A s \in Sessions \ ptys', ackSent \in BOOLEAN, E \in SUBSET Evictable :
             Kind[s] \in {"shell", "attach"} => ~SessionRequest(s, TRUE, ackSent, E)]_vars

\* The eviction loop of session_request frees what it needs: neither more than
\* one live session for a request it serves, nor too little for one it could
\* have served (daemon.rs 4547-4597).
EvictsAsNeeded == ServableEvictsAtMostOne /\ RefusedOnlyIfFull

\* A row that the backend lists as active although the session has no PTY does
\* not stay so: lost transitions, crashes and failed acks are repaired by the
\* reconciliation of a later connection.
DeadRowsEnd ==
    \A s \in Sessions :
        (row[s] = "active" /\ s \notin ptys) ~> (row[s] # "active" \/ s \in ptys)

\* The slot of a shell that has exited is given back, attached or not.
ExitedReaped == \A s \in Sessions : (s \in exited) ~> (s \notin exited)

\* What died is cleared up: the slot of an exited shell by the reap tick, the
\* row of a session without PTY by a later connection (daemon.rs 619-653,
\* 1130-1166).
SessionsSettle == DeadRowsEnd /\ ExitedReaped

=============================================================================
