--------------------------- MODULE ControlPlane ---------------------------
(***************************************************************************)
(* The control-plane connection over time (daemon.rs, transport.rs): the   *)
(* connect loop with its back-off, the pings and the watchdog that are to  *)
(* notice a socket that died without an error, and the stall check of the  *)
(* heartbeat.  One unit of time is the watchdog's period.                  *)
(*                                                                         *)
(* The connection is served by one select loop: while a handler awaits     *)
(* something else (busy) no branch of it runs, and when it returns the     *)
(* branches that became ready run in any order.                            *)
(***************************************************************************)
EXTENDS Integers

CONSTANTS
    PingEvery,  \* units between pings (30 s)
    PongWithin, \* units a pong may take (WS_PONG_DEADLINE, 15 s)
    IdleLimit,  \* units without a frame (WS_READ_IDLE_LIMIT, 90 s)
    BackoffMax, \* the longest back-off (30 s)
    BusyMax     \* bound: units handlers keep the loop, per connection

ControlAssumption ==
    /\ PingEvery \in Nat \ {0} /\ PongWithin \in Nat \ {0, 1}
    /\ IdleLimit \in Nat /\ BackoffMax \in Nat \ {0} /\ BusyMax \in Nat

VARIABLES
    link,       \* "down", "up", or "stopped": the daemon has returned
    backoff,    \* units to the next attempt
    alive,      \* the backend hears and answers
    silent,     \* units the loop was free since it stopped answering
    owed,       \* pings the backend has not answered: the age of the oldest, or -1
    inbox,      \* frames that have arrived and were not read
    sinceMsg,   \* units since last_ws_message_at
    deadline,   \* units to pending_ping_deadline (0: it has passed), -1: none
    pingIn,     \* units to the next ws_ping_tick
    watch,      \* ws_watchdog_tick is due
    busy,       \* a handler keeps the loop
    held,       \* units handlers have kept it
    late        \* a handler kept it since the deadline was armed

vars == <<link, backoff, alive, silent, owed, inbox, sinceMsg, deadline, pingIn, watch,
          busy, held, late>>

TypeOK ==
    /\ link \in {"down", "up", "stopped"}
    /\ backoff \in 1..BackoffMax
    /\ alive \in BOOLEAN /\ silent \in Nat
    /\ owed \in -1..PongWithin
    /\ inbox \subseteq {"pong", "signal"}
    /\ sinceMsg \in 0..(IdleLimit + 1) /\ deadline \in -1..PongWithin
    /\ pingIn \in 0..PingEvery
    /\ watch \in BOOLEAN /\ busy \in BOOLEAN /\ late \in BOOLEAN
    /\ held \in 0..BusyMax

(* What a connection starts with; the interval's first ping is immediate. *)
Fresh ==
    /\ silent' = 0 /\ owed' = -1 /\ inbox' = {}
    /\ sinceMsg' = 0 /\ deadline' = -1 /\ pingIn' = 0
    /\ watch' = FALSE /\ busy' = FALSE /\ held' = 0 /\ late' = FALSE

Init ==
    /\ link = "down" /\ backoff = 1 /\ alive = TRUE
    /\ silent = 0 /\ owed = -1 /\ inbox = {}
    /\ sinceMsg = 0 /\ deadline = -1 /\ pingIn = 0
    /\ watch = FALSE /\ busy = FALSE /\ held = 0 /\ late = FALSE

Doubled == IF 2 * backoff > BackoffMax THEN BackoffMax ELSE 2 * backoff

(* The token is fresh and the socket opens; daemon_started is sent. *)
Connect ==
    /\ link = "down" /\ alive
    /\ link' = "up" /\ backoff' = 1
    /\ Fresh
    /\ UNCHANGED alive

(* The connect, or the first send, fails: wait, twice as long next time. *)
ConnectFails ==
    /\ link = "down"
    /\ backoff' = Doubled
    /\ UNCHANGED <<link, alive, silent, owed, inbox, sinceMsg, deadline, pingIn, watch,
                   busy, held, late>>

(* The loop is left. *)
Leaves ==
    /\ link' = "down" /\ backoff' = Doubled
    /\ Fresh
    /\ UNCHANGED alive

-----------------------------------------------------------------------------
(* The backend, or the path to it, goes silent; it comes back for the next *)
(* connection.                                                             *)
GoesSilent ==
    /\ link = "up" /\ alive
    /\ alive' = FALSE
    /\ owed' = -1
    /\ UNCHANGED <<link, backoff, silent, inbox, sinceMsg, deadline, pingIn, watch,
                   busy, held, late>>

ComesBack ==
    /\ link = "down" /\ ~alive
    /\ alive' = TRUE
    /\ UNCHANGED <<link, backoff, silent, owed, inbox, sinceMsg, deadline, pingIn, watch,
                   busy, held, late>>

Answers ==
    /\ link = "up" /\ alive /\ owed >= 0
    /\ inbox' = inbox \cup {"pong"}
    /\ owed' = -1
    /\ UNCHANGED <<link, backoff, alive, silent, sinceMsg, deadline, pingIn, watch,
                   busy, held, late>>

Signals ==
    /\ link = "up" /\ alive /\ "signal" \notin inbox
    /\ inbox' = inbox \cup {"signal"}
    /\ UNCHANGED <<link, backoff, alive, silent, owed, sinceMsg, deadline, pingIn, watch,
                   busy, held, late>>

(* The backend closes the socket, or a read or a send fails. *)
SocketFails ==
    /\ link = "up" /\ ~busy
    /\ Leaves

-----------------------------------------------------------------------------
Free == link = "up" /\ ~busy

(* ws_ping_tick: an earlier deadline that is still pending stays. *)
Ping ==
    /\ Free /\ pingIn = 0
    /\ pingIn' = PingEvery
    /\ owed' = IF alive /\ owed = -1 THEN 0 ELSE owed
    /\ deadline' = IF deadline = -1 THEN PongWithin ELSE deadline
    /\ late' = IF deadline = -1 THEN FALSE ELSE late
    /\ UNCHANGED <<link, backoff, alive, silent, inbox, sinceMsg, watch, busy, held>>

\* Mutant: a pong does not disarm the deadline.
ReceiveKeepsDeadline(f) ==
    /\ Free /\ f \in inbox
    /\ inbox' = inbox \ {f}
    /\ sinceMsg' = 0
    /\ UNCHANGED <<link, backoff, alive, silent, owed, deadline, pingIn, watch, busy, held, late>>

(* recv_signal: any frame is a sign of life, a pong also disarms. *)
Receive(f) ==
    /\ Free /\ f \in inbox
    /\ inbox' = inbox \ {f}
    /\ sinceMsg' = 0
    /\ deadline' = IF f = "pong" THEN -1 ELSE deadline
    /\ UNCHANGED <<link, backoff, alive, silent, owed, pingIn, watch, busy, held, late>>

(* daemon_kill: sessions closed, the service uninstalled, and out. *)
Killed ==
    /\ Free /\ "signal" \in inbox
    /\ link' = "stopped"
    /\ Fresh
    /\ UNCHANGED <<backoff, alive>>

(* ws_watchdog_tick. *)
WatchdogQuiet ==
    /\ Free /\ watch
    /\ sinceMsg <= IdleLimit /\ deadline # 0
    /\ watch' = FALSE
    /\ UNCHANGED <<link, backoff, alive, silent, owed, inbox, sinceMsg, deadline, pingIn,
                   busy, held, late>>

WatchdogBites ==
    /\ Free /\ watch
    /\ sinceMsg > IdleLimit \/ deadline = 0
    /\ Leaves

(* A handler awaits something slow: a refresh, a file, a child. *)
HandlerBlocks ==
    /\ Free /\ held < BusyMax
    /\ busy' = TRUE
    /\ late' = TRUE
    /\ UNCHANGED <<link, backoff, alive, silent, owed, inbox, sinceMsg, deadline, pingIn, watch,
                   held>>

HandlerReturns ==
    /\ busy
    /\ busy' = FALSE
    /\ UNCHANGED <<link, backoff, alive, silent, owed, inbox, sinceMsg, deadline, pingIn, watch,
                   held, late>>

Down(n) == IF n > 0 THEN n - 1 ELSE n

(* Time passes.  A free loop has nothing due, and a backend that answers   *)
(* does so before the deadline.                                            *)
Tick ==
    /\ link = "up"
    /\ ~busy => ~watch /\ pingIn > 0 /\ inbox = {}
    /\ owed < PongWithin - 1
    /\ busy => held < BusyMax
    /\ held' = IF busy THEN held + 1 ELSE held
    /\ silent' = IF alive \/ busy THEN silent ELSE silent + 1
    /\ owed' = IF owed = -1 THEN -1 ELSE owed + 1
    /\ sinceMsg' = IF sinceMsg > IdleLimit THEN sinceMsg ELSE sinceMsg + 1
    /\ deadline' = Down(deadline)
    /\ pingIn' = Down(pingIn)
    /\ watch' = TRUE
    /\ UNCHANGED <<link, backoff, alive, inbox, busy, late>>

(* The heartbeat finds that the clocks jumped: the host slept. *)
Stalled ==
    /\ Free
    /\ Leaves

Next ==
    \/ Connect \/ ConnectFails \/ GoesSilent \/ ComesBack \/ Answers \/ Signals \/ SocketFails
    \/ Ping \/ \E f \in {"pong", "signal"} : Receive(f)
    \/ Killed \/ WatchdogQuiet \/ WatchdogBites \/ Stalled
    \/ HandlerBlocks \/ HandlerReturns \/ Tick

Spec == Init /\ [][Next]_vars

-----------------------------------------------------------------------------
(* A connection whose other end went silent is given up within one ping    *)
(* period, one pong deadline and one period of the watchdog, not counting  *)
(* what handlers take: "dead control-plane sockets sat in CLOSE_WAIT       *)
(* indefinitely" (transport.rs) is over.  And one whose other end answers  *)
(* in time is given up by the watchdog only if a handler kept the loop     *)
(* while the pong was due: the deadline is not measured against the pong's *)
(* arrival but against its being read.  The idle limit, which is longer    *)
(* than a ping period and a pong deadline, is passed only if handlers kept *)
(* the loop for the difference.                                            *)
WatchdogSound ==
    /\ silent <= PingEvery + PongWithin + 1
    /\ (link = "up" /\ alive /\ watch /\ deadline = 0) => late
    /\ sinceMsg > IdleLimit => held > IdleLimit - (PingEvery + PongWithin)
=============================================================================
