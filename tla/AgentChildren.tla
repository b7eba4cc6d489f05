--------------------------- MODULE AgentChildren ---------------------------
(***************************************************************************)
(* What agent sessions promise about their child processes, whatever the   *)
(* daemon, the devices and the pumps do: a child runs once, it is stopped  *)
(* only on request or when nothing refers to it any more, a stop ends, and *)
(* the reason of its end, once recorded, is the true one and final         *)
(* (agent_session.rs, AgentSession and ExitReason).                        *)
(***************************************************************************)
CONSTANT Sessions

VARIABLES
    state,    \* of each child: "unborn", "running", "stopping", "ended"
    reason    \* of its end: "none", "normal", "crashed", "requested"

vars == <<state, reason>>

Init ==
    /\ state = [s \in Sessions |-> "unborn"]
    /\ reason = [s \in Sessions |-> "none"]

Moves(s, from, to) == state[s] = from /\ state' = [state EXCEPT ![s] = to]

Spawned(s) == Moves(s, "unborn", "running") /\ UNCHANGED reason

\* The child ends by itself.
Exits(s) ==
    /\ Moves(s, "running", "ended")
    /\ \E why \in {"normal", "crashed"} : reason' = [reason EXCEPT ![s] = why]

StopRequested(s) == Moves(s, "running", "stopping") /\ UNCHANGED reason

\* It ends on request; a child that has to be killed leaves no reason.
Stops(s) ==
    /\ Moves(s, "stopping", "ended")
    /\ \E why \in {"requested", "none"} : reason' = [reason EXCEPT ![s] = why]

\* The last reference to the session is gone.
Dropped(s) == Moves(s, "running", "ended") /\ UNCHANGED reason

Next ==
    \E s \in Sessions :
        Spawned(s) \/ Exits(s) \/ StopRequested(s) \/ Stops(s) \/ Dropped(s)

Spec == Init /\ [][Next]_vars /\ \A s \in Sessions : WF_vars(Stops(s))

=============================================================================
