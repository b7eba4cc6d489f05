--------------------------- MODULE AgentSessions ---------------------------
(***************************************************************************)
(* Coding agents: the child processes, the registries and the router of    *)
(* agent_session.rs, the pumps of daemon/agent_pump.rs, and the arms of    *)
(* the select loop that bind, detach and close agents (daemon.rs).         *)
(*                                                                         *)
(* A device opens an agent, under an id of its choice, over a data channel *)
(* or over the WebSocket.  A Claude agent has a child of its own, that a   *)
(* later open with the id of its conversation takes over; all Codex agents *)
(* share one child.  The output of a child goes to its sink, the pump of   *)
(* the last bind.  The select loop handles one message at a time; children *)
(* and pumps run beside it.                                                *)
(*                                                                         *)
(* Sessions are numbered in the order of their spawn, and pumps by their   *)
(* bind.  The conversation of a session that resumes nothing has its       *)
(* number.  Only the line of output that names the conversation is         *)
(* modelled: the others change nothing.                                    *)
(***************************************************************************)
EXTENDS Integers, FiniteSets

CONSTANTS
    Agents,       \* agent ids
    Slots,        \* bound: agents and the transports they are opened over
    None,         \* no agent, session, pump or conversation
    MaxSessions,  \* bound: children ever spawned
    MaxBinds      \* bound: binds

ASSUME AgentAssumption ==
    /\ IsFiniteSet(Agents) /\ None \notin Agents
    /\ None \notin Nat /\ None \notin {"codex", "claude"}
    /\ None \notin [sess : Nat, resume : Nat \cup {None}]
    /\ Slots \subseteq {"dc", "ws"} \X Agents
    /\ MaxSessions \in Nat /\ MaxBinds \in Nat

VARIABLES
    child, exit,  \* of each session: its process, and its exit slot
    backend, conv, sink,
    by_id, by_resume_id, hub, backends,    \* AgentManager, CodexHub, AgentRouter
    pumps,        \* agent_pumps ("dc") and agent_ws_pumps ("ws")
    chan,         \* data channel of each agent
    op,           \* what the select loop is in the middle of
    spawned, binds,
    used, reused  \* agent ids bound so far; one was bound twice

sessionVars == <<child, exit, backend, conv, sink, spawned>>
registry == <<by_id, by_resume_id, hub, backends>>
history == <<binds, used, reused>>
vars == <<sessionVars, registry, pumps, chan, op, history>>

Sessions == 1 .. MaxSessions
Convs == Sessions
Idle == [kind |-> "idle"]

\* A pump that has returned; its handle is still kept.
Ended == [n |-> 0, live |-> FALSE]

\* An entry of AgentManager.
Entries == [sess : Sessions, resume : Convs \cup {None}]

\* A pump that runs.
RunningPumps ==
    [n : 1 .. MaxBinds, sess : Sessions, live : {TRUE}, line : BOOLEAN, noted : BOOLEAN,
     asked : Convs \cup {None}]

\* An open that was begun, and a close.
Opens ==
    [kind : {"bind", "spawn"}, slot : Slots, backend : {"codex", "claude"},
     resume : Convs \cup {None}]
Closes ==
    [kind : {"close"}, sess : Sessions \cup {None}, todo : SUBSET Agents, all : BOOLEAN]

TypeOK ==
    /\ child \in [Sessions -> {"unborn", "running", "stopping", "ended"}]
    /\ exit \in [Sessions -> {"none", "normal", "crashed", "requested"}]
    /\ backend \in [Sessions -> {"codex", "claude"}]
    /\ conv \in [Sessions -> Convs]
    /\ sink \in [Sessions -> 0 .. MaxBinds]
    /\ by_id \in [Agents -> Entries \cup {None}]
    /\ by_resume_id \in [Convs -> Agents \cup {None}]
    /\ hub \in Sessions \cup {None}
    /\ backends \in [Agents -> {"codex", "claude", None}]
    /\ pumps \in [Slots -> RunningPumps \cup {None, Ended}]
    /\ chan \in [Agents -> {"none", "open", "closed"}]
    /\ op \in Opens \cup Closes \cup {Idle}
    /\ spawned \in 0 .. MaxSessions /\ binds \in 0 .. MaxBinds
    /\ used \subseteq Agents /\ reused \in BOOLEAN

Init ==
    /\ child = [s \in Sessions |-> "unborn"] /\ exit = [s \in Sessions |-> "none"]
    /\ backend = [s \in Sessions |-> "claude"] /\ conv = [s \in Sessions |-> s]
    /\ sink = [s \in Sessions |-> 0]
    /\ by_id = [a \in Agents |-> None] /\ by_resume_id = [c \in Convs |-> None]
    /\ hub = None /\ backends = [a \in Agents |-> None]
    /\ pumps = [x \in Slots |-> None] /\ chan = [a \in Agents |-> "none"]
    /\ op = Idle /\ spawned = 0 /\ binds = 0
    /\ used = {} /\ reused = FALSE

-----------------------------------------------------------------------------
(* AgentManager and AgentRouter                                            *)

\* The pump of bind n, if it still runs.
Reader(n) == {x \in Slots : pumps[x] # None /\ pumps[x].live /\ pumps[x].n = n}

\* Claude entry of agent a removed: the index forgets it if it still points at a.
RemovedFromIndex(a) ==
    [c \in Convs |->
        IF by_id[a] # None /\ by_id[a].resume = c /\ by_resume_id[c] = a THEN None
        ELSE by_resume_id[c]]

Remove(a) ==
    /\ by_id' = [by_id EXCEPT ![a] = None]
    /\ by_resume_id' = RemovedFromIndex(a)

Insert(a, entry) ==
    /\ by_id' = [by_id EXCEPT ![a] = entry]
    /\ by_resume_id' = IF entry.resume = None THEN by_resume_id
                       ELSE [by_resume_id EXCEPT ![entry.resume] = a]

\* Mutant: the index keeps pointing at the old id.
RekeyForgetsIndex(old, new) ==
    /\ by_id' = [[by_id EXCEPT ![old] = None] EXCEPT ![new] = by_id[old]]
    /\ UNCHANGED by_resume_id

\* The entry of old moves to new, and the index follows.
Rekey(old, new) ==
    /\ by_id' = [[by_id EXCEPT ![old] = None] EXCEPT ![new] = by_id[old]]
    /\ by_resume_id' = IF by_id[old].resume = None THEN by_resume_id
                       ELSE [by_resume_id EXCEPT ![by_id[old].resume] = new]

\* The session that gets a line sent to agent a.
Target(a) ==
    IF backends[a] = "codex" THEN hub
    ELSE IF backends[a] = "claude" /\ by_id[a] # None THEN by_id[a].sess
    ELSE None

-----------------------------------------------------------------------------
(* Children                                                                *)

\* The supervisor notes the end of a child that ends by itself.
ChildExits(s) ==
    /\ child[s] = "running"
    /\ child' = [child EXCEPT ![s] = "ended"]
    /\ \E why \in {"normal", "crashed"} : exit' = [exit EXCEPT ![s] = why]
    /\ UNCHANGED <<backend, conv, sink, spawned, registry, pumps, chan, op, history>>

\* A child that was asked to stop does.
ChildStops(s) ==
    /\ child[s] = "stopping"
    /\ child' = [child EXCEPT ![s] = "ended"]
    /\ exit' = [exit EXCEPT ![s] = "requested"]
    /\ UNCHANGED <<backend, conv, sink, spawned, registry, pumps, chan, op, history>>

\* What refers to session s: an entry, the hub, a pump, the operation under way.
Referenced(s) ==
    \/ \E a \in Agents : by_id[a] # None /\ by_id[a].sess = s
    \/ hub = s
    \/ \E x \in Slots : pumps[x] # None /\ pumps[x].live /\ pumps[x].sess = s
    \/ op.kind = "close" /\ op.sess = s

\* Drop: the tasks are aborted, and the child killed with its supervisor.
SessionDropped(s) ==
    /\ child[s] = "running" /\ ~Referenced(s)
    /\ child' = [child EXCEPT ![s] = "ended"]
    /\ UNCHANGED <<exit, backend, conv, sink, spawned, registry, pumps, chan, op, history>>

\* The forwarder: the line that names the conversation goes to the sink.  A
\* sink that nobody reads is cleared.
Forwards(s) ==
    /\ child[s] = "running" /\ backend[s] = "claude" /\ sink[s] # 0
    /\ IF Reader(sink[s]) = {} THEN
           /\ sink' = [sink EXCEPT ![s] = 0] /\ UNCHANGED pumps
       ELSE
           /\ \E x \in Reader(sink[s]) :
                  /\ ~pumps[x].line /\ ~pumps[x].noted
                  /\ pumps' = [pumps EXCEPT ![x].line = TRUE]
           /\ UNCHANGED sink
    /\ UNCHANGED <<child, exit, backend, conv, spawned, registry, chan, op, history>>

-----------------------------------------------------------------------------
(* Pumps                                                                   *)

\* maybe_note_claude_resume_id: the entry of the agent, if it has none yet,
\* gets the conversation that its child named.
NoteResumeId(a, c) ==
    IF by_id[a] # None /\ by_id[a].resume = None
    THEN Insert(a, [by_id[a] EXCEPT !.resume = c])
    ELSE UNCHANGED <<by_id, by_resume_id>>

\* A pump reads the line, notes it and sends it; over a closed channel it ends.
PumpReads(x) ==
    /\ pumps[x] # None /\ pumps[x].live /\ pumps[x].line
    /\ NoteResumeId(x[2], conv[pumps[x].sess])
    /\ pumps' = [pumps EXCEPT ![x] =
           IF x[1] = "dc" /\ chan[x[2]] # "open" THEN Ended
           ELSE [@ EXCEPT !.line = FALSE, !.noted = TRUE]]
    /\ UNCHANGED <<sessionVars, hub, backends, chan, op, history>>

\* The sender of its sink is gone: the pump reports the exit and ends, and
\* closes its data channel.
PumpEnds(x) ==
    /\ pumps[x] # None /\ pumps[x].live /\ ~pumps[x].line
    /\ sink[pumps[x].sess] # pumps[x].n
    /\ pumps' = [pumps EXCEPT ![x] = Ended]
    /\ chan' = IF x[1] = "dc" /\ chan[x[2]] = "open" THEN [chan EXCEPT ![x[2]] = "closed"] ELSE chan
    /\ UNCHANGED <<sessionVars, registry, op, history>>

-----------------------------------------------------------------------------
(* Binding                                                                 *)

ChannelCloses(a) ==
    /\ chan[a] = "open" /\ chan' = [chan EXCEPT ![a] = "closed"]
    /\ UNCHANGED <<sessionVars, registry, pumps, op, history>>

\* The loop begins the bind of an agent that has no pump under its id.
Binds(x, b, r) ==
    /\ op = Idle /\ binds < MaxBinds /\ x \in Slots
    /\ pumps[x] = None
    /\ r # None => b = "claude" /\ r <= spawned
    /\ op' = [kind |-> "bind", slot |-> x, backend |-> b, resume |-> r]
    /\ UNCHANGED <<sessionVars, registry, pumps, history>>

\* The first message after the authentication of a data channel is the init; a
\* later one is input while there is a pump.
AgentMessage(a, b, r) ==
    /\ chan[a] # "closed" /\ chan' = [chan EXCEPT ![a] = "open"]
    /\ Binds(<<"dc", a>>, b, r)

\* agent_init over the WebSocket; a second one is ignored.
AgentInit(a, b, r) == Binds(<<"ws", a>>, b, r) /\ UNCHANGED chan

\* The pump of a bind that succeeded.
NewPump(s) ==
    [n |-> binds + 1, sess |-> s, live |-> TRUE, line |-> FALSE,
     noted |-> op.backend = "codex", asked |-> op.resume]

\* The sink is that of the new pump, and the route is recorded.
Bound(s) ==
    LET a == op.slot[2] IN
    /\ binds' = binds + 1
    /\ sink' = [sink EXCEPT ![s] = binds + 1]
    /\ backends' = [backends EXCEPT ![a] = op.backend]
    /\ pumps' = [pumps EXCEPT ![op.slot] = NewPump(s)]
    /\ used' = used \cup {a} /\ reused' = (reused \/ a \in used)
    /\ op' = Idle
    /\ UNCHANGED chan

Indexed(r) == r # None /\ by_resume_id[r] # None /\ by_id[by_resume_id[r]] # None

\* AgentManager::bind: the session of the conversation is taken over ...
Rebinds ==
    LET prev == by_resume_id[op.resume] IN
    /\ op.kind = "bind" /\ op.backend = "claude" /\ Indexed(op.resume)
    /\ exit[by_id[prev].sess] = "none"
    /\ Rekey(prev, op.slot[2])
    /\ Bound(by_id[prev].sess)
    /\ UNCHANGED <<child, exit, backend, conv, spawned, hub>>

\* ... its entry is removed if its child has ended ...
ForgetsDead ==
    LET prev == by_resume_id[op.resume] IN
    /\ op.kind = "bind" /\ op.backend = "claude" /\ Indexed(op.resume)
    /\ exit[by_id[prev].sess] # "none"
    /\ Remove(prev)
    /\ op' = [op EXCEPT !.kind = "spawn"]
    /\ UNCHANGED <<sessionVars, hub, backends, pumps, chan, history>>

\* ... and if there is none a child is spawned.
NothingToRebind ==
    /\ op.kind = "bind" /\ op.backend = "claude" /\ ~Indexed(op.resume)
    /\ op' = [op EXCEPT !.kind = "spawn"]
    /\ UNCHANGED <<sessionVars, registry, pumps, chan, history>>

\* No launch plan works: the device is told.
SpawnFails ==
    /\ op.kind = "spawn" /\ op' = Idle
    /\ UNCHANGED <<sessionVars, registry, pumps, chan, history>>

Spawned(b, c) ==
    /\ spawned < MaxSessions /\ spawned' = spawned + 1
    /\ child' = [child EXCEPT ![spawned + 1] = "running"]
    /\ backend' = [backend EXCEPT ![spawned + 1] = b]
    /\ conv' = [conv EXCEPT ![spawned + 1] = IF c = None THEN @ ELSE c]
    /\ UNCHANGED exit

SpawnsClaude ==
    /\ op.kind = "spawn" /\ op.backend = "claude"
    /\ Spawned("claude", op.resume)
    /\ Insert(op.slot[2], [sess |-> spawned + 1, resume |-> op.resume])
    /\ Bound(spawned + 1)
    /\ UNCHANGED hub

HubAlive == hub # None /\ exit[hub] = "none"

\* CodexHub::bind: the shared child, or a new one if there is none or it ended.
BindsHub ==
    /\ op.kind = "bind" /\ op.backend = "codex" /\ HubAlive
    /\ Bound(hub)
    /\ UNCHANGED <<child, exit, backend, conv, spawned, by_id, by_resume_id, hub>>

HubNeedsSpawn ==
    /\ op.kind = "bind" /\ op.backend = "codex" /\ ~HubAlive
    /\ op' = [op EXCEPT !.kind = "spawn"]
    /\ UNCHANGED <<sessionVars, registry, pumps, chan, history>>

SpawnsHub ==
    /\ op.kind = "spawn" /\ op.backend = "codex"
    /\ Spawned("codex", None)
    /\ hub' = spawned + 1
    /\ Bound(spawned + 1)
    /\ UNCHANGED <<by_id, by_resume_id>>

-----------------------------------------------------------------------------
(* Detaching and closing                                                   *)

Aborted(slots) == [x \in Slots |-> IF x \in slots THEN None ELSE pumps[x]]

\* AgentChannelClosed: the pump is aborted, the route forgotten and the sink
\* of the session behind it cleared, whoever reads it by now.
AgentChannelClosed(a) ==
    /\ op = Idle /\ chan[a] = "closed" /\ chan' = [chan EXCEPT ![a] = "none"]
    /\ pumps' = Aborted({<<"dc", a>>})
    /\ backends' = [backends EXCEPT ![a] = None]
    /\ sink' = IF Target(a) = None THEN sink ELSE [sink EXCEPT ![Target(a)] = 0]
    /\ UNCHANGED <<child, exit, backend, conv, spawned, by_id, by_resume_id, hub, op, history>>

\* AgentSession::close, begun: the flag is set, the input closed, SIGTERM sent.
StopBegins(s, todo, all) ==
    /\ child' = [child EXCEPT ![s] = IF @ = "running" THEN "stopping" ELSE @]
    /\ op' = [kind |-> "close", sess |-> s, todo |-> todo, all |-> all]

\* agent_close for an agent with a route: its child is stopped, the shared one
\* of Codex too.
AgentClose(a) ==
    /\ op = Idle /\ Target(a) # None
    /\ pumps' = Aborted({<<"ws", a>>})
    /\ backends' = [backends EXCEPT ![a] = None]
    /\ IF backends[a] = "codex" THEN hub' = None /\ UNCHANGED <<by_id, by_resume_id>>
       ELSE Remove(a) /\ UNCHANGED hub
    /\ StopBegins(Target(a), {}, FALSE)
    /\ UNCHANGED <<exit, backend, conv, sink, spawned, chan, history>>

\* agent_close for an agent without one.
AgentCloseUnknown(a) ==
    /\ op = Idle /\ Target(a) = None
    /\ pumps' = Aborted({<<"ws", a>>})
    /\ backends' = [backends EXCEPT ![a] = None]
    /\ UNCHANGED <<sessionVars, by_id, by_resume_id, hub, chan, op, history>>

\* close_all_active_sessions: the pumps of the WebSocket are aborted, then every
\* entry is closed in turn, the shared child last.
CloseAll ==
    /\ op = Idle
    /\ pumps' = Aborted({x \in Slots : x[1] = "ws"})
    /\ op' = [kind |-> "close", sess |-> None, all |-> TRUE,
              todo |-> {a \in Agents : by_id[a] # None}]
    /\ UNCHANGED <<sessionVars, registry, chan, history>>

\* The session being closed has ended, or there was none.
Closed == op.kind = "close" /\ \A s \in Sessions : op.sess = s => child[s] = "ended"

ClosesNext(a) ==
    /\ Closed /\ a \in op.todo
    /\ Remove(a)
    /\ StopBegins(by_id[a].sess, op.todo \ {a}, TRUE)
    /\ UNCHANGED <<exit, backend, conv, sink, spawned, hub, backends, pumps, chan, history>>

ClosesHub ==
    /\ Closed /\ op.all /\ op.todo = {} /\ hub # None
    /\ hub' = None
    /\ StopBegins(hub, {}, TRUE)
    /\ UNCHANGED <<exit, backend, conv, sink, spawned, by_id, by_resume_id, backends, pumps,
                   chan, history>>

CloseEnds ==
    /\ Closed /\ op.todo = {} /\ (op.all => hub = None)
    /\ backends' = IF op.all THEN [a \in Agents |-> None] ELSE backends
    /\ op' = Idle
    /\ UNCHANGED <<sessionVars, by_id, by_resume_id, hub, pumps, chan, history>>

\* Mutant: the wait for the tasks has no timeout.
CloseWaits ==
    /\ op.kind = "close" /\ op.sess # None /\ child[op.sess] = "ended"
    /\ UNCHANGED vars

\* The tasks did not end in time: they are aborted, and the child killed with
\* its supervisor, which records nothing.
CloseAborts ==
    /\ op.kind = "close" /\ op.sess # None /\ child[op.sess] = "stopping"
    /\ child' = [child EXCEPT ![op.sess] = "ended"]
    /\ UNCHANGED <<exit, backend, conv, sink, spawned, registry, pumps, chan, op, history>>

\* claude_idle_tick: entries whose child has ended go, with their routes.
Sweep ==
    LET stale == {a \in Agents : by_id[a] # None /\ exit[by_id[a].sess] # "none"} IN
    /\ op = Idle /\ stale # {}
    /\ by_id' = [a \in Agents |-> IF a \in stale THEN None ELSE by_id[a]]
    /\ by_resume_id' = [c \in Convs |->
           IF \E a \in stale : by_id[a].resume = c /\ by_resume_id[c] = a THEN None
           ELSE by_resume_id[c]]
    /\ backends' = [a \in Agents |-> IF a \in stale THEN None ELSE backends[a]]
    /\ UNCHANGED <<sessionVars, hub, pumps, chan, op, history>>

-----------------------------------------------------------------------------

Loop ==
    \/ Rebinds \/ ForgetsDead \/ NothingToRebind \/ SpawnFails \/ SpawnsClaude
    \/ BindsHub \/ HubNeedsSpawn \/ SpawnsHub
    \/ (\E a \in Agents : ClosesNext(a)) \/ ClosesHub \/ CloseEnds \/ CloseAborts

Pumps == \E x \in Slots : PumpReads(x) \/ PumpEnds(x)

Next ==
    \/ Loop \/ Pumps \/ Sweep \/ CloseAll
    \/ \E s \in Sessions : ChildExits(s) \/ ChildStops(s) \/ SessionDropped(s) \/ Forwards(s)
    \/ \E a \in Agents :
          \/ ChannelCloses(a) \/ AgentChannelClosed(a)
          \/ AgentClose(a) \/ AgentCloseUnknown(a)
    \/ \E a \in Agents, b \in {"codex", "claude"}, r \in Convs \cup {None} :
          AgentMessage(a, b, r) \/ AgentInit(a, b, r)

\* The loop finishes what it has begun, with its timeouts; pumps are scheduled;
\* and between the operations of the loop a channel event that waits, and the
\* tick of the sweep, have their turn.
Fairness ==
    /\ WF_vars(Loop) /\ WF_vars(Pumps)
    /\ SF_vars(\E a \in Agents : AgentChannelClosed(a)) /\ SF_vars(Sweep)

Spec == Init /\ [][Next]_vars /\ Fairness

-----------------------------------------------------------------------------
(* Properties                                                              *)

\* As long as devices choose a fresh id for every open, the resume index only
\* points at entries of that conversation, whose session runs it: a resumed
\* conversation never reaches the child of another (agent_session.rs 1250-1356).
IndexSound ==
    ~reused => \A c \in Convs :
        by_resume_id[c] # None =>
            LET e == by_id[by_resume_id[c]] IN
            e # None /\ e.resume = c /\ conv[e.sess] = c

\* Under the same condition, the device of a pump that reads a running child
\* gets the conversation it asked for, and its input goes to that child or
\* nowhere (agent_session.rs 1546-1584, daemon.rs 2933-2941).
PumpsMatch ==
    ~reused => \A x \in Slots :
        (pumps[x] # None /\ pumps[x].live /\ child[pumps[x].sess] = "running") =>
            /\ pumps[x].asked \in {None, conv[pumps[x].sess]}
            /\ Target(x[2]) \in {None, pumps[x].sess}

\* Under the same condition, a running child is in a registry or is being
\* closed: none is left that only a pump keeps alive (agent_session.rs 1258,
\* 1271, 1420, 1520).
ChildrenRegistered ==
    ~reused => \A s \in Sessions :
        child[s] = "running" =>
            hub = s \/ \E a \in Agents : by_id[a] # None /\ by_id[a].sess = s

\* A Claude agent whose route and channel are in place is heard: no late close
\* of another agent takes its sink (agent_session.rs 1360-1371, 1588-1595).
ClaudeHeard ==
    ~reused => \A x \in Slots :
        (/\ pumps[x] # None /\ pumps[x].live
         /\ backends[x[2]] = "claude" /\ by_id[x[2]] # None)
            => sink[by_id[x[2]].sess] = pumps[x].n

\* The registries of the agent sessions stay sound together: a conversation, its
\* child, its pump and its sink belong to one another, however binds, closes and
\* sweeps interleave (agent_session.rs 1222-1430, 1542-1667).
AgentsSound == TypeOK /\ IndexSound /\ PumpsMatch /\ ChildrenRegistered /\ ClaudeHeard

Abstract == INSTANCE AgentChildren WITH state <- child, reason <- exit

\* The sessions implement AgentChildren: in particular a close always ends, also
\* when the child ignores SIGTERM, and the reason recorded is never changed by a
\* close that comes late (agent_session.rs 549-582, 1099-1143).
Children == Abstract!Spec

=============================================================================
