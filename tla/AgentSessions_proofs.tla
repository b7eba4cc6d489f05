------------------------ MODULE AgentSessions_proofs ------------------------
(***************************************************************************)
(* Proofs about AgentSessions, for any number of agents, transports,       *)
(* children and binds.                                                     *)
(***************************************************************************)
EXTENDS AgentSessions, TLAPS

\* The pump of slot x runs.
Live(x) == pumps[x] # None /\ pumps[x].live

\* Sessions are used in the order of their numbers, and only the end of a child
\* leaves a reason.
Numbered ==
    /\ \A s \in Sessions : s > spawned => child[s] = "unborn"
    /\ \A s \in Sessions : exit[s] # "none" => child[s] = "ended"
    /\ \A a \in Agents : by_id[a] # None => by_id[a].sess <= spawned
    /\ \A x \in Slots : Live(x) => pumps[x].sess <= spawned
    /\ hub # None => hub <= spawned

\* The hub holds the one child of Codex that runs, the entries hold the others.
HubSound ==
    /\ hub # None => backend[hub] = "codex"
    /\ \A s \in Sessions : (child[s] = "running" /\ backend[s] = "codex") => hub = s
    /\ \A a \in Agents : by_id[a] # None => backend[by_id[a].sess] = "claude"

\* Only Claude resumes, a bind that was begun is counted, a shared child is spawned
\* only where none runs, and what is still to be closed has an entry.
OpSound ==
    /\ op.kind \in {"bind", "spawn"} =>
           binds < MaxBinds /\ (op.resume # None => op.backend = "claude")
    /\ (op.kind = "spawn" /\ op.backend = "codex" /\ hub # None) => child[hub] # "running"
    /\ op.kind = "close" => \A a \in op.todo : by_id[a] # None

\* An agent id that was never bound has left nothing behind.
FreshIds ==
    \A a \in Agents \ used :
        /\ by_id[a] = None /\ backends[a] = None
        /\ \A x \in Slots : x[2] = a => pumps[x] = None

\* No two entries share a session.
OneEntry ==
    \A a, b \in Agents :
        (by_id[a] # None /\ by_id[b] # None /\ by_id[a].sess = by_id[b].sess) => a = b

\* A pump, the entry and the route of its agent name the same session.
Paired ==
    \A x \in Slots : Live(x) =>
        /\ by_id[x[2]] # None => by_id[x[2]].sess = pumps[x].sess
        /\ backends[x[2]] # None => backend[pumps[x].sess] = backends[x[2]]
        /\ pumps[x].asked \in {None, conv[pumps[x].sess]}

\* What holds as long as no agent id was bound twice.
WhileFresh ==
    ~reused => /\ FreshIds /\ OneEntry /\ Paired
               /\ IndexSound /\ ChildrenRegistered /\ ClaudeHeard

\* The inductive invariant.
AgentsInv == TypeOK /\ Numbered /\ HubSound /\ OpSound /\ WhileFresh

-----------------------------------------------------------------------------

\* What the types say of entries, pumps and slots.
LEMMA TypeFacts ==
  ASSUME TypeOK
  PROVE  /\ \A a \in Agents : by_id[a] # None =>
                by_id[a] \in Entries /\ by_id[a].sess \in Sessions
                /\ by_id[a].resume \in Convs \cup {None}
         /\ \A x \in Slots : Live(x) =>
                pumps[x] \in RunningPumps /\ pumps[x].sess \in Sessions /\ pumps[x].n \in Nat
                /\ pumps[x].asked \in Convs \cup {None}
         /\ \A x \in Slots : x[1] \in {"dc", "ws"} /\ x[2] \in Agents /\ x = <<x[1], x[2]>>
         /\ spawned \in Nat /\ binds \in Nat
         /\ \A s \in Sessions : s \in Nat /\ s # None
         /\ None \notin Agents /\ None \notin {"codex", "claude"}
         /\ \A e \in Entries : e # None
<1>1. \A a \in Agents : by_id[a] # None =>
          by_id[a] \in Entries /\ by_id[a].sess \in Sessions /\ by_id[a].resume \in Convs \cup {None}
  BY DEF TypeOK, Entries
<1>2. \A x \in Slots : Live(x) =>
          pumps[x] \in RunningPumps /\ pumps[x].sess \in Sessions /\ pumps[x].n \in Nat
          /\ pumps[x].asked \in Convs \cup {None}
  <2> SUFFICES ASSUME NEW x \in Slots, Live(x)
               PROVE  pumps[x] \in RunningPumps /\ pumps[x].sess \in Sessions /\ pumps[x].n \in Nat
                      /\ pumps[x].asked \in Convs \cup {None}
    OBVIOUS
  <2>1. pumps[x] \in RunningPumps \cup {None, Ended} /\ pumps[x] # None /\ pumps[x].live
    BY DEF TypeOK, Live
  <2>2. pumps[x] # Ended
    BY <2>1 DEF Ended
  <2>3. pumps[x] \in RunningPumps
    BY <2>1, <2>2
  <2> QED
    <3>1. pumps[x].n \in 1 .. MaxBinds /\ pumps[x].sess \in Sessions /\ pumps[x].asked \in Convs \cup {None}
      BY <2>3 DEF RunningPumps
    <3> QED
      BY <2>3, <3>1, AgentAssumption
<1>3. \A x \in Slots : x[1] \in {"dc", "ws"} /\ x[2] \in Agents /\ x = <<x[1], x[2]>>
  BY AgentAssumption
<1>4. spawned \in Nat /\ binds \in Nat /\ \A s \in Sessions : s \in Nat /\ s # None
  BY AgentAssumption DEF TypeOK, Sessions
<1>5. \A e \in Entries : e # None
  BY AgentAssumption DEF Entries, Sessions, Convs
<1> QED
  BY <1>1, <1>2, <1>3, <1>4, <1>5, AgentAssumption

\* At the start nothing runs.
LEMMA AgentsInit == Init => AgentsInv
<1> SUFFICES ASSUME Init PROVE AgentsInv
  OBVIOUS
<1>1. TypeOK
  <2>1. /\ child \in [Sessions -> {"unborn", "running", "stopping", "ended"}]
        /\ exit \in [Sessions -> {"none", "normal", "crashed", "requested"}]
        /\ backend \in [Sessions -> {"codex", "claude"}] /\ conv \in [Sessions -> Convs]
        /\ by_id \in [Agents -> Entries \cup {None}] /\ by_resume_id \in [Convs -> Agents \cup {None}]
        /\ hub \in Sessions \cup {None} /\ backends \in [Agents -> {"codex", "claude", None}]
        /\ pumps \in [Slots -> RunningPumps \cup {None, Ended}]
        /\ chan \in [Agents -> {"none", "open", "closed"}]
        /\ op \in Opens \cup Closes \cup {Idle} /\ used \subseteq Agents
    BY DEF Init, Convs
  <2>2. sink \in [Sessions -> 0 .. MaxBinds] /\ spawned \in 0 .. MaxSessions /\ binds \in 0 .. MaxBinds
    BY AgentAssumption DEF Init
  <2>3. reused \in BOOLEAN
    BY DEF Init
  <2> QED
    BY <2>1, <2>2, <2>3 DEF TypeOK
<1>2. Numbered /\ HubSound
  BY AgentAssumption DEF Init, Numbered, HubSound, Live, Sessions
<1>3. OpSound
  BY DEF Init, OpSound, Idle
<1>4. WhileFresh
  BY DEF Init, WhileFresh, FreshIds, OneEntry, Paired, Live, IndexSound, ChildrenRegistered, ClaudeHeard
<1> QED
  BY <1>1, <1>2, <1>3, <1>4 DEF AgentsInv

\* A child ends, by itself, on request or when it is killed.
LEMMA ChildEnds ==
  ASSUME AgentsInv, NEW s \in Sessions, child[s] # "unborn",
         child' = [child EXCEPT ![s] = "ended"],
         \E why \in {"none", "normal", "crashed", "requested"} : exit' = [exit EXCEPT ![s] = why],
         UNCHANGED <<backend, conv, sink, spawned, registry, pumps, chan, op, history>>
  PROVE  AgentsInv'
<1> USE DEF registry, history
<1>1. TypeOK'
  BY DEF AgentsInv, TypeOK, Entries, RunningPumps, Opens, Closes, Idle, Ended, Sessions, Convs
<1>2. Numbered' /\ HubSound' /\ OpSound'
  BY DEF AgentsInv, TypeOK, Numbered, HubSound, OpSound, Live
<1>3. WhileFresh'
  BY DEF AgentsInv, TypeOK, WhileFresh, FreshIds, OneEntry, Paired, Live, IndexSound, ChildrenRegistered, ClaudeHeard,
     Convs, Sessions
<1> QED
  BY <1>1, <1>2, <1>3 DEF AgentsInv

\* A step that only takes things away: pumps, routes, entries and the hub go,
\* children are told to stop, and what is left names the same sessions.
LEMMA Shrinks ==
  ASSUME AgentsInv, TypeOK', OpSound', ~reused => IndexSound',
         UNCHANGED <<exit, backend, conv, spawned, binds, used, reused>>,
         \A s \in Sessions : child'[s] = child[s] \/ (child[s] = "running" /\ child'[s] = "stopping"),
         \A x \in Slots : Live(x)' => /\ Live(x) /\ pumps'[x].n = pumps[x].n
                                       /\ pumps'[x].sess = pumps[x].sess
                                       /\ pumps'[x].asked = pumps[x].asked,
         \A x \in Slots : pumps[x] = None => pumps'[x] = None,
         \A a \in Agents : backends'[a] \in {backends[a], None},
         \A a \in Agents : by_id'[a] # None => by_id[a] # None /\ by_id'[a].sess = by_id[a].sess,
         \A a \in Agents : (by_id[a] # None /\ by_id'[a] = None) => child'[by_id[a].sess] # "running",
         hub' \in {hub, None},
         (hub # None /\ hub' = None) => child'[hub] # "running",
         ~reused => \A x \in Slots :
             (Live(x)' /\ backends'[x[2]] = "claude" /\ by_id'[x[2]] # None)
                 => sink'[by_id[x[2]].sess] = sink[by_id[x[2]].sess]
  PROVE  AgentsInv'
<1>0. TypeOK /\ Numbered /\ HubSound /\ OpSound /\ WhileFresh
  BY DEF AgentsInv
<1>t. /\ \A a \in Agents : by_id[a] # None => by_id[a].sess \in Sessions
      /\ \A x \in Slots : Live(x) => pumps[x].sess \in Sessions
      /\ \A x \in Slots : x[2] \in Agents
      /\ None \notin {"codex", "claude"} /\ hub \in Sessions \cup {None}
  BY <1>0, TypeFacts DEF TypeOK
<1>1. Numbered'
  BY <1>0, <1>t DEF Numbered, Sessions
<1>2. HubSound'
  BY <1>0, <1>t DEF HubSound, Sessions
<1>3. ASSUME ~reused PROVE FreshIds' /\ OneEntry'
  BY <1>0, <1>3, <1>t DEF WhileFresh, FreshIds, OneEntry
<1>4. ASSUME ~reused PROVE Paired'
  BY <1>0, <1>4, <1>t DEF WhileFresh, Paired
<1>5. ASSUME ~reused PROVE ChildrenRegistered'
  <2> SUFFICES ASSUME NEW s \in Sessions, child'[s] = "running"
               PROVE  hub' = s \/ \E a \in Agents : by_id'[a] # None /\ by_id'[a].sess = s
    BY DEF ChildrenRegistered, Sessions
  <2>1. child[s] = "running"
    OBVIOUS
  <2>2. hub = s \/ \E a \in Agents : by_id[a] # None /\ by_id[a].sess = s
    BY <1>0, <1>5, <2>1 DEF WhileFresh, ChildrenRegistered
  <2> QED
    BY <1>t, <2>2, TypeFacts, <1>0
<1>6. ASSUME ~reused PROVE ClaudeHeard'
  <2> SUFFICES ASSUME NEW x \in Slots, Live(x)', backends'[x[2]] = "claude", by_id'[x[2]] # None
               PROVE  sink'[by_id'[x[2]].sess] = pumps'[x].n
    BY DEF ClaudeHeard, Live
  <2>1. Live(x) /\ backends[x[2]] = "claude" /\ by_id[x[2]] # None
    BY <1>t
  <2>2. sink[by_id[x[2]].sess] = pumps[x].n
    BY <1>0, <1>6, <2>1 DEF WhileFresh, ClaudeHeard, Live
  <2> QED
    BY <1>6, <1>t, <2>1, <2>2
<1>7. WhileFresh'
  BY <1>3, <1>4, <1>5, <1>6 DEF WhileFresh
<1> QED
  BY <1>1, <1>2, <1>7 DEF AgentsInv

\* A step of the loop that changes nothing but what it is in the middle of, or
\* the state of a data channel.
LEMMA OpMoves ==
  ASSUME AgentsInv, op' \in Opens \cup Closes \cup {Idle}, OpSound',
         chan' \in [Agents -> {"none", "open", "closed"}],
         UNCHANGED <<sessionVars, registry, pumps, history>>
  PROVE  AgentsInv'
<1> USE DEF sessionVars, registry, history
<1>0. TypeOK /\ WhileFresh
  BY DEF AgentsInv
<1>1. TypeOK'
  BY <1>0 DEF TypeOK
<1>2. ~reused => IndexSound'
  BY <1>0 DEF WhileFresh, IndexSound
<1>3. \A x \in Slots : Live(x)' => Live(x)
  BY DEF Live
<1> QED
  BY <1>1, <1>2, <1>3, Shrinks

\* The entries that stay, stay as they are, and the index forgets the others.
LEMMA IndexShrinks ==
  ASSUME TypeOK, IndexSound, UNCHANGED <<conv, reused>>,
         \A c \in Convs : by_resume_id'[c] \in {by_resume_id[c], None},
         \A c \in Convs : by_resume_id'[c] # None =>
             by_id'[by_resume_id[c]] = by_id[by_resume_id[c]]
  PROVE  IndexSound'
BY DEF IndexSound

\* Forgetting an entry keeps the types and the index.
LEMMA RemoveKeeps ==
  ASSUME TypeOK, IndexSound, NEW a \in Agents, Remove(a), UNCHANGED <<conv, reused>>
  PROVE  /\ IndexSound'
         /\ by_id' \in [Agents -> Entries \cup {None}]
         /\ by_resume_id' \in [Convs -> Agents \cup {None}]
         /\ by_id'[a] = None /\ \A b \in Agents \ {a} : by_id'[b] = by_id[b]
<1>1. /\ by_id' \in [Agents -> Entries \cup {None}]
      /\ by_resume_id' \in [Convs -> Agents \cup {None}]
      /\ by_id'[a] = None /\ \A b \in Agents \ {a} : by_id'[b] = by_id[b]
  BY DEF TypeOK, Remove, RemovedFromIndex
<1>2. CASE reused
  BY <1>1, <1>2 DEF IndexSound
<1>3. CASE ~reused
  <2>1. \A c \in Convs : by_resume_id'[c] \in {by_resume_id[c], None}
    BY DEF Remove, RemovedFromIndex
  <2>2. ASSUME NEW c \in Convs, by_resume_id'[c] # None
        PROVE  by_id'[by_resume_id[c]] = by_id[by_resume_id[c]]
    <3>1. by_resume_id[c] \in Agents /\ by_resume_id'[c] = by_resume_id[c]
      BY <2>1, <2>2 DEF TypeOK
    <3>2. by_id[by_resume_id[c]] # None /\ by_id[by_resume_id[c]].resume = c
      BY <1>3, <3>1, TypeFacts DEF IndexSound
    <3>3. by_resume_id[c] # a
      BY <2>2, <3>1, <3>2, TypeFacts DEF Remove, RemovedFromIndex
    <3> QED
      BY <1>1, <3>1, <3>3
  <2> QED
    BY <1>1, <2>1, <2>2, IndexShrinks
<1> QED
  BY <1>1, <1>2, <1>3

\* The forwarder of a child.
LEMMA ForwardsStep ==
  ASSUME AgentsInv, NEW s \in Sessions, Forwards(s)
  PROVE  AgentsInv'
<1> USE DEF registry, history
<1>0. TypeOK /\ OpSound /\ WhileFresh
  BY DEF AgentsInv
<1>1. CASE Reader(sink[s]) = {}
  <2>1. sink' = [sink EXCEPT ![s] = 0] /\ UNCHANGED pumps
    BY <1>1 DEF Forwards
  <2>2. TypeOK'
    BY <1>0, <2>1, AgentAssumption DEF Forwards, TypeOK
  <2>3. OpSound' /\ (~reused => IndexSound')
    BY <1>0 DEF Forwards, OpSound, WhileFresh, IndexSound
  <2>4. \A x \in Slots : Live(x)' => Live(x)
    BY <2>1 DEF Live
  <2>5. ASSUME ~reused, NEW x \in Slots, Live(x), backends[x[2]] = "claude", by_id[x[2]] # None
        PROVE  sink'[by_id[x[2]].sess] = sink[by_id[x[2]].sess]
    <3>1. sink[by_id[x[2]].sess] = pumps[x].n
      BY <1>0, <2>5 DEF WhileFresh, ClaudeHeard, Live
    <3>2. x \in Reader(pumps[x].n)
      BY <2>5 DEF Reader, Live
    <3>3. by_id[x[2]].sess # s
      BY <1>1, <3>1, <3>2
    <3>4. by_id[x[2]].sess \in Sessions
      BY <1>0, <2>5, TypeFacts
    <3> QED
      BY <1>0, <2>1, <3>3, <3>4 DEF TypeOK
  <2> QED
    BY <2>1, <2>2, <2>3, <2>4, <2>5, Shrinks DEF Forwards
<1>2. CASE Reader(sink[s]) # {}
  <2>1. PICK x \in Reader(sink[s]) : pumps' = [pumps EXCEPT ![x].line = TRUE]
    BY <1>2 DEF Forwards
  <2>2. UNCHANGED sink
    BY <1>2 DEF Forwards
  <2>3. x \in Slots /\ Live(x)
    BY DEF Reader, Live
  <2>4. pumps[x] \in RunningPumps /\ [pumps[x] EXCEPT !.line = TRUE] \in RunningPumps
    BY <1>0, <2>3, TypeFacts DEF RunningPumps
  <2>5. pumps' \in [Slots -> RunningPumps \cup {None, Ended}]
    BY <1>0, <2>1, <2>3, <2>4 DEF TypeOK
  <2>6. TypeOK'
    BY <1>0, <2>2, <2>5 DEF Forwards, TypeOK
  <2>7. OpSound' /\ (~reused => IndexSound')
    BY <1>0 DEF Forwards, OpSound, WhileFresh, IndexSound
  <2>8. ASSUME NEW y \in Slots
        PROVE  /\ Live(y)' => /\ Live(y) /\ pumps'[y].n = pumps[y].n
                             /\ pumps'[y].sess = pumps[y].sess /\ pumps'[y].asked = pumps[y].asked
               /\ pumps[y] = None => pumps'[y] = None
    <3>1. CASE y = x
      <4>1. pumps'[y] = [pumps[x] EXCEPT !.line = TRUE]
        BY <1>0, <2>1, <2>3, <3>1 DEF TypeOK
      <4> QED
        BY <2>3, <2>4, <3>1, <4>1 DEF RunningPumps, Live
    <3>2. CASE y # x
      BY <1>0, <2>1, <3>2 DEF TypeOK, Live
    <3> QED
      BY <3>1, <3>2
  <2> QED
    BY <2>2, <2>6, <2>7, <2>8, Shrinks DEF Forwards
<1> QED
  BY <1>1, <1>2

\* A pump that ends.
LEMMA PumpGoes ==
  ASSUME AgentsInv, NEW x \in Slots, Live(x),
         NEW to \in {Ended, None}, pumps' = [pumps EXCEPT ![x] = to]
  PROVE  /\ pumps' \in [Slots -> RunningPumps \cup {None, Ended}]
         /\ \A y \in Slots : /\ Live(y)' => Live(y) /\ pumps'[y] = pumps[y]
                             /\ pumps[y] = None => pumps'[y] = None
<1>0. TypeOK
  BY DEF AgentsInv
<1>1. ~Ended.live
  BY DEF Ended
<1> QED
  BY <1>0, <1>1 DEF TypeOK, Live

\* The exit of its child, reported by a pump.
LEMMA PumpEndsStep ==
  ASSUME AgentsInv, NEW x \in Slots, PumpEnds(x)
  PROVE  AgentsInv'
<1> USE DEF sessionVars, registry, history
<1>0. TypeOK /\ OpSound /\ WhileFresh
  BY DEF AgentsInv
<1>1. Live(x) /\ pumps' = [pumps EXCEPT ![x] = Ended]
  BY DEF PumpEnds, Live
<1>2. /\ pumps' \in [Slots -> RunningPumps \cup {None, Ended}]
      /\ \A y \in Slots : /\ Live(y)' => Live(y) /\ pumps'[y] = pumps[y]
                          /\ pumps[y] = None => pumps'[y] = None
  BY <1>1, PumpGoes
<1>3. chan' \in [Agents -> {"none", "open", "closed"}]
  BY <1>0 DEF TypeOK, PumpEnds
<1>4. TypeOK'
  BY <1>0, <1>2, <1>3 DEF PumpEnds, TypeOK
<1>5. OpSound' /\ (~reused => IndexSound')
  BY <1>0 DEF PumpEnds, OpSound, WhileFresh, IndexSound
<1> QED
  BY <1>2, <1>4, <1>5, Shrinks DEF PumpEnds

\* A pump that notes the conversation of its child.  Under fresh ids the entry
\* of its agent is that of the session it reads.
LEMMA PumpReadsStep ==
  ASSUME AgentsInv, NEW x \in Slots, PumpReads(x)
  PROVE  AgentsInv'
<1> USE DEF sessionVars, registry, history
<1> DEFINE a == x[2]
           c == conv[pumps[x].sess]
<1>0. TypeOK /\ OpSound /\ WhileFresh
  BY DEF AgentsInv
<1>1. Live(x) /\ a \in Agents /\ pumps[x] \in RunningPumps /\ pumps[x].sess \in Sessions /\ c \in Convs
  BY <1>0, TypeFacts DEF PumpReads, Live, TypeOK
<1>2. pumps' \in [Slots -> RunningPumps \cup {None, Ended}]
      /\ \A y \in Slots :
          /\ Live(y)' => /\ Live(y) /\ pumps'[y].n = pumps[y].n
                        /\ pumps'[y].sess = pumps[y].sess /\ pumps'[y].asked = pumps[y].asked
          /\ pumps[y] = None => pumps'[y] = None
  <2>1. CASE x[1] = "dc" /\ chan[x[2]] # "open"
    BY <1>1, <2>1, PumpGoes DEF PumpReads
  <2>2. CASE ~(x[1] = "dc" /\ chan[x[2]] # "open")
    <3> DEFINE q == [pumps[x] EXCEPT !.line = FALSE, !.noted = TRUE]
    <3>1. pumps' = [pumps EXCEPT ![x] = q]
      BY <1>0, <2>2 DEF PumpReads, TypeOK
    <3>2. /\ q \in RunningPumps /\ q.n = pumps[x].n /\ q.sess = pumps[x].sess
          /\ q.asked = pumps[x].asked
      BY <1>1 DEF RunningPumps
    <3> HIDE DEF q
    <3> QED
      BY <1>0, <1>1, <3>1, <3>2 DEF TypeOK, Live
  <2> QED
    BY <2>1, <2>2
<1>3. CASE by_id[a] # None /\ by_id[a].resume = None
  <2> DEFINE e == [by_id[a] EXCEPT !.resume = c]
  <2>1. by_id' = [by_id EXCEPT ![a] = e] /\ Insert(a, e)
    BY <1>3 DEF PumpReads, NoteResumeId, Insert
  <2>2. e \in Entries /\ e.sess = by_id[a].sess /\ e.resume = c /\ e # None
    BY <1>0, <1>1, <1>3, TypeFacts DEF Entries
  <2>3. by_resume_id' = [by_resume_id EXCEPT ![c] = a]
    BY <1>1, <2>1, <2>2, <1>0, TypeFacts DEF Insert, Convs
  <2> HIDE DEF e
  <2>4. by_id' \in [Agents -> Entries \cup {None}] /\ by_resume_id' \in [Convs -> Agents \cup {None}]
    BY <1>0, <1>1, <2>1, <2>2, <2>3 DEF TypeOK
  <2>5. TypeOK'
    BY <1>0, <1>2, <2>4 DEF PumpReads, TypeOK
  <2>6. OpSound'
    BY <1>0, <1>1, <2>1, <2>2 DEF PumpReads, OpSound, TypeOK
  <2>7. \A b \in Agents : /\ by_id'[b] # None <=> by_id[b] # None
                          /\ by_id[b] # None => by_id'[b].sess = by_id[b].sess
    BY <1>0, <1>1, <1>3, <2>1, <2>2 DEF TypeOK
  <2>8. ASSUME ~reused PROVE IndexSound'
    <3>1. by_id[a].sess = pumps[x].sess
      BY <1>0, <1>1, <1>3, <2>8 DEF WhileFresh, Paired
    <3> SUFFICES ASSUME NEW d \in Convs, by_resume_id'[d] # None
                 PROVE  /\ by_id'[by_resume_id'[d]] # None /\ by_id'[by_resume_id'[d]].resume = d
                        /\ conv[by_id'[by_resume_id'[d]].sess] = d
      BY DEF IndexSound, PumpReads, Convs, Sessions
    <3>2. CASE d = c
      <4>1. by_resume_id'[d] = a /\ by_id'[a] = e
        BY <1>0, <1>1, <2>1, <2>3, <3>2 DEF TypeOK
      <4> QED
        BY <2>2, <3>1, <3>2, <4>1
    <3>3. CASE d # c
      <4>1. by_resume_id'[d] = by_resume_id[d] /\ by_resume_id[d] \in Agents
        BY <1>0, <1>1, <2>3, <3>3, TypeFacts DEF TypeOK
      <4>2. /\ by_id[by_resume_id[d]] # None /\ by_id[by_resume_id[d]].resume = d
            /\ conv[by_id[by_resume_id[d]].sess] = d
        BY <1>0, <2>8, <4>1, TypeFacts DEF WhileFresh, IndexSound
      <4>3. by_resume_id[d] # a
        BY <1>3, <4>2, <1>0, TypeFacts DEF Convs
      <4> QED
        BY <1>0, <1>1, <2>1, <4>1, <4>2, <4>3 DEF TypeOK
    <3> QED
      BY <3>2, <3>3
  <2> QED
    BY <1>0, <1>2, <2>5, <2>6, <2>7, <2>8, Shrinks DEF PumpReads
<1>4. CASE ~(by_id[a] # None /\ by_id[a].resume = None)
  <2>1. UNCHANGED <<by_id, by_resume_id>>
    BY <1>4 DEF PumpReads, NoteResumeId
  <2>2. TypeOK'
    BY <1>0, <1>2, <2>1 DEF PumpReads, TypeOK
  <2>3. OpSound' /\ (~reused => IndexSound')
    BY <1>0, <2>1 DEF PumpReads, OpSound, WhileFresh, IndexSound
  <2> QED
    BY <1>2, <2>1, <2>2, <2>3, Shrinks DEF PumpReads
<1> QED
  BY <1>3, <1>4

\* Pumps that are aborted.
LEMMA AbortKeeps ==
  ASSUME AgentsInv, NEW gone, pumps' = Aborted(gone)
  PROVE  /\ pumps' \in [Slots -> RunningPumps \cup {None, Ended}]
         /\ \A y \in Slots : /\ Live(y)' => Live(y) /\ pumps'[y] = pumps[y] /\ y \notin gone
                             /\ pumps[y] = None => pumps'[y] = None
<1>0. TypeOK
  BY DEF AgentsInv
<1> QED
  BY <1>0 DEF TypeOK, Live, Aborted

\* The end of a data channel: the sink it clears is that of its own pump, which
\* goes, or of no Claude agent.
LEMMA AgentChannelClosedStep ==
  ASSUME AgentsInv, NEW a \in Agents, AgentChannelClosed(a)
  PROVE  AgentsInv'
<1> USE DEF sessionVars, registry, history
<1>0. TypeOK /\ HubSound /\ OpSound /\ WhileFresh
  BY DEF AgentsInv
<1>1. /\ pumps' \in [Slots -> RunningPumps \cup {None, Ended}]
      /\ \A y \in Slots : /\ Live(y)' => Live(y) /\ pumps'[y] = pumps[y]
                          /\ pumps[y] = None => pumps'[y] = None
  BY AbortKeeps DEF AgentChannelClosed
<1>2. Target(a) \in Sessions \cup {None}
  BY <1>0, TypeFacts DEF Target, TypeOK
<1>3. sink' \in [Sessions -> 0 .. MaxBinds]
  BY <1>0, <1>2, AgentAssumption DEF AgentChannelClosed, TypeOK
<1>4. TypeOK'
  BY <1>0, <1>1, <1>3 DEF AgentChannelClosed, TypeOK
<1>5. OpSound' /\ (~reused => IndexSound')
  BY <1>0 DEF AgentChannelClosed, OpSound, WhileFresh, IndexSound
<1>6. \A b \in Agents : backends'[b] \in {backends[b], None} /\ (b = a => backends'[b] = None)
  BY <1>0 DEF AgentChannelClosed, TypeOK
<1>7. ASSUME ~reused, NEW x \in Slots, Live(x)', backends'[x[2]] = "claude", by_id[x[2]] # None
      PROVE  sink'[by_id[x[2]].sess] = sink[by_id[x[2]].sess]
  <2>1. x[2] \in Agents /\ x[2] # a /\ by_id[x[2]].sess \in Sessions
    BY <1>0, <1>6, <1>7, TypeFacts
  <2>2. CASE Target(a) = None
    BY <2>2 DEF AgentChannelClosed
  <2>3. CASE Target(a) # None /\ backends[a] = "codex"
    <3>1. Target(a) = hub /\ backend[hub] = "codex" /\ backend[by_id[x[2]].sess] = "claude"
      BY <1>0, <1>7, <2>1, <2>3 DEF Target, HubSound
    <3>2. by_id[x[2]].sess # Target(a)
      BY <3>1
    <3> QED
      BY <1>0, <1>2, <2>1, <2>3, <3>2 DEF AgentChannelClosed, TypeOK
  <2>4. CASE Target(a) # None /\ backends[a] # "codex"
    <3>1. by_id[a] # None /\ Target(a) = by_id[a].sess
      BY <2>4 DEF Target
    <3>2. by_id[x[2]].sess # Target(a)
      BY <1>0, <1>7, <2>1, <3>1 DEF WhileFresh, OneEntry
    <3> QED
      BY <1>0, <1>2, <2>1, <2>4, <3>2 DEF AgentChannelClosed, TypeOK
  <2> QED
    BY <2>2, <2>3, <2>4
<1> QED
  BY <1>1, <1>4, <1>5, <1>6, <1>7, Shrinks DEF AgentChannelClosed

\* A close begins: the child is told to stop, or had ended.
LEMMA StopKeeps ==
  ASSUME TypeOK, NEW s \in Sessions, NEW todo \in SUBSET Agents, NEW all \in BOOLEAN,
         StopBegins(s, todo, all)
  PROVE  /\ child' \in [Sessions -> {"unborn", "running", "stopping", "ended"}]
         /\ \A t \in Sessions :
               child'[t] = child[t] \/ (child[t] = "running" /\ child'[t] = "stopping")
         /\ child'[s] # "running"
         /\ op' \in Closes /\ op'.kind = "close" /\ op'.todo = todo
<1>1. /\ child' \in [Sessions -> {"unborn", "running", "stopping", "ended"}]
      /\ \A t \in Sessions :
            child'[t] = child[t] \/ (child[t] = "running" /\ child'[t] = "stopping")
      /\ child'[s] # "running"
  BY DEF TypeOK, StopBegins
<1>2. op' = [kind |-> "close", sess |-> s, todo |-> todo, all |-> all]
  BY DEF StopBegins
<1>3. op' \in Closes /\ op'.kind = "close" /\ op'.todo = todo
  BY <1>2 DEF Closes
<1> QED
  BY <1>1, <1>3

\* agent_close for an agent with a route.
LEMMA AgentCloseStep ==
  ASSUME AgentsInv, NEW a \in Agents, AgentClose(a)
  PROVE  AgentsInv'
<1> USE DEF sessionVars, registry, history
<1>0. TypeOK /\ HubSound /\ OpSound /\ WhileFresh
  BY DEF AgentsInv
<1>1. /\ pumps' \in [Slots -> RunningPumps \cup {None, Ended}]
      /\ \A y \in Slots : /\ Live(y)' => Live(y) /\ pumps'[y] = pumps[y]
                          /\ pumps[y] = None => pumps'[y] = None
  BY AbortKeeps DEF AgentClose
<1>2. Target(a) \in Sessions
  BY <1>0, TypeFacts DEF Target, TypeOK, AgentClose
<1>3. /\ child' \in [Sessions -> {"unborn", "running", "stopping", "ended"}]
      /\ \A t \in Sessions :
            child'[t] = child[t] \/ (child[t] = "running" /\ child'[t] = "stopping")
      /\ child'[Target(a)] # "running"
      /\ op' \in Closes /\ op'.kind = "close" /\ op'.todo = {}
  BY <1>0, <1>2, StopKeeps DEF AgentClose
<1>4. OpSound'
  BY <1>3 DEF OpSound
<1>5. /\ \A b \in Agents : backends'[b] \in {backends[b], None}
      /\ backends' \in [Agents -> {"codex", "claude", None}]
  BY <1>0 DEF AgentClose, TypeOK
<1>6. CASE backends[a] = "codex"
  <2>1. hub' = None /\ UNCHANGED <<by_id, by_resume_id>> /\ Target(a) = hub
    BY <1>6 DEF AgentClose, Target
  <2>2. TypeOK'
    BY <1>0, <1>1, <1>3, <1>5, <2>1 DEF AgentClose, TypeOK
  <2>3. ~reused => IndexSound'
    BY <1>0, <2>1 DEF WhileFresh, IndexSound, AgentClose
  <2> QED
    BY <1>1, <1>3, <1>4, <1>5, <2>1, <2>2, <2>3, Shrinks DEF AgentClose
<1>7. CASE backends[a] # "codex"
  <2>1. Remove(a) /\ UNCHANGED hub /\ by_id[a] # None /\ Target(a) = by_id[a].sess
    BY <1>7 DEF AgentClose, Target
  <2>2. IndexSound
    BY <1>0 DEF WhileFresh, IndexSound
  <2>3. /\ IndexSound'
        /\ by_id' \in [Agents -> Entries \cup {None}]
        /\ by_resume_id' \in [Convs -> Agents \cup {None}]
        /\ by_id'[a] = None /\ \A b \in Agents \ {a} : by_id'[b] = by_id[b]
    BY <1>0, <2>1, <2>2, RemoveKeeps DEF AgentClose
  <2>4. TypeOK'
    BY <1>0, <1>1, <1>3, <1>5, <2>1, <2>3 DEF AgentClose, TypeOK
  <2>5. \A b \in Agents : /\ by_id'[b] # None => by_id[b] # None /\ by_id'[b].sess = by_id[b].sess
                          /\ (by_id[b] # None /\ by_id'[b] = None) => child'[by_id[b].sess] # "running"
    BY <1>3, <2>1, <2>3
  <2> QED
    BY <1>1, <1>3, <1>4, <1>5, <2>1, <2>3, <2>4, <2>5, Shrinks DEF AgentClose
<1> QED
  BY <1>6, <1>7

\* agent_close for an agent without a route.
LEMMA AgentCloseUnknownStep ==
  ASSUME AgentsInv, NEW a \in Agents, AgentCloseUnknown(a)
  PROVE  AgentsInv'
<1> USE DEF sessionVars, registry, history
<1>0. TypeOK /\ OpSound /\ WhileFresh
  BY DEF AgentsInv
<1>1. /\ pumps' \in [Slots -> RunningPumps \cup {None, Ended}]
      /\ \A y \in Slots : /\ Live(y)' => Live(y) /\ pumps'[y] = pumps[y]
                          /\ pumps[y] = None => pumps'[y] = None
  BY AbortKeeps DEF AgentCloseUnknown
<1>2. /\ \A b \in Agents : backends'[b] \in {backends[b], None}
      /\ backends' \in [Agents -> {"codex", "claude", None}]
  BY <1>0 DEF AgentCloseUnknown, TypeOK
<1>3. TypeOK'
  BY <1>0, <1>1, <1>2 DEF AgentCloseUnknown, TypeOK
<1>4. OpSound' /\ (~reused => IndexSound')
  BY <1>0 DEF AgentCloseUnknown, OpSound, WhileFresh, IndexSound
<1> QED
  BY <1>1, <1>2, <1>3, <1>4, Shrinks DEF AgentCloseUnknown

\* The close of everything begins.
LEMMA CloseAllStep ==
  ASSUME AgentsInv, CloseAll
  PROVE  AgentsInv'
<1> USE DEF sessionVars, registry, history
<1> DEFINE todo == {a \in Agents : by_id[a] # None}
<1>0. TypeOK /\ WhileFresh
  BY DEF AgentsInv
<1>1. /\ pumps' \in [Slots -> RunningPumps \cup {None, Ended}]
      /\ \A y \in Slots : /\ Live(y)' => Live(y) /\ pumps'[y] = pumps[y]
                          /\ pumps[y] = None => pumps'[y] = None
  BY AbortKeeps DEF CloseAll
<1>2. op' = [kind |-> "close", sess |-> None, todo |-> todo, all |-> TRUE] /\ todo \in SUBSET Agents
  BY DEF CloseAll
<1>3. \A a \in todo : by_id'[a] # None
  BY DEF CloseAll
<1> HIDE DEF todo
<1>4. op' \in Closes /\ op'.kind = "close" /\ op'.todo = todo
  BY <1>2 DEF Closes
<1>5. OpSound' /\ (~reused => IndexSound')
  BY <1>0, <1>3, <1>4 DEF CloseAll, OpSound, WhileFresh, IndexSound
<1>6. TypeOK'
  BY <1>0, <1>1, <1>4 DEF CloseAll, TypeOK
<1> QED
  BY <1>1, <1>5, <1>6, Shrinks DEF CloseAll

\* One entry after the other is closed ...
LEMMA ClosesNextStep ==
  ASSUME AgentsInv, NEW a \in Agents, ClosesNext(a)
  PROVE  AgentsInv'
<1> USE DEF sessionVars, registry, history
<1>0. TypeOK /\ OpSound /\ WhileFresh
  BY DEF AgentsInv
<1>1. op.kind = "close" /\ a \in op.todo /\ by_id[a] # None /\ by_id[a].sess \in Sessions
  BY <1>0, TypeFacts DEF ClosesNext, Closed, OpSound
<1>2. op \in Closes
  BY <1>0, <1>1 DEF TypeOK, Opens, Idle
<1>3. op.todo \in SUBSET Agents
  BY <1>2 DEF Closes
<1>4. /\ child' \in [Sessions -> {"unborn", "running", "stopping", "ended"}]
      /\ \A t \in Sessions :
            child'[t] = child[t] \/ (child[t] = "running" /\ child'[t] = "stopping")
      /\ child'[by_id[a].sess] # "running"
      /\ op' \in Closes /\ op'.kind = "close" /\ op'.todo = op.todo \ {a}
  BY <1>0, <1>1, <1>3, StopKeeps DEF ClosesNext
<1>5. IndexSound
  BY <1>0 DEF WhileFresh, IndexSound
<1>6. /\ IndexSound'
      /\ by_id' \in [Agents -> Entries \cup {None}]
      /\ by_resume_id' \in [Convs -> Agents \cup {None}]
      /\ by_id'[a] = None /\ \A b \in Agents \ {a} : by_id'[b] = by_id[b]
  BY <1>0, <1>5, RemoveKeeps DEF ClosesNext
<1>7. TypeOK'
  BY <1>0, <1>4, <1>6 DEF ClosesNext, TypeOK
<1>8. OpSound'
  BY <1>0, <1>1, <1>3, <1>4, <1>6 DEF OpSound
<1>9. \A b \in Agents : /\ by_id'[b] # None => by_id[b] # None /\ by_id'[b].sess = by_id[b].sess
                        /\ (by_id[b] # None /\ by_id'[b] = None) => child'[by_id[b].sess] # "running"
  BY <1>4, <1>6
<1>10. \A x \in Slots : Live(x)' => Live(x)
  BY DEF Live, ClosesNext
<1> QED
  BY <1>4, <1>6, <1>7, <1>8, <1>9, <1>10, Shrinks DEF ClosesNext

\* ... and the shared child last.
LEMMA ClosesHubStep ==
  ASSUME AgentsInv, ClosesHub
  PROVE  AgentsInv'
<1> USE DEF sessionVars, registry, history
<1>0. TypeOK /\ WhileFresh
  BY DEF AgentsInv
<1>1. hub \in Sessions
  BY <1>0 DEF ClosesHub, TypeOK
<1>2. /\ child' \in [Sessions -> {"unborn", "running", "stopping", "ended"}]
      /\ \A t \in Sessions :
            child'[t] = child[t] \/ (child[t] = "running" /\ child'[t] = "stopping")
      /\ child'[hub] # "running"
      /\ op' \in Closes /\ op'.kind = "close" /\ op'.todo = {}
  BY <1>0, <1>1, StopKeeps DEF ClosesHub
<1>3. TypeOK'
  BY <1>0, <1>2 DEF ClosesHub, TypeOK
<1>4. OpSound' /\ (~reused => IndexSound')
  BY <1>0, <1>2 DEF ClosesHub, OpSound, WhileFresh, IndexSound
<1>5. \A x \in Slots : Live(x)' => Live(x)
  BY DEF Live, ClosesHub
<1> QED
  BY <1>2, <1>3, <1>4, <1>5, Shrinks DEF ClosesHub

\* The loop goes on after a close.
LEMMA CloseEndsStep ==
  ASSUME AgentsInv, CloseEnds
  PROVE  AgentsInv'
<1> USE DEF sessionVars, registry, history
<1>0. TypeOK /\ WhileFresh
  BY DEF AgentsInv
<1>1. /\ \A b \in Agents : backends'[b] \in {backends[b], None}
      /\ backends' \in [Agents -> {"codex", "claude", None}]
  BY <1>0 DEF CloseEnds, TypeOK
<1>2. TypeOK'
  BY <1>0, <1>1 DEF CloseEnds, TypeOK
<1>3. OpSound' /\ (~reused => IndexSound')
  BY <1>0 DEF CloseEnds, OpSound, WhileFresh, IndexSound, Idle
<1>4. \A x \in Slots : Live(x)' => Live(x)
  BY DEF Live, CloseEnds
<1> QED
  BY <1>1, <1>2, <1>3, <1>4, Shrinks DEF CloseEnds

\* The sweep removes entries of children that have ended.
LEMMA SweepStep ==
  ASSUME AgentsInv, Sweep
  PROVE  AgentsInv'
<1> USE DEF sessionVars, registry, history
<1> DEFINE stale == {a \in Agents : by_id[a] # None /\ exit[by_id[a].sess] # "none"}
<1>0. TypeOK /\ Numbered /\ OpSound /\ WhileFresh
  BY DEF AgentsInv
<1>1. /\ op = Idle
      /\ by_id' = [a \in Agents |-> IF a \in stale THEN None ELSE by_id[a]]
      /\ by_resume_id' = [c \in Convs |->
             IF \E a \in stale : by_id[a].resume = c /\ by_resume_id[c] = a THEN None
             ELSE by_resume_id[c]]
      /\ backends' = [a \in Agents |-> IF a \in stale THEN None ELSE backends[a]]
      /\ UNCHANGED <<sessionVars, hub, pumps, chan, op, history>>
  BY DEF Sweep
<1>2. \A a \in stale : a \in Agents /\ by_id[a] # None /\ child[by_id[a].sess] = "ended"
  BY <1>0, TypeFacts DEF Numbered
<1> HIDE DEF stale
<1>3. /\ by_id' \in [Agents -> Entries \cup {None}]
      /\ by_resume_id' \in [Convs -> Agents \cup {None}]
      /\ backends' \in [Agents -> {"codex", "claude", None}]
  BY <1>0, <1>1 DEF TypeOK
<1>4. TypeOK'
  BY <1>0, <1>1, <1>3 DEF TypeOK
<1>5. OpSound'
  BY <1>0, <1>1 DEF OpSound, Idle
<1>6. ASSUME ~reused PROVE IndexSound'
  <2>1. \A c \in Convs : by_resume_id'[c] \in {by_resume_id[c], None}
    BY <1>1
  <2>2. ASSUME NEW c \in Convs, by_resume_id'[c] # None
        PROVE  by_id'[by_resume_id[c]] = by_id[by_resume_id[c]]
    <3>1. by_resume_id[c] \in Agents
      BY <1>0, <2>1, <2>2 DEF TypeOK
    <3>2. by_id[by_resume_id[c]].resume = c
      BY <1>0, <1>6, <3>1, TypeFacts DEF WhileFresh, IndexSound
    <3>3. by_resume_id[c] \notin stale
      BY <1>1, <2>2, <3>2
    <3> QED
      BY <1>1, <3>1, <3>3
  <2>3. IndexSound
    BY <1>0, <1>6 DEF WhileFresh
  <2> QED
    BY <1>0, <1>1, <2>1, <2>2, <2>3, IndexShrinks
<1>7. \A x \in Slots : Live(x)' => Live(x)
  BY <1>1 DEF Live
<1>8. \A b \in Agents : /\ by_id'[b] # None => by_id[b] # None /\ by_id'[b].sess = by_id[b].sess
                        /\ (by_id[b] # None /\ by_id'[b] = None) => child'[by_id[b].sess] # "running"
                        /\ backends'[b] \in {backends[b], None}
  BY <1>1, <1>2
<1> QED
  BY <1>1, <1>4, <1>5, <1>6, <1>7, <1>8, Shrinks

\* A bind that finds the child of the conversation ended forgets its entry.
LEMMA ForgetsDeadStep ==
  ASSUME AgentsInv, ForgetsDead
  PROVE  AgentsInv'
<1> USE DEF sessionVars, registry, history
<1> DEFINE prev == by_resume_id[op.resume]
<1>0. TypeOK /\ Numbered /\ OpSound /\ WhileFresh
  BY DEF AgentsInv
<1>1. op \in Opens /\ op.kind = "bind" /\ op.backend = "claude" /\ op.resume \in Convs
  <2>1. op.kind = "bind" /\ op.backend = "claude" /\ op.resume # None
    BY DEF ForgetsDead, Indexed
  <2>2. op \in Opens
    BY <1>0, <2>1 DEF TypeOK, Closes, Idle
  <2> QED
    BY <2>1, <2>2 DEF Opens
<1>2. /\ prev \in Agents /\ by_id[prev] # None /\ exit[by_id[prev].sess] # "none" /\ Remove(prev)
      /\ op' = [op EXCEPT !.kind = "spawn"]
      /\ UNCHANGED <<sessionVars, hub, backends, pumps, chan, history>>
  BY <1>0, <1>1 DEF ForgetsDead, Indexed, TypeOK
<1>3. op' \in Opens /\ op'.kind = "spawn" /\ op'.backend = "claude"
  BY <1>1, <1>2 DEF Opens
<1> HIDE DEF prev
<1>4. child[by_id[prev].sess] = "ended"
  BY <1>0, <1>2, TypeFacts DEF Numbered
<1>5. IndexSound
  BY <1>0 DEF WhileFresh, IndexSound
<1>6. /\ IndexSound'
      /\ by_id' \in [Agents -> Entries \cup {None}]
      /\ by_resume_id' \in [Convs -> Agents \cup {None}]
      /\ by_id'[prev] = None /\ \A b \in Agents \ {prev} : by_id'[b] = by_id[b]
  BY <1>0, <1>2, <1>5, RemoveKeeps
<1>7. TypeOK'
  BY <1>0, <1>2, <1>3, <1>6 DEF TypeOK
<1>8. OpSound'
  BY <1>0, <1>1, <1>2, <1>3 DEF OpSound
<1>9. \A b \in Agents : /\ by_id'[b] # None => by_id[b] # None /\ by_id'[b].sess = by_id[b].sess
                        /\ (by_id[b] # None /\ by_id'[b] = None) => child'[by_id[b].sess] # "running"
  BY <1>2, <1>4, <1>6
<1>10. \A x \in Slots : Live(x)' => Live(x)
  BY <1>2 DEF Live
<1> QED
  BY <1>2, <1>6, <1>7, <1>8, <1>9, <1>10, Shrinks

\* The other steps of the loop, and of the channels, that move nothing but the
\* operation under way.
LEMMA LoopMovesStep ==
  ASSUME AgentsInv,
         \/ NothingToRebind \/ SpawnFails \/ HubNeedsSpawn
         \/ \E a \in Agents : ChannelCloses(a)
         \/ \E a \in Agents, b \in {"codex", "claude"}, r \in Convs \cup {None} :
               AgentMessage(a, b, r) \/ AgentInit(a, b, r)
  PROVE  AgentsInv'
<1> USE DEF sessionVars, registry, history
<1>0. TypeOK /\ Numbered /\ OpSound
  BY DEF AgentsInv
<1>1. CASE NothingToRebind \/ HubNeedsSpawn
  <2>1. op.kind = "bind" /\ op' = [op EXCEPT !.kind = "spawn"]
    BY <1>1 DEF NothingToRebind, HubNeedsSpawn
  <2>2. op \in Opens
    BY <1>0, <2>1 DEF TypeOK, Closes, Idle
  <2>3. op' \in Opens /\ op'.kind = "spawn" /\ op'.backend = op.backend /\ op'.resume = op.resume
    BY <2>1, <2>2 DEF Opens
  <2>4. (op.backend = "codex" /\ hub # None) => child[hub] # "running"
    BY <1>0, <1>1 DEF NothingToRebind, HubNeedsSpawn, HubAlive, Numbered, TypeOK
  <2>5. OpSound'
    BY <1>0, <1>1, <2>1, <2>3, <2>4 DEF OpSound, NothingToRebind, HubNeedsSpawn
  <2> QED
    BY <1>0, <1>1, <2>3, <2>5, OpMoves DEF NothingToRebind, HubNeedsSpawn, TypeOK
<1>2. CASE SpawnFails
  <2>1. OpSound'
    BY <1>2 DEF SpawnFails, OpSound, Idle
  <2> QED
    BY <1>0, <1>2, <2>1, OpMoves DEF SpawnFails, TypeOK
<1>3. ASSUME NEW a \in Agents, ChannelCloses(a) PROVE AgentsInv'
  <2>1. OpSound'
    BY <1>0, <1>3 DEF ChannelCloses, OpSound
  <2> QED
    BY <1>0, <1>3, <2>1, OpMoves DEF ChannelCloses, TypeOK
<1>4. ASSUME NEW a \in Agents, NEW b \in {"codex", "claude"}, NEW r \in Convs \cup {None},
             NEW way, Binds(<<way, a>>, b, r), chan' \in [Agents -> {"none", "open", "closed"}]
      PROVE  AgentsInv'
  <2>1. op' \in Opens /\ op'.kind = "bind" /\ op'.backend = b /\ op'.resume = r
    BY <1>4 DEF Binds, Opens
  <2>2. OpSound'
    BY <1>4, <2>1 DEF Binds, OpSound
  <2> QED
    BY <1>4, <2>1, <2>2, OpMoves DEF Binds
<1>5. ASSUME NEW a \in Agents, NEW b \in {"codex", "claude"}, NEW r \in Convs \cup {None},
             AgentMessage(a, b, r) \/ AgentInit(a, b, r)
      PROVE  AgentsInv'
  <2>1. CASE AgentMessage(a, b, r)
    <3>1. Binds(<<"dc", a>>, b, r) /\ chan' \in [Agents -> {"none", "open", "closed"}]
      BY <1>0, <2>1 DEF AgentMessage, TypeOK
    <3> QED
      BY <1>4, <3>1
  <2>2. CASE AgentInit(a, b, r)
    <3>1. Binds(<<"ws", a>>, b, r) /\ chan' \in [Agents -> {"none", "open", "closed"}]
      BY <1>0, <2>2 DEF AgentInit, TypeOK
    <3> QED
      BY <1>4, <3>1
  <2> QED
    BY <1>5, <2>1, <2>2
<1> QED
  BY <1>1, <1>2, <1>3, <1>5

\* A bind of agent a to session s: a session that was there, or the one just
\* spawned.  An entry of s under another id goes; entries and children of other
\* sessions stay.
LEMMA BindStep ==
  ASSUME AgentsInv, op.kind \in {"bind", "spawn"}, NEW s \in Sessions, Bound(s),
         spawned' = spawned \/ (spawned' = spawned + 1 /\ s = spawned'),
         spawned' <= MaxSessions, s <= spawned', UNCHANGED exit,
         child' \in [Sessions -> {"unborn", "running", "stopping", "ended"}],
         backend' \in [Sessions -> {"codex", "claude"}], conv' \in [Sessions -> Convs],
         by_id' \in [Agents -> Entries \cup {None}],
         by_resume_id' \in [Convs -> Agents \cup {None}], hub' \in Sessions \cup {None},
         \A t \in Sessions : t # s \/ s <= spawned =>
             child'[t] = child[t] /\ backend'[t] = backend[t] /\ conv'[t] = conv[t],
         backend'[s] = op.backend, ~reused => op.resume \in {None, conv'[s]},
         op.backend = "codex" =>
             /\ UNCHANGED by_id
             /\ hub' = s /\ (hub \in {None, s} \/ child[hub] # "running"),
         op.backend = "claude" =>
             /\ UNCHANGED hub
             /\ by_id'[op.slot[2]] # None /\ by_id'[op.slot[2]].sess = s,
         \A b \in Agents : b # op.slot[2] =>
             /\ by_id'[b] # None => by_id'[b] = by_id[b]
             /\ (by_id[b] # None /\ by_id'[b] = None) => by_id[b].sess = s,
         ~reused' => \A b \in Agents :
             (op.backend = "claude" /\ b # op.slot[2] /\ by_id'[b] # None) => by_id'[b].sess # s,
         ~reused' => IndexSound'
  PROVE  AgentsInv'
<1> DEFINE a == op.slot[2]
           new == NewPump(s)
<1>0. TypeOK /\ Numbered /\ HubSound /\ OpSound /\ WhileFresh
  BY DEF AgentsInv
<1>1. op \in Opens
  BY <1>0 DEF TypeOK, Closes, Idle
<1>2. op.slot \in Slots /\ op.backend \in {"codex", "claude"} /\ op.resume \in Convs \cup {None}
  BY <1>1 DEF Opens
<1>3. a \in Agents
  BY <1>0, <1>2, TypeFacts
<1>4. binds \in Nat /\ binds + 1 \in 1 .. MaxBinds /\ spawned \in Nat
  BY <1>0, AgentAssumption DEF TypeOK, OpSound
<1>5. /\ new \in RunningPumps /\ new.n = binds + 1 /\ new.sess = s /\ new.asked = op.resume
      /\ new.live
  BY <1>2, <1>4 DEF NewPump, RunningPumps
<1>6. /\ binds' = binds + 1 /\ sink' = [sink EXCEPT ![s] = binds + 1]
      /\ backends' = [backends EXCEPT ![a] = op.backend]
      /\ pumps' = [pumps EXCEPT ![op.slot] = new]
      /\ used' = used \cup {a} /\ reused' = (reused \/ a \in used)
      /\ op' = Idle /\ chan' = chan
  BY DEF Bound
<1> HIDE DEF new
<1>7. TypeOK'
  <2>1. /\ sink' \in [Sessions -> 0 .. MaxBinds] /\ binds' \in 0 .. MaxBinds /\ spawned' \in 0 .. MaxSessions
    BY <1>0, <1>4, <1>6, AgentAssumption DEF TypeOK
  <2>2. /\ backends' \in [Agents -> {"codex", "claude", None}]
        /\ pumps' \in [Slots -> RunningPumps \cup {None, Ended}] /\ used' \subseteq Agents
        /\ op' \in Opens \cup Closes \cup {Idle} /\ chan' \in [Agents -> {"none", "open", "closed"}]
        /\ exit' \in [Sessions -> {"none", "normal", "crashed", "requested"}]
    BY <1>0, <1>2, <1>3, <1>5, <1>6 DEF TypeOK
  <2>3. reused' \in BOOLEAN
    BY <1>6
  <2> QED
    BY <2>1, <2>2, <2>3 DEF TypeOK
<1>8. /\ \A b \in Agents : by_id[b] # None => by_id[b].sess \in Sessions
      /\ \A x \in Slots : Live(x) => pumps[x].sess \in Sessions
      /\ \A x \in Slots : x[2] \in Agents
      /\ None \notin {"codex", "claude"} /\ \A t \in Sessions : t \in Nat /\ t # None
  BY <1>0, TypeFacts
<1>9. \A t \in Sessions : t <= spawned =>
          child'[t] = child[t] /\ backend'[t] = backend[t] /\ conv'[t] = conv[t]
  BY <1>4, <1>8
<1>10. \A x \in Slots : x # op.slot => pumps'[x] = pumps[x] /\ (Live(x)' <=> Live(x))
  BY <1>0, <1>6 DEF TypeOK, Live
<1>11. pumps'[op.slot] = new
  BY <1>0, <1>2, <1>6 DEF TypeOK
<1>12. Numbered'
  <2>1. \A t \in Sessions : t > spawned' => child'[t] = "unborn"
    BY <1>0, <1>4, <1>8 DEF Numbered
  <2>2. \A t \in Sessions : exit'[t] # "none" => child'[t] = "ended"
    BY <1>0, <1>4, <1>8, <1>9 DEF Numbered
  <2>3. \A b \in Agents : by_id'[b] # None => by_id'[b].sess <= spawned'
    BY <1>0, <1>2, <1>4, <1>8 DEF Numbered
  <2>4. \A x \in Slots : Live(x)' => pumps'[x].sess <= spawned'
    BY <1>0, <1>4, <1>5, <1>8, <1>10, <1>11 DEF Numbered
  <2>5. hub' # None => hub' <= spawned'
    BY <1>0, <1>2, <1>4, <1>8 DEF Numbered, TypeOK
  <2> QED
    BY <2>1, <2>2, <2>3, <2>4, <2>5 DEF Numbered, Sessions
<1>13. HubSound'
  <2>1. hub' # None => backend'[hub'] = "codex"
    BY <1>0, <1>2, <1>9 DEF HubSound, Numbered, TypeOK
  <2>2. ASSUME NEW t \in Sessions, child'[t] = "running", backend'[t] = "codex"
        PROVE  hub' = t
    <3>1. CASE t <= spawned
      <4>1. child[t] = "running" /\ backend[t] = "codex"
        BY <1>9, <2>2, <3>1
      <4>2. hub = t /\ t # None
        BY <1>0, <1>8, <4>1 DEF HubSound
      <4> QED
        BY <1>2, <4>1, <4>2
    <3>2. CASE ~(t <= spawned)
      <4>1. t = s
        BY <1>0, <1>4, <1>8, <2>2, <3>2 DEF Numbered
      <4> QED
        BY <1>2, <2>2, <4>1
    <3> QED
      BY <3>1, <3>2
  <2>3. \A b \in Agents : by_id'[b] # None => backend'[by_id'[b].sess] = "claude"
    BY <1>0, <1>2, <1>8, <1>9 DEF HubSound, Numbered
  <2> QED
    BY <2>1, <2>2, <2>3 DEF HubSound, Sessions
<1>14. OpSound'
  BY <1>6 DEF OpSound, Idle
<1>15. ASSUME ~reused' PROVE WhileFresh'
  <2>1. ~reused /\ a \notin used
    BY <1>6, <1>15
  <2>2. FreshIds /\ OneEntry /\ Paired /\ ChildrenRegistered /\ ClaudeHeard
    BY <1>0, <2>1 DEF WhileFresh
  <2>3. by_id[a] = None /\ backends[a] = None /\ \A x \in Slots : x[2] = a => pumps[x] = None
    BY <1>3, <2>1, <2>2 DEF FreshIds
  <2>4. \A b \in Agents : b # a => backends'[b] = backends[b]
    BY <1>0, <1>6 DEF TypeOK
  <2>5. backends'[a] = op.backend
    BY <1>0, <1>3, <1>6 DEF TypeOK
  <2>6. \A x \in Slots : (x # op.slot /\ Live(x)') => Live(x) /\ x[2] # a
    BY <1>10, <2>3 DEF Live
  <2>7. FreshIds'
    BY <1>6, <1>10, <2>2, <2>4 DEF FreshIds
  <2>8. OneEntry'
    <3> SUFFICES ASSUME NEW b \in Agents, NEW d \in Agents, by_id'[b] # None, by_id'[d] # None,
                        by_id'[b].sess = by_id'[d].sess
                 PROVE  b = d
      BY DEF OneEntry
    <3> QED
      BY <1>2, <1>15, <2>2 DEF OneEntry
  <2>9. Paired'
    <3> SUFFICES ASSUME NEW x \in Slots, Live(x)'
                 PROVE  /\ by_id'[x[2]] # None => by_id'[x[2]].sess = pumps'[x].sess
                        /\ backends'[x[2]] # None => backend'[pumps'[x].sess] = backends'[x[2]]
                        /\ pumps'[x].asked \in {None, conv'[pumps'[x].sess]}
      BY DEF Paired
    <3>1. CASE x = op.slot
      BY <1>2, <1>5, <1>11, <2>1, <2>3, <2>5, <3>1
    <3>2. CASE x # op.slot
      <4>1. Live(x) /\ x[2] # a /\ pumps'[x] = pumps[x] /\ pumps[x].sess \in Sessions /\ pumps[x].sess <= spawned
        BY <1>0, <1>8, <1>10, <2>6, <3>2 DEF Numbered
      <4>2. backend'[pumps[x].sess] = backend[pumps[x].sess] /\ conv'[pumps[x].sess] = conv[pumps[x].sess]
        BY <1>9, <4>1
      <4> QED
        BY <1>8, <2>2, <2>4, <4>1, <4>2 DEF Paired
    <3> QED
      BY <3>1, <3>2
  <2>10. ChildrenRegistered'
    <3> SUFFICES ASSUME NEW t \in Sessions, child'[t] = "running"
                 PROVE  hub' = t \/ \E b \in Agents : by_id'[b] # None /\ by_id'[b].sess = t
      BY DEF ChildrenRegistered, Sessions
    <3>1. CASE t = s
      BY <1>2, <1>3, <3>1
    <3>2. CASE t # s
      <4>0. child[t] = "running"
        BY <3>2
      <4>1. hub = t \/ \E b \in Agents : by_id[b] # None /\ by_id[b].sess = t
        BY <2>1, <2>2, <4>0 DEF ChildrenRegistered
      <4>2. CASE hub = t
        BY <1>2, <1>8, <3>2, <4>0, <4>2
      <4>3. ASSUME NEW b \in Agents, by_id[b] # None, by_id[b].sess = t
            PROVE  by_id'[b] # None /\ by_id'[b].sess = t
        BY <2>3, <3>2, <4>3
      <4> QED
        BY <4>1, <4>2, <4>3
    <3> QED
      BY <3>1, <3>2
  <2>11. ClaudeHeard'
    <3> SUFFICES ASSUME NEW x \in Slots, Live(x)', backends'[x[2]] = "claude", by_id'[x[2]] # None
                 PROVE  sink'[by_id'[x[2]].sess] = pumps'[x].n
      BY DEF ClaudeHeard, Live
    <3>1. CASE x = op.slot
      <4>1. by_id'[x[2]].sess = s
        BY <2>5, <3>1
      <4> QED
        BY <1>0, <1>5, <1>6, <1>11, <3>1, <4>1 DEF TypeOK
    <3>2. CASE x # op.slot
      <4>1. /\ Live(x) /\ x[2] # a /\ pumps'[x] = pumps[x] /\ x[2] \in Agents
            /\ by_id'[x[2]] = by_id[x[2]] /\ backends[x[2]] = "claude"
        BY <1>8, <1>10, <2>4, <2>6, <3>2
      <4>2. sink[by_id[x[2]].sess] = pumps[x].n /\ by_id[x[2]].sess \in Sessions
        <5>1. by_id[x[2]] # None
          BY <4>1
        <5> QED
          BY <1>8, <2>1, <2>2, <4>1, <5>1 DEF ClaudeHeard, Live
      <4>3. by_id[x[2]].sess # s
        <5>1. CASE op.backend = "claude"
          BY <1>15, <4>1, <5>1
        <5>2. CASE op.backend = "codex"
          <6>1. backend[by_id[x[2]].sess] = "claude" /\ by_id[x[2]].sess <= spawned
            BY <1>0, <4>1 DEF HubSound, Numbered
          <6> QED
            BY <1>9, <4>2, <5>2, <6>1
        <5> QED
          BY <1>2, <5>1, <5>2
      <4> QED
        BY <1>0, <1>6, <4>1, <4>2, <4>3 DEF TypeOK
    <3> QED
      BY <3>1, <3>2
  <2> QED
    BY <1>15, <2>7, <2>8, <2>9, <2>10, <2>11 DEF WhileFresh
<1>16. CASE reused'
  BY <1>7, <1>12, <1>13, <1>14, <1>16 DEF AgentsInv, WhileFresh
<1> QED
  BY <1>7, <1>12, <1>13, <1>14, <1>15, <1>16 DEF AgentsInv

\* What an open under way is about.
LEMMA OpenFacts ==
  ASSUME AgentsInv, op.kind \in {"bind", "spawn"}
  PROVE  /\ op \in Opens /\ op.slot[2] \in Agents /\ op.resume \in Convs \cup {None}
         /\ op.resume # None => op.resume \in Sessions
<1>0. TypeOK
  BY DEF AgentsInv
<1>1. op \in Opens
  BY <1>0 DEF TypeOK, Closes, Idle
<1>2. op.slot \in Slots /\ op.resume \in Convs \cup {None}
  BY <1>1 DEF Opens
<1> QED
  BY <1>0, <1>1, <1>2, TypeFacts DEF Convs

\* The first bind of an agent id finds no entry of it.
LEMMA FirstBind ==
  ASSUME AgentsInv, op.kind \in {"bind", "spawn"}, NEW s, Bound(s), ~reused'
  PROVE  ~reused /\ by_id[op.slot[2]] = None
<1>1. ~reused /\ op.slot[2] \notin used
  BY DEF Bound
<1> QED
  BY <1>1, OpenFacts DEF AgentsInv, WhileFresh, FreshIds

\* A bind takes the session of its conversation over.
LEMMA RebindsStep ==
  ASSUME AgentsInv, Rebinds
  PROVE  AgentsInv'
<1> DEFINE a == op.slot[2]
           r == op.resume
           prev == by_resume_id[r]
           s == by_id[prev].sess
<1>0. TypeOK /\ Numbered /\ HubSound /\ OpSound /\ WhileFresh
  BY DEF AgentsInv
<1>1. /\ op.kind = "bind" /\ op.backend = "claude" /\ r # None /\ prev # None /\ by_id[prev] # None
      /\ Rekey(prev, a) /\ Bound(s) /\ UNCHANGED <<child, exit, backend, conv, spawned, hub>>
  BY DEF Rebinds, Indexed
<1>2. a \in Agents /\ r \in Convs
  BY <1>1, OpenFacts
<1>3. prev \in Agents
  BY <1>0, <1>1, <1>2 DEF TypeOK
<1>4. by_id[prev] \in Entries /\ s \in Sessions /\ s <= spawned /\ backend[s] = "claude"
  BY <1>0, <1>1, <1>3, TypeFacts DEF Numbered, HubSound
<1>5. ~reused => by_id[prev].resume = r /\ conv[s] = r
  BY <1>0, <1>1, <1>2 DEF WhileFresh, IndexSound
<1> DEFINE e == by_id[prev]
<1>6. /\ by_id' = [[by_id EXCEPT ![prev] = None] EXCEPT ![a] = e]
      /\ by_resume_id' = IF e.resume = None THEN by_resume_id ELSE [by_resume_id EXCEPT ![e.resume] = a]
  BY <1>1 DEF Rekey
<1>7. e.resume \in Convs \cup {None}
  BY <1>0, <1>1, <1>3, TypeFacts
<1> HIDE DEF e, prev, r, a
<1>8. /\ by_id' \in [Agents -> Entries \cup {None}] /\ by_id'[a] = e
      /\ \A b \in Agents : b # a => by_id'[b] = IF b = prev THEN None ELSE by_id[b]
  BY <1>0, <1>2, <1>3, <1>4, <1>6 DEF TypeOK, e
<1>9. by_resume_id' \in [Convs -> Agents \cup {None}]
  BY <1>0, <1>2, <1>6, <1>7 DEF TypeOK
<1>10. ASSUME ~reused'
       PROVE  /\ \A b \in Agents : (b # a /\ by_id'[b] # None) => by_id'[b].sess # s
              /\ IndexSound'
  <2>1. ~reused /\ by_id[a] = None
    BY <1>1, <1>10, FirstBind DEF a
  <2>2. OneEntry /\ IndexSound
    BY <1>0, <2>1 DEF WhileFresh
  <2>3. \A b \in Agents : (b # a /\ by_id'[b] # None) => by_id'[b].sess # s
    BY <1>1, <1>3, <1>8, <2>2 DEF OneEntry
  <2>4. by_resume_id' = [by_resume_id EXCEPT ![r] = a]
    BY <1>1, <1>5, <1>6, <2>1 DEF e
  <2>5. ASSUME NEW d \in Convs, by_resume_id'[d] # None
        PROVE  /\ by_id'[by_resume_id'[d]] # None /\ by_id'[by_resume_id'[d]].resume = d
               /\ conv'[by_id'[by_resume_id'[d]].sess] = d
    <3>1. CASE d = r
      <4>1. by_resume_id'[d] = a /\ by_id'[a] = e
        BY <1>0, <1>2, <1>8, <2>4, <3>1 DEF TypeOK
      <4> QED
        BY <1>1, <1>5, <2>1, <3>1, <4>1 DEF e
    <3>2. CASE d # r
      <4>1. by_resume_id'[d] = by_resume_id[d] /\ by_resume_id[d] \in Agents
        BY <1>0, <1>2, <2>4, <2>5, <3>2 DEF TypeOK
      <4>2. /\ by_id[by_resume_id[d]] # None /\ by_id[by_resume_id[d]].resume = d
            /\ conv[by_id[by_resume_id[d]].sess] = d
        BY <2>1, <2>2, <2>5, <4>1 DEF IndexSound
      <4>3. by_resume_id[d] # prev /\ by_resume_id[d] # a
        BY <1>5, <2>1, <3>2, <4>2
      <4>4. by_id'[by_resume_id[d]] = by_id[by_resume_id[d]]
        BY <1>8, <4>1, <4>3
      <4> QED
        BY <1>1, <4>1, <4>2, <4>4
    <3> QED
      BY <3>1, <3>2
  <2>6. IndexSound'
    BY <2>5 DEF IndexSound, Convs, Sessions
  <2> QED
    BY <2>3, <2>6
<1>11. by_id'[a] # None /\ by_id'[a].sess = s
  BY <1>1, <1>8 DEF e
<1>12. hub' \in Sessions \cup {None} /\ spawned' = spawned /\ spawned <= MaxSessions
  BY <1>0, <1>1, AgentAssumption DEF TypeOK
<1>13. \A b \in Agents : b # a =>
           /\ by_id'[b] # None => by_id'[b] = by_id[b]
           /\ (by_id[b] # None /\ by_id'[b] = None) => by_id[b].sess = s
  BY <1>8
<1> HIDE DEF s
<1>14. /\ child' \in [Sessions -> {"unborn", "running", "stopping", "ended"}]
       /\ backend' \in [Sessions -> {"codex", "claude"}] /\ conv' \in [Sessions -> Convs]
  BY <1>0, <1>1 DEF TypeOK
<1> QED
  BY <1>1, <1>4, <1>5, <1>8, <1>9, <1>10, <1>11, <1>12, <1>13, <1>14, BindStep DEF a, r

\* A spawn numbers a session that was never used.
LEMMA SpawnKeeps ==
  ASSUME AgentsInv, NEW b \in {"codex", "claude"}, NEW c \in Convs \cup {None}, Spawned(b, c)
  PROVE  /\ spawned + 1 \in Sessions /\ spawned' = spawned + 1 /\ spawned' <= MaxSessions
         /\ child' \in [Sessions -> {"unborn", "running", "stopping", "ended"}]
         /\ backend' \in [Sessions -> {"codex", "claude"}] /\ conv' \in [Sessions -> Convs]
         /\ \A t \in Sessions : t # spawned + 1 =>
               child'[t] = child[t] /\ backend'[t] = backend[t] /\ conv'[t] = conv[t]
         /\ backend'[spawned + 1] = b /\ c \in {None, conv'[spawned + 1]}
         /\ child[spawned + 1] = "unborn" /\ exit' = exit
<1>0. TypeOK /\ Numbered
  BY DEF AgentsInv
<1>1. spawned + 1 \in Sessions /\ spawned' = spawned + 1 /\ spawned' <= MaxSessions
      /\ spawned + 1 > spawned
  BY <1>0, AgentAssumption DEF TypeOK, Spawned, Sessions
<1>2. child[spawned + 1] = "unborn"
  BY <1>0, <1>1 DEF Numbered
<1> DEFINE s == spawned + 1
<1>3. s \in Sessions
  BY <1>1
<1>4. /\ child' = [child EXCEPT ![s] = "running"] /\ backend' = [backend EXCEPT ![s] = b]
      /\ conv' = [conv EXCEPT ![s] = IF c = None THEN @ ELSE c]
  BY DEF Spawned
<1> HIDE DEF s
<1>5. /\ child' \in [Sessions -> {"unborn", "running", "stopping", "ended"}]
      /\ backend' \in [Sessions -> {"codex", "claude"}] /\ conv' \in [Sessions -> Convs]
      /\ \A t \in Sessions : t # s =>
            child'[t] = child[t] /\ backend'[t] = backend[t] /\ conv'[t] = conv[t]
      /\ backend'[s] = b /\ c \in {None, conv'[s]}
  BY <1>0, <1>3, <1>4 DEF TypeOK
<1> QED
  BY <1>1, <1>2, <1>5 DEF s, Spawned

\* A bind spawns a child for a Claude agent.
LEMMA SpawnsClaudeStep ==
  ASSUME AgentsInv, SpawnsClaude
  PROVE  AgentsInv'
<1> DEFINE a == op.slot[2]
           r == op.resume
           s == spawned + 1
           e == [sess |-> s, resume |-> r]
<1>0. TypeOK /\ Numbered /\ WhileFresh
  BY DEF AgentsInv
<1>1. /\ op.kind = "spawn" /\ op.backend = "claude" /\ Spawned("claude", r) /\ UNCHANGED hub
      /\ Bound(s) /\ Insert(a, e)
  BY DEF SpawnsClaude
<1>2. a \in Agents /\ r \in Convs \cup {None}
  BY <1>1, OpenFacts
<1>3. /\ s \in Sessions /\ spawned' = s /\ s <= MaxSessions
      /\ child' \in [Sessions -> {"unborn", "running", "stopping", "ended"}]
      /\ backend' \in [Sessions -> {"codex", "claude"}] /\ conv' \in [Sessions -> Convs]
      /\ \A t \in Sessions : t # s =>
            child'[t] = child[t] /\ backend'[t] = backend[t] /\ conv'[t] = conv[t]
      /\ backend'[s] = "claude" /\ r \in {None, conv'[s]} /\ exit' = exit
  BY <1>1, <1>2, SpawnKeeps
<1>4. e \in Entries /\ e.sess = s /\ e.resume = r
  BY <1>2, <1>3 DEF Entries
<1>5. e # None
  BY <1>0, <1>4, TypeFacts
<1>6. /\ by_id' = [by_id EXCEPT ![a] = e]
      /\ by_resume_id' = IF r = None THEN by_resume_id ELSE [by_resume_id EXCEPT ![r] = a]
  BY <1>1, <1>4 DEF Insert
<1>7. \A b \in Agents : by_id[b] # None =>
          by_id[b].sess \in Sessions /\ by_id[b].sess <= spawned /\ by_id[b].sess # s
  BY <1>0, TypeFacts DEF Numbered
<1>8. s \in Nat /\ s <= s /\ ~(s <= spawned) /\ spawned \in Nat
  BY <1>0, TypeFacts
<1>9. hub' \in Sessions \cup {None}
  BY <1>0, <1>1 DEF TypeOK
<1> HIDE DEF e, r, a
<1>10. /\ by_id' \in [Agents -> Entries \cup {None}] /\ by_id'[a] = e
       /\ \A b \in Agents : b # a => by_id'[b] = by_id[b]
       /\ by_resume_id' \in [Convs -> Agents \cup {None}]
  BY <1>0, <1>2, <1>4, <1>6 DEF TypeOK
<1>11. ASSUME ~reused'
       PROVE  IndexSound'
  <2>1. ~reused /\ by_id[a] = None
    BY <1>1, <1>11, FirstBind DEF a
  <2>2. IndexSound
    BY <1>0, <2>1 DEF WhileFresh
  <2>3. ASSUME NEW d \in Convs, by_resume_id'[d] # None
        PROVE  /\ by_id'[by_resume_id'[d]] # None /\ by_id'[by_resume_id'[d]].resume = d
               /\ conv'[by_id'[by_resume_id'[d]].sess] = d
    <3>1. CASE d = r /\ r # None
      <4>1. by_resume_id'[d] = a
        BY <1>0, <1>2, <1>6, <3>1 DEF TypeOK
      <4> QED
        BY <1>3, <1>4, <1>5, <1>10, <3>1, <4>1
    <3>2. CASE ~(d = r /\ r # None)
      <4>1. by_resume_id'[d] = by_resume_id[d] /\ by_resume_id[d] \in Agents
        BY <1>0, <1>2, <1>6, <2>3, <3>2 DEF TypeOK
      <4>2. /\ by_id[by_resume_id[d]] # None /\ by_id[by_resume_id[d]].resume = d
            /\ conv[by_id[by_resume_id[d]].sess] = d
        BY <2>1, <2>2, <2>3, <4>1 DEF IndexSound
      <4>3. by_id'[by_resume_id[d]] = by_id[by_resume_id[d]]
        BY <1>10, <2>1, <4>1, <4>2
      <4>4. conv'[by_id[by_resume_id[d]].sess] = conv[by_id[by_resume_id[d]].sess]
        BY <1>3, <1>7, <4>1, <4>2
      <4> QED
        BY <4>1, <4>2, <4>3, <4>4
    <3> QED
      BY <3>1, <3>2
  <2> QED
    BY <2>3 DEF IndexSound, Convs, Sessions
<1>12. \A b \in Agents : b # a =>
           /\ by_id'[b] # None => by_id'[b] = by_id[b]
           /\ (by_id[b] # None /\ by_id'[b] = None) => by_id[b].sess = s
  BY <1>10
<1>13. \A b \in Agents : (b # a /\ by_id'[b] # None) => by_id'[b].sess # s
  BY <1>7, <1>10
<1>14. by_id'[a] # None /\ by_id'[a].sess = s
  BY <1>4, <1>5, <1>10
<1>15. spawned' = spawned + 1
  BY <1>3
<1> HIDE DEF s
<1> QED
  BY <1>1, <1>3, <1>8, <1>9, <1>10, <1>11, <1>12, <1>13, <1>14, <1>15, BindStep DEF a, r

\* A bind to the shared child of Codex.
LEMMA BindsHubStep ==
  ASSUME AgentsInv, BindsHub
  PROVE  AgentsInv'
<1>0. TypeOK /\ Numbered /\ HubSound /\ OpSound /\ WhileFresh
  BY DEF AgentsInv
<1>1. /\ op.kind = "bind" /\ op.backend = "codex" /\ Bound(hub) /\ hub # None
      /\ UNCHANGED <<child, exit, backend, conv, spawned, by_id, by_resume_id, hub>>
  BY DEF BindsHub, HubAlive
<1>2. hub \in Sessions /\ hub <= spawned /\ backend[hub] = "codex" /\ op.resume = None
  BY <1>0, <1>1 DEF TypeOK, Numbered, HubSound, OpSound
<1>3. spawned <= MaxSessions
  BY <1>0, AgentAssumption DEF TypeOK
<1>4. ~reused' => IndexSound'
  <2>1. ~reused' => ~reused
    BY <1>1 DEF Bound
  <2> QED
    BY <1>0, <1>1, <2>1 DEF WhileFresh, IndexSound
<1>5. /\ child' \in [Sessions -> {"unborn", "running", "stopping", "ended"}]
      /\ backend' \in [Sessions -> {"codex", "claude"}] /\ conv' \in [Sessions -> Convs]
      /\ by_id' \in [Agents -> Entries \cup {None}]
      /\ by_resume_id' \in [Convs -> Agents \cup {None}] /\ hub' \in Sessions \cup {None}
  BY <1>0, <1>1 DEF TypeOK
<1> QED
  BY <1>1, <1>2, <1>3, <1>4, <1>5, BindStep

\* A bind spawns the shared child of Codex, when there is none or it ended.
LEMMA SpawnsHubStep ==
  ASSUME AgentsInv, SpawnsHub
  PROVE  AgentsInv'
<1> DEFINE s == spawned + 1
<1>0. TypeOK /\ Numbered /\ HubSound /\ OpSound /\ WhileFresh
  BY DEF AgentsInv
<1>1. /\ op.kind = "spawn" /\ op.backend = "codex" /\ Spawned("codex", None) /\ hub' = s
      /\ Bound(s) /\ UNCHANGED <<by_id, by_resume_id>>
  BY DEF SpawnsHub
<1>2. (hub # None => child[hub] # "running") /\ op.resume = None
  BY <1>0, <1>1 DEF OpSound
<1>3. /\ s \in Sessions /\ spawned' = s /\ s <= MaxSessions
      /\ child' \in [Sessions -> {"unborn", "running", "stopping", "ended"}]
      /\ backend' \in [Sessions -> {"codex", "claude"}] /\ conv' \in [Sessions -> Convs]
      /\ \A t \in Sessions : t # s =>
            child'[t] = child[t] /\ backend'[t] = backend[t] /\ conv'[t] = conv[t]
      /\ backend'[s] = "codex" /\ exit' = exit
  BY <1>1, SpawnKeeps
<1>4. \A b \in Agents : by_id[b] # None =>
          by_id[b].sess \in Sessions /\ by_id[b].sess <= spawned /\ by_id[b].sess # s
  BY <1>0, TypeFacts DEF Numbered
<1>5. s \in Nat /\ s <= s /\ ~(s <= spawned) /\ spawned' = spawned + 1
  BY <1>0, <1>3, TypeFacts
<1>6. ~reused' => IndexSound'
  <2>1. ~reused' => ~reused
    BY <1>1 DEF Bound
  <2>2. ASSUME ~reused, NEW c \in Convs, by_resume_id[c] # None
        PROVE  /\ by_id[by_resume_id[c]] # None /\ by_id[by_resume_id[c]].resume = c
               /\ conv'[by_id[by_resume_id[c]].sess] = c
    <3>1. /\ by_id[by_resume_id[c]] # None /\ by_id[by_resume_id[c]].resume = c
          /\ conv[by_id[by_resume_id[c]].sess] = c /\ by_resume_id[c] \in Agents
      BY <1>0, <2>2 DEF WhileFresh, IndexSound, TypeOK
    <3> QED
      BY <1>3, <1>4, <3>1
  <2> QED
    BY <1>1, <2>1, <2>2 DEF IndexSound, Convs, Sessions
<1>7. /\ by_id' \in [Agents -> Entries \cup {None}]
      /\ by_resume_id' \in [Convs -> Agents \cup {None}] /\ hub' \in Sessions \cup {None}
  BY <1>0, <1>1, <1>3 DEF TypeOK
<1> HIDE DEF s
<1> QED
  BY <1>1, <1>2, <1>3, <1>5, <1>6, <1>7, BindStep

\* AgentsInv is inductive.
LEMMA AgentsNext == AgentsInv /\ [Next]_vars => AgentsInv'
<1> USE DEF sessionVars, registry, history
<1> SUFFICES ASSUME AgentsInv, [Next]_vars PROVE AgentsInv'
  OBVIOUS
<1>0. TypeOK /\ Numbered /\ OpSound
  BY DEF AgentsInv
<1>1. CASE Loop
  <2>1. CASE \E a \in Agents : ClosesNext(a)
    BY <2>1, ClosesNextStep
  <2>2. CASE CloseAborts
    <3>1. op \in Closes
      BY <1>0, <2>2 DEF TypeOK, CloseAborts, Opens, Idle
    <3>2. op.sess \in Sessions
      BY <2>2, <3>1 DEF CloseAborts, Closes
    <3>3. \E why \in {"none", "normal", "crashed", "requested"} : exit' = [exit EXCEPT ![op.sess] = why]
      <4>1. exit[op.sess] \in {"none", "normal", "crashed", "requested"}
            /\ exit' = [exit EXCEPT ![op.sess] = exit[op.sess]]
        BY <1>0, <2>2, <3>2 DEF TypeOK, CloseAborts
      <4> QED
        BY <4>1
    <3> QED
      BY <2>2, <3>2, <3>3, ChildEnds DEF CloseAborts
  <2> QED
    BY <1>1, <2>1, <2>2, RebindsStep, ForgetsDeadStep, LoopMovesStep, SpawnsClaudeStep, BindsHubStep,
       SpawnsHubStep, ClosesHubStep, CloseEndsStep DEF Loop
<1>2. CASE Pumps
  BY <1>2, PumpReadsStep, PumpEndsStep DEF Pumps
<1>3. ASSUME NEW s \in Sessions, ChildExits(s) \/ ChildStops(s) \/ SessionDropped(s) \/ Forwards(s)
      PROVE  AgentsInv'
  <2>1. CASE ChildExits(s) \/ ChildStops(s)
    BY <2>1, ChildEnds DEF ChildExits, ChildStops
  <2>2. CASE SessionDropped(s)
    <3>1. \E why \in {"none", "normal", "crashed", "requested"} : exit' = [exit EXCEPT ![s] = why]
      <4>1. exit[s] \in {"none", "normal", "crashed", "requested"}
            /\ exit' = [exit EXCEPT ![s] = exit[s]]
        BY <1>0, <2>2 DEF TypeOK, SessionDropped
      <4> QED
        BY <4>1
    <3> QED
      BY <2>2, <3>1, ChildEnds DEF SessionDropped
  <2> QED
    BY <1>3, <2>1, <2>2, ForwardsStep
<1>4. ASSUME NEW a \in Agents,
             AgentChannelClosed(a) \/ AgentClose(a) \/ AgentCloseUnknown(a)
      PROVE  AgentsInv'
  BY <1>4, AgentChannelClosedStep, AgentCloseStep, AgentCloseUnknownStep
<1>5. CASE Sweep \/ CloseAll
  BY <1>5, SweepStep, CloseAllStep
<1>6. CASE UNCHANGED vars
  <2>1. op' \in Opens \cup Closes \cup {Idle} /\ chan' \in [Agents -> {"none", "open", "closed"}]
    BY <1>0, <1>6 DEF TypeOK, vars
  <2>2. OpSound'
    BY <1>0, <1>6 DEF OpSound, vars
  <2> QED
    BY <1>6, <2>1, <2>2, OpMoves DEF vars
<1> QED
  BY <1>1, <1>2, <1>3, <1>4, <1>5, <1>6, LoopMovesStep DEF Next

\* The invariant gives what the daemon needs of its agents.
LEMMA AgentsInvSound == AgentsInv => AgentsSound
<1> SUFFICES ASSUME AgentsInv PROVE AgentsSound
  OBVIOUS
<1>0. TypeOK /\ Numbered /\ HubSound /\ WhileFresh
  BY DEF AgentsInv
<1>1. PumpsMatch
  <2> SUFFICES ASSUME ~reused, NEW x \in Slots, Live(x), child[pumps[x].sess] = "running"
               PROVE  /\ pumps[x].asked \in {None, conv[pumps[x].sess]}
                      /\ Target(x[2]) \in {None, pumps[x].sess}
    BY DEF PumpsMatch, Live
  <2>1. Paired
    BY <1>0 DEF WhileFresh
  <2>2. x[2] \in Agents /\ pumps[x].sess \in Sessions /\ None \notin {"codex", "claude"}
    BY <1>0, TypeFacts
  <2>3. CASE backends[x[2]] = "codex"
    <3>1. backend[pumps[x].sess] = "codex"
      BY <2>1, <2>2, <2>3 DEF Paired
    <3> QED
      BY <1>0, <2>1, <2>2, <2>3, <3>1 DEF HubSound, Target, Paired
  <2>4. CASE backends[x[2]] # "codex"
    BY <2>1, <2>4 DEF Paired, Target
  <2> QED
    BY <2>3, <2>4
<1>2. IndexSound /\ ChildrenRegistered /\ ClaudeHeard
  BY <1>0 DEF WhileFresh, IndexSound, ChildrenRegistered, ClaudeHeard
<1> QED
  BY <1>0, <1>1, <1>2 DEF AgentsSound

\* For any number of agents, transports, children and binds: a conversation, its
\* child, its pump and its sink belong to one another, however binds, closes and
\* sweeps interleave, as long as devices choose a fresh id for every open
\* (agent_session.rs 1222-1430 and 1542-1667, daemon.rs 2933-2941).
THEOREM AgentsAlwaysSound == Spec => []AgentsSound
<1>1. Spec => []AgentsInv
  BY AgentsInit, AgentsNext, PTL DEF Spec
<1> QED
  BY <1>1, AgentsInvSound, PTL

-----------------------------------------------------------------------------
(* Refinement                                                              *)

\* Asking a child to stop is a step of AgentChildren, or none.
LEMMA StopRefines ==
  ASSUME TypeOK, NEW s \in Sessions, UNCHANGED exit,
         child' = [child EXCEPT ![s] = IF @ = "running" THEN "stopping" ELSE @]
  PROVE  [Abstract!Next]_(Abstract!vars)
<1>1. CASE child[s] = "running"
  <2>1. Abstract!StopRequested(s)
    BY <1>1 DEF Abstract!StopRequested, Abstract!Moves
  <2> QED
    BY <2>1 DEF Abstract!Next
<1>2. CASE child[s] # "running"
  <2>1. child' = child
    BY <1>2 DEF TypeOK
  <2> QED
    BY <2>1 DEF Abstract!vars
<1> QED
  BY <1>1, <1>2

\* Every step of the agent sessions is a step of AgentChildren, or changes no
\* child.
LEMMA ChildrenStep == AgentsInv /\ [Next]_vars => [Abstract!Next]_(Abstract!vars)
<1> USE DEF sessionVars, registry, history
<1> SUFFICES ASSUME AgentsInv, [Next]_vars PROVE [Abstract!Next]_(Abstract!vars)
  OBVIOUS
<1>0. TypeOK /\ Numbered /\ OpSound
  BY DEF AgentsInv
<1>1. ASSUME NEW b \in {"codex", "claude"}, NEW c \in Convs \cup {None}, Spawned(b, c)
      PROVE  Abstract!Next
  <2>1. spawned + 1 \in Sessions /\ child[spawned + 1] = "unborn" /\ exit' = exit
    BY <1>1, SpawnKeeps
  <2>2. Abstract!Spawned(spawned + 1)
    BY <1>1, <2>1 DEF Spawned, Abstract!Spawned, Abstract!Moves
  <2> QED
    BY <2>1, <2>2 DEF Abstract!Next
<1>2. CASE SpawnsClaude
  <2>1. Spawned("claude", op.resume) /\ op.resume \in Convs \cup {None}
    BY <1>2, OpenFacts DEF SpawnsClaude
  <2> QED
    BY <1>1, <2>1
<1>3. CASE SpawnsHub
  BY <1>1, <1>3 DEF SpawnsHub
<1>4. ASSUME NEW s \in Sessions, ChildExits(s) PROVE Abstract!Next
  <2>1. Abstract!Exits(s)
    BY <1>4 DEF ChildExits, Abstract!Exits, Abstract!Moves
  <2> QED
    BY <2>1 DEF Abstract!Next
<1>5. ASSUME NEW s \in Sessions, ChildStops(s) PROVE Abstract!Next
  <2>1. Abstract!Stops(s)
    BY <1>5 DEF ChildStops, Abstract!Stops, Abstract!Moves
  <2> QED
    BY <2>1 DEF Abstract!Next
<1>6. ASSUME NEW s \in Sessions, SessionDropped(s) PROVE Abstract!Next
  <2>1. Abstract!Dropped(s)
    BY <1>6 DEF SessionDropped, Abstract!Dropped, Abstract!Moves
  <2> QED
    BY <2>1 DEF Abstract!Next
<1>7. CASE CloseAborts
  <2>1. op \in Closes
    BY <1>0, <1>7 DEF TypeOK, CloseAborts, Opens, Idle
  <2>2. op.sess \in Sessions
    BY <1>7, <2>1 DEF CloseAborts, Closes
  <2>3. exit[op.sess] = "none"
    BY <1>0, <1>7, <2>2 DEF Numbered, CloseAborts
  <2>4. exit' = [exit EXCEPT ![op.sess] = "none"]
    BY <1>0, <1>7, <2>2, <2>3 DEF TypeOK, CloseAborts
  <2>5. Abstract!Stops(op.sess)
    BY <1>7, <2>4 DEF CloseAborts, Abstract!Stops, Abstract!Moves
  <2> QED
    BY <2>2, <2>5 DEF Abstract!Next
<1>8. ASSUME NEW a \in Agents, AgentClose(a) PROVE [Abstract!Next]_(Abstract!vars)
  <2>1. Target(a) \in Sessions
    BY <1>0, <1>8, TypeFacts DEF Target, TypeOK, AgentClose
  <2> QED
    BY <1>0, <1>8, <2>1, StopRefines DEF AgentClose, StopBegins
<1>9. ASSUME NEW a \in Agents, ClosesNext(a) PROVE [Abstract!Next]_(Abstract!vars)
  <2>1. by_id[a].sess \in Sessions
    BY <1>0, <1>9, TypeFacts DEF ClosesNext, Closed, OpSound
  <2> QED
    BY <1>0, <1>9, <2>1, StopRefines DEF ClosesNext, StopBegins
<1>10. CASE ClosesHub
  <2>1. hub \in Sessions
    BY <1>0, <1>10 DEF ClosesHub, TypeOK
  <2> QED
    BY <1>0, <1>10, <2>1, StopRefines DEF ClosesHub, StopBegins
<1>11. CASE UNCHANGED <<child, exit>>
  BY <1>11 DEF Abstract!vars
<1>12. CASE UNCHANGED vars
  BY <1>11, <1>12 DEF vars
<1>13. ASSUME \/ Rebinds \/ ForgetsDead \/ NothingToRebind \/ SpawnFails \/ BindsHub \/ HubNeedsSpawn
              \/ CloseEnds \/ Pumps \/ Sweep \/ CloseAll
              \/ \E s \in Sessions : Forwards(s)
              \/ \E a \in Agents : ChannelCloses(a) \/ AgentChannelClosed(a) \/ AgentCloseUnknown(a)
              \/ \E a \in Agents, b \in {"codex", "claude"}, r \in Convs \cup {None} :
                    AgentMessage(a, b, r) \/ AgentInit(a, b, r)
       PROVE  UNCHANGED <<child, exit>>
  BY <1>13 DEF Rebinds, ForgetsDead, NothingToRebind, SpawnFails, BindsHub, HubNeedsSpawn, CloseEnds,
     Pumps, PumpReads, PumpEnds, Sweep, CloseAll, Forwards, ChannelCloses, AgentChannelClosed,
     AgentCloseUnknown, AgentMessage, AgentInit, Binds
<1> QED
  BY <1>2, <1>3, <1>4, <1>5, <1>6, <1>7, <1>8, <1>9, <1>10, <1>11, <1>12, <1>13 DEF Next, Loop

\* The safety half of Children: a child runs once, is stopped only on request or
\* when nothing refers to it, and a reason, once recorded, is final
\* (agent_session.rs 549-582 and 1099-1143).
THEOREM SessionsImplementChildren ==
  Spec => Abstract!Init /\ [][Abstract!Next]_(Abstract!vars)
<1>1. Init => Abstract!Init
  BY DEF Init, Abstract!Init
<1>2. Spec => []AgentsInv
  BY AgentsInit, AgentsNext, PTL DEF Spec
<1> QED
  BY <1>1, <1>2, ChildrenStep, PTL DEF Spec

=============================================================================
