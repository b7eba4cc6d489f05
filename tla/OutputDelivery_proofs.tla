------------------------- MODULE OutputDelivery_proofs -------------------------
(***************************************************************************)
(* Proofs about OutputDelivery, for any number of viewers and chunks and   *)
(* any capacity of the queue.                                              *)
(***************************************************************************)
EXTENDS OutputDelivery, TLAPS

\* A broadcast leaves a channel table, and only channels that were there.
LEMMA BroadcastType ==
  ASSUME NEW ch \in [Viewers -> Channels], NEW took
  PROVE  /\ Broadcast(ch, took) \in [Viewers -> Channels]
         /\ \A v \in Viewers : Broadcast(ch, took)[v] # "none" => ch[v] # "none"
BY DEF Broadcast, InTable, Channels

-----------------------------------------------------------------------------
(* Type correctness.                                                       *)

\* Every reachable state is well typed, and the channel table only holds
\* channels of devices that resumed over the current connection.
THEOREM TypeCorrect == Spec => []TypeOK
<1>1. Init => TypeOK
  <2> SUFFICES ASSUME Init PROVE TypeOK
    OBVIOUS
  <2>1. authed \in BOOLEAN
    BY DEF Init
  <2>2. /\ chan \in [Viewers -> Channels]
        /\ base \in [Viewers -> Nat]
        /\ \A v \in Viewers : chan[v] = "none"
    BY DEF Init, Channels
  <2>3. /\ scrolled = 0 /\ fed = 0 /\ enq = 0 /\ deq = 0 /\ done = 0
        /\ ws = "up" /\ closing = {} /\ joined = {} /\ missed = {}
        /\ pending = NoViewer /\ owner = NoViewer
    BY DEF Init
  <2> QED
    BY <2>1, <2>2, <2>3, OutputAssumption DEF TypeOK, Sockets
<1>2. TypeOK /\ [Next]_vars => TypeOK'
  <2> SUFFICES ASSUME TypeOK, [Next]_vars PROVE TypeOK'
    OBVIOUS
  <2> USE OutputAssumption
  <2>1. CASE UNCHANGED vars
    BY <2>1 DEF TypeOK, vars
  <2>2. CASE Read \/ Feed \/ Enqueue
    BY <2>2 DEF Read, Feed, Enqueue, TypeOK, output, channels, resume
  <2>3. CASE DrainOutput
    BY <2>3 DEF DrainOutput, TypeOK, reader, channels, resume
  <2>4. ASSUME NEW took \in SUBSET Viewers, FanOut(took) PROVE TypeOK'
    <3>1. chan' = Broadcast(chan, took)
      BY <2>4 DEF FanOut
    <3>2. /\ chan' \in [Viewers -> Channels]
          /\ \A v \in Viewers : chan'[v] # "none" => v \in joined
      BY <3>1, BroadcastType DEF TypeOK
    <3>3. missed' \subseteq joined /\ done' \in Nat
      BY <2>4 DEF FanOut, TypeOK
    <3> QED
      BY <2>4, <3>2, <3>3 DEF FanOut, TypeOK, reader
  <2>5. CASE CleanUp /\ UNCHANGED <<reader, deq>> /\ done' \in {done, deq}
    BY <2>5 DEF CleanUp, TypeOK, reader, Sockets, Channels
  <2>6. ASSUME NEW took \in SUBSET Viewers, FanOutFails(took) PROVE TypeOK'
    BY <2>5, <2>6 DEF FanOutFails
  <2>7. CASE SocketFails
    BY <2>5, <2>7 DEF SocketFails, output
  <2>8. CASE TokenRotated \/ Connect
    BY <2>8 DEF TokenRotated, Connect, TypeOK, Sockets, reader, output, channels, resume
  <2>9. ASSUME NEW v \in Viewers, Join(v) PROVE TypeOK'
    BY <2>9 DEF Join, TypeOK, reader, output, channels
  <2>10. ASSUME NEW v \in Viewers, NEW took \in SUBSET Viewers, ChannelOpened(v, took)
         PROVE  TypeOK'
    <3> DEFINE opened == [chan EXCEPT ![v] = "open"]
    <3>1. /\ opened \in [Viewers -> Channels]
          /\ \A u \in Viewers : opened[u] # "none" => u \in joined
      BY <2>10 DEF ChannelOpened, TypeOK, Channels
    <3>2. chan' = Broadcast(opened, took)
      BY <2>10 DEF ChannelOpened
    <3> HIDE DEF opened
    <3>3. /\ chan' \in [Viewers -> Channels]
          /\ \A u \in Viewers : chan'[u] # "none" => u \in joined
      BY <3>1, <3>2, BroadcastType
    <3> QED
      BY <2>10, <3>3 DEF ChannelOpened, TypeOK, reader, output, resume
  <2>11. ASSUME NEW v \in Viewers, NEW took \in SUBSET Viewers, AuthResponse(v, took)
         PROVE  TypeOK'
    <3>1. chan' = Broadcast(chan, took)
      BY <2>11 DEF AuthResponse
    <3>2. /\ chan' \in [Viewers -> Channels]
          /\ \A u \in Viewers : chan'[u] # "none" => u \in joined
      BY <3>1, BroadcastType DEF TypeOK
    <3> QED
      BY <2>11, <3>2 DEF AuthResponse, TypeOK, reader, output, resume
  <2>12. ASSUME NEW v \in Viewers, ChannelClosed(v) PROVE TypeOK'
    BY <2>12 DEF ChannelClosed, TypeOK, Channels, reader, output, resume
  <2>13. ASSUME NEW v \in Viewers, PeerClosed(v) \/ GoesStale(v) \/ RemoteCloses(v)
         PROVE  TypeOK'
    BY <2>13 DEF PeerClosed, GoesStale, RemoteCloses, TypeOK, Channels, reader, output, resume
  <2> QED
    BY <2>1, <2>2, <2>3, <2>4, <2>6, <2>7, <2>8, <2>9, <2>10, <2>11, <2>12, <2>13 DEF Next
<1> QED
  BY <1>1, <1>2, PTL DEF Spec

-----------------------------------------------------------------------------
(* The pipeline.                                                           *)

\* The stages of the pipeline stay in order and the queue within its capacity,
\* for any capacity and any amount of output.  The order is inductive together
\* with the types alone, because every handler outside the tick waits until
\* the batch is dealt with.
THEOREM PipelineOrdered == Spec => []Pipeline
<1>1. Init => Pipeline
  BY OutputAssumption DEF Init, Pipeline
<1>2. TypeOK /\ Pipeline /\ [Next]_vars => Pipeline'
  <2> SUFFICES ASSUME TypeOK, Pipeline, [Next]_vars PROVE Pipeline'
    OBVIOUS
  <2> USE OutputAssumption
  <2>1. CASE UNCHANGED <<reader, output>>
    BY <2>1 DEF Pipeline, reader, output
  <2>2. CASE Read \/ Feed \/ Enqueue
    BY <2>2 DEF Read, Feed, Enqueue, Pipeline, TypeOK, output
  <2>3. CASE DrainOutput
    BY <2>3 DEF DrainOutput, Selecting, Pipeline, TypeOK, reader
  <2>4. ASSUME NEW took \in SUBSET Viewers, FanOut(took) \/ FanOutFails(took) PROVE Pipeline'
    BY <2>4 DEF FanOut, FanOutFails, Pipeline, TypeOK, reader
  <2>5. ASSUME NEW v \in Viewers,
               \/ Join(v) \/ ChannelClosed(v) \/ PeerClosed(v) \/ GoesStale(v) \/ RemoteCloses(v)
               \/ \E took \in SUBSET Viewers : ChannelOpened(v, took) \/ AuthResponse(v, took)
        PROVE  Pipeline'
    BY <2>1, <2>5 DEF Join, ChannelClosed, PeerClosed, GoesStale, RemoteCloses,
                      ChannelOpened, AuthResponse
  <2>6. CASE TokenRotated \/ SocketFails \/ Connect
    BY <2>1, <2>6 DEF TokenRotated, SocketFails, Connect
  <2>7. CASE UNCHANGED vars
    BY <2>1, <2>7 DEF vars, reader, output
  <2> QED
    BY <2>2, <2>3, <2>4, <2>5, <2>6, <2>7 DEF Next
<1> QED
  BY <1>1, <1>2, TypeCorrect, PTL DEF Spec

\* Whatever was drained before a viewer joins, sent or dropped with a lost
\* socket, is part of the snapshot that it resumes from.
THEOREM SnapshotsCover == Spec => ResumeCovers
<1>1. TypeOK /\ Pipeline /\ [Next]_vars
        => [\A v \in Viewers : Join(v) => deq <= base'[v]]_vars
  <2> SUFFICES ASSUME TypeOK, Pipeline, NEW v \in Viewers, Join(v) PROVE deq <= base'[v]
    OBVIOUS
  <2>1. base'[v] = fed
    BY DEF Join, TypeOK
  <2> QED
    BY <2>1 DEF Pipeline, TypeOK
<1> QED
  BY <1>1, TypeCorrect, PipelineOrdered, PTL DEF Spec, ResumeCovers

-----------------------------------------------------------------------------
(* The fallback.                                                           *)

\* A viewer that is alone misses no chunk after its snapshot unless its own
\* dead channel seems to take it.  The channel table holds nothing but its
\* channel, so a broadcast that was taken was taken by that channel.
THEOREM SoleViewer == Spec => SoleViewerServed
<1>1. TypeOK /\ [Next]_vars
        => [\A v \in Viewers : joined = {v} /\ v \in missed' \ missed => chan[v] = "stale"]_vars
  <2> SUFFICES ASSUME TypeOK, Next, NEW v \in Viewers, joined = {v}, v \in missed' \ missed
               PROVE  chan[v] = "stale"
    OBVIOUS
  <2>1. \A u \in Viewers : chan[u] # "none" => u = v
    BY DEF TypeOK
  <2>2. ASSUME NEW took \in SUBSET Viewers, FanOut(took) PROVE chan[v] = "stale"
    <3>1. ChannelSuffices(took) /\ v \notin Receives(took)
      BY <2>2 DEF FanOut
    <3>2. took # {} /\ \A u \in took : chan[u] \in {"open", "stale"}
      BY <2>2, <3>1 DEF FanOut, Taken, ChannelSuffices
    <3>3. v \in took
      BY <2>1, <3>2
    <3> QED
      BY <3>1, <3>2, <3>3 DEF Receives
  <2>3. CASE missed' \subseteq missed
    BY <2>3
  <2>4. CASE CleanUp
    BY <2>4 DEF CleanUp
  <2>5. ASSUME NEW u \in Viewers,
               \/ Join(u) \/ ChannelClosed(u) \/ PeerClosed(u) \/ GoesStale(u) \/ RemoteCloses(u)
               \/ \E took \in SUBSET Viewers : ChannelOpened(u, took) \/ AuthResponse(u, took)
        PROVE  missed' \subseteq missed
    BY <2>5 DEF Join, ChannelClosed, PeerClosed, GoesStale, RemoteCloses,
                ChannelOpened, AuthResponse, resume
  <2>6. CASE Read \/ Feed \/ Enqueue \/ DrainOutput \/ TokenRotated \/ Connect
    BY <2>3, <2>6 DEF Read, Feed, Enqueue, DrainOutput, TokenRotated, Connect, resume
  <2> QED
    BY <2>2, <2>3, <2>4, <2>5, <2>6 DEF Next, FanOutFails, SocketFails
<1> QED
  BY <1>1, TypeCorrect, PTL DEF Spec, SoleViewerServed
=============================================================================
