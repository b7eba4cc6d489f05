----------------------- MODULE SessionLifecycle_proofs -----------------------
(***************************************************************************)
(* Proofs about SessionLifecycle, for every set of sessions and devices,   *)
(* every limit and every behaviour of the backend.                         *)
(***************************************************************************)
EXTENDS SessionLifecycle, FiniteSetTheorems, TLAPS

RecType == [Sessions -> Record \cup {NoRec}]
RowType == [Sessions -> RowState]

-----------------------------------------------------------------------------
(* The helpers of the store, the channels and the backend.                 *)

\* touch_session_state keeps the record table well formed.
LEMMA TouchType ==
  ASSUME NEW r \in RecType, NEW S, NEW st \in SessionState
  PROVE  TouchSessionState(r, S, st) \in RecType
<1>1. ASSUME NEW s \in Sessions
      PROVE  (IF s \notin S THEN r[s]
              ELSE IF r[s] = NoRec
                   THEN [state |-> st, persistent |-> FALSE, device |-> Unknown]
                   ELSE [r[s] EXCEPT !.state = st]) \in Record \cup {NoRec}
  BY <1>1 DEF RecType, Record
<1> QED
  BY <1>1 DEF TouchSessionState, RecType

\* upsert_session keeps the record table well formed.
LEMMA UpsertType ==
  ASSUME NEW r \in RecType, NEW s \in Sessions, NEW p \in BOOLEAN, NEW d \in Devices
  PROVE  UpsertSession(r, s, p, d) \in RecType
BY DEF UpsertSession, RecType, Record, SessionState

\* Stamping records keeps updated_at an order on sessions.
LEMMA StampType ==
  ASSUME older \subseteq Sessions \X Sessions, NEW r, NEW S
  PROVE  Stamp(r, S) \subseteq Sessions \X Sessions
BY DEF Stamp, EvictableIn

\* A backend call leaves well formed rows, whether it fails or not.
LEMMA RowsType ==
  ASSUME NEW r \in RowType, NEW S, NEW st \in RowState, NEW x \in Rows(r, S, st)
  PROVE  x \in RowType
BY DEF Rows, RowType

\* Closing channels keeps the channel table and the event queue well formed.
LEMMA CloseChannelsType ==
  ASSUME TypeOK, NEW S \in SUBSET Sessions, CloseChannels(S)
  PROVE  /\ chans' \in [Sessions -> SUBSET Devices]
         /\ closing' \subseteq Sessions \X Devices
BY DEF TypeOK, CloseChannels, ChannelEvents

-----------------------------------------------------------------------------
(* Type correctness.                                                       *)

\* Every state the daemon reaches is well typed; in particular an exit mark
\* never outlives its PTY.
THEOREM TypeCorrect == Spec => []TypeOK
<1>1. Init => TypeOK
  BY DEF Init, TypeOK, Phases, RowState
<1>2. TypeOK /\ [Next]_vars => TypeOK'
  <2> SUFFICES ASSUME TypeOK, [Next]_vars PROVE TypeOK'
    OBVIOUS
  <2> USE ConstantsAssumption
  <2>0. /\ rec \in RecType
        /\ row \in RowType
        /\ \A S : Stamp(rec', S) \subseteq Sessions \X Sessions
    BY StampType DEF TypeOK, RecType, RowType
  <2>t. \A S : \A st \in SessionState : TouchSessionState(rec, S, st) \in RecType
    BY <2>0, TouchType
  <2>r. \A S : \A st \in RowState : \A x \in Rows(row, S, st) : x \in RowType
    BY <2>0, RowsType
  <2>1. CASE UNCHANGED vars
    BY <2>1 DEF TypeOK, vars
  <2>2. ASSUME NEW s \in Sessions, RequestedByMobile(s) PROVE TypeOK'
    BY <2>2 DEF TypeOK, RequestedByMobile, RowState
  <2>3. ASSUME NEW s \in Sessions, NEW spawnable \in BOOLEAN, NEW ackSent \in BOOLEAN,
               NEW E \in SUBSET Evictable, SessionRequest(s, spawnable, ackSent, E)
        PROVE  TypeOK'
    <3>1. TouchSessionState(rec, E, "Ended") \in RecType
      BY <2>t DEF SessionState
    <3>2. UpsertSession(TouchSessionState(rec, E, "Ended"), s, Kind[s] = "shell", Owner[s]) \in RecType
      BY <3>1, UpsertType
    <3>3. rec' \in RecType
      BY <2>3, <3>1, <3>2 DEF SessionRequest
    <3>4. row' \in RowType
      <4>1. PICK r \in Rows(row, E, "over") :
              row' \in IF ackSent
                      THEN Rows(r, {s}, IF Accepts(s, ptys \ E, spawnable) THEN "active" ELSE "over")
                      ELSE {r}
        BY <2>3 DEF SessionRequest
      <4>2. r \in RowType
        BY <2>r DEF RowState
      <4>3. (IF Accepts(s, ptys \ E, spawnable) THEN "active" ELSE "over") \in RowState
        BY DEF RowState
      <4> QED
        BY <4>1, <4>2, <4>3, RowsType
    <3>5. ptys' \subseteq Sessions /\ exited' \subseteq ptys'
      BY <2>3 DEF SessionRequest, Spawned, TypeOK
    <3> QED
      BY <2>0, <2>3, <3>3, <3>4, <3>5 DEF SessionRequest, TypeOK, RecType, RowType
  <2>4. ASSUME NEW s \in Sessions, NEW d \in Devices, SessionJoin(s, d) PROVE TypeOK'
    <3>1. rec' \in RecType
      BY <2>0, <2>4, UpsertType DEF SessionJoin
    <3>2. row' \in RowType
      BY <2>r, <2>4 DEF SessionJoin, RowState
    <3> QED
      BY <2>0, <2>4, <3>1, <3>2 DEF SessionJoin, TypeOK, RecType, RowType
  <2>5. ASSUME NEW s \in Sessions, SessionDetach(s) PROVE TypeOK'
    <3>1. rec' \in RecType /\ row' \in RowType
      BY <2>t, <2>r, <2>5 DEF SessionDetach, SessionState, RowState
    <3>2. /\ chans' \in [Sessions -> SUBSET Devices]
          /\ closing' \subseteq Sessions \X Devices
      BY <2>5, CloseChannelsType DEF SessionDetach
    <3> QED
      BY <2>0, <2>5, <3>1, <3>2 DEF SessionDetach, TypeOK, RecType, RowType
  <2>6. ASSUME NEW s \in Sessions, SessionDetachCloses(s) PROVE TypeOK'
    <3>1. rec' \in RecType /\ row' \in RowType
      BY <2>t, <2>r, <2>6 DEF SessionDetachCloses, SessionState, RowState
    <3> QED
      BY <2>0, <2>6, <3>1 DEF SessionDetachCloses, TypeOK, RecType, RowType
  <2>7. ASSUME NEW s \in Sessions, SessionClose(s) PROVE TypeOK'
    <3>1. rec' \in RecType /\ row' \in RowType
      BY <2>0, <2>t, <2>r, <2>7 DEF SessionClose, SessionState, RowState
    <3>2. /\ chans' \in [Sessions -> SUBSET Devices]
          /\ closing' \subseteq Sessions \X Devices
      BY <2>7, CloseChannelsType DEF SessionClose
    <3> QED
      BY <2>0, <2>7, <3>1, <3>2 DEF SessionClose, TypeOK, RecType, RowType
  <2>8. ASSUME NEW s \in Sessions, NEW k \in BOOLEAN, TerminalSignal(s, k) PROVE TypeOK'
    <3>1. rec' \in RecType /\ row' \in RowType
      BY <2>t, <2>r, <2>8 DEF TerminalSignal, SessionState, RowState
    <3> QED
      BY <2>0, <2>8, <3>1 DEF TerminalSignal, TypeOK, RecType, RowType
  <2>9. ASSUME NEW s \in Sessions, NEW st \in EventStates, SessionEvent(s, st) PROVE TypeOK'
    <3>1. rec' \in RecType
      BY <2>t, <2>9 DEF SessionEvent
    <3> QED
      BY <2>0, <2>9, <3>1 DEF SessionEvent, TypeOK, RecType
  <2>10. ASSUME NEW s \in Sessions, NEW d \in Devices, ChannelOpened(s, d) PROVE TypeOK'
    BY <2>10 DEF ChannelOpened, TypeOK
  <2>11. ASSUME NEW s \in Sessions, NEW d \in Devices, ChannelLost(s, d) PROVE TypeOK'
    BY <2>11 DEF ChannelLost, TypeOK
  <2>12. ASSUME NEW s \in Sessions, NEW d \in Devices, ChannelClosed(s, d) PROVE TypeOK'
    <3>1. rec' \in RecType
      BY <2>0, <2>t, <2>12 DEF ChannelClosed, SessionState
    <3> QED
      BY <2>0, <2>12, <3>1 DEF ChannelClosed, TypeOK, RecType
  <2>13. ASSUME NEW s \in Sessions, ChildExit(s) PROVE TypeOK'
    BY <2>13 DEF ChildExit, TypeOK
  <2>14. CASE ReapTick
    <3>1. rec' \in RecType /\ row' \in RowType
      BY <2>t, <2>r, <2>14 DEF ReapTick, SessionState, RowState
    <3>2. exited \in SUBSET Sessions
      BY DEF TypeOK
    <3>3. /\ chans' \in [Sessions -> SUBSET Devices]
          /\ closing' \subseteq Sessions \X Devices
      BY <2>14, <3>2, CloseChannelsType DEF ReapTick
    <3> QED
      BY <2>0, <2>14, <3>1, <3>3 DEF ReapTick, TypeOK, RecType, RowType
  <2>15. ASSUME NEW S \in SUBSET Sessions, HeartbeatPurge(S) PROVE TypeOK'
    BY <2>15 DEF HeartbeatPurge, TypeOK
  <2>16. ASSUME NEW D \in SUBSET Devices, DevicesRevoked(D) PROVE TypeOK'
    <3>1. rec' \in RecType /\ row' \in RowType
      BY <2>t, <2>r, <2>16 DEF DevicesRevoked, SessionState, RowState
    <3> QED
      BY <2>0, <2>16, <3>1 DEF DevicesRevoked, TypeOK, RecType, RowType
  <2>17. CASE HostAbandoned
    <3>1. row' \in RowType
      BY <2>r, <2>17 DEF HostAbandoned, RowState
    <3>2. /\ chans' \in [Sessions -> SUBSET Devices]
          /\ closing' \subseteq Sessions \X Devices
      BY <2>17, CloseChannelsType DEF HostAbandoned
    <3> QED
      BY <2>17, <3>1, <3>2 DEF HostAbandoned, TypeOK, RowType, Phases
  <2>18. ASSUME NEW L \in SUBSET Sessions, CloseAllEffect(L)
         PROVE  /\ rec' \in RecType
                /\ row' \in RowType
                /\ ptys' = {} /\ exited' = {}
                /\ older' \subseteq Sessions \X Sessions
                /\ chans' \in [Sessions -> SUBSET Devices]
                /\ closing' \subseteq Sessions \X Devices
    <3>1. rec' \in RecType /\ row' \in RowType
      BY <2>t, <2>r, <2>18 DEF CloseAllEffect, SessionState, RowState
    <3>2. /\ chans' \in [Sessions -> SUBSET Devices]
          /\ closing' \subseteq Sessions \X Devices
      BY <2>18, CloseChannelsType DEF CloseAllEffect
    <3> QED
      BY <2>0, <2>18, <3>1, <3>2 DEF CloseAllEffect
  <2>19. ASSUME NEW listOk \in BOOLEAN, CloseAllSessions(listOk) \/ Shutdown(listOk)
         PROVE  TypeOK'
    <3>1. PICK L \in SUBSET Sessions : CloseAllEffect(L)
      BY <2>19 DEF CloseAllSessions, Shutdown, PendingRows
    <3> QED
      BY <2>18, <2>19, <3>1 DEF CloseAllSessions, Shutdown, TypeOK, Phases, RecType, RowType
  <2>20. CASE Connect
    <3>1. row' \in RowType
      BY <2>r, <2>20 DEF Connect, RowState
    <3> QED
      BY <2>20, <3>1 DEF Connect, TypeOK, Phases, RowType
  <2>21. CASE TokenRotated
    BY <2>21 DEF TokenRotated, TypeOK, Phases
  <2>22. CASE Disconnected
    <3>1. rec' \in RecType
      BY <2>t, <2>22, TouchType DEF Disconnected, SessionState
    <3>2. /\ chans' \in [Sessions -> SUBSET Devices]
          /\ closing' \subseteq Sessions \X Devices
      BY <2>22, CloseChannelsType DEF Disconnected
    <3> QED
      BY <2>0, <2>22, <3>1, <3>2 DEF Disconnected, TypeOK, Phases, RecType, Native
  <2>23. CASE Crash
    BY <2>23 DEF Crash, TypeOK, Phases
  <2>24. CASE Start
    BY <2>24 DEF Start, TypeOK, Phases
  <2>25. ASSUME NEW d \in Devices, Pair(d) PROVE TypeOK'
    BY <2>25 DEF Pair, TypeOK
  <2> QED
    BY <2>1, <2>2, <2>3, <2>4, <2>5, <2>6, <2>7, <2>8, <2>9, <2>10, <2>11, <2>12, <2>13,
       <2>14, <2>15, <2>16, <2>17, <2>19, <2>20, <2>21, <2>22, <2>23, <2>24, <2>25
       DEF Next
<1> QED
  BY <1>1, <1>2, PTL DEF Spec

-----------------------------------------------------------------------------
(* The session limit.                                                      *)

\* Closing PTYs cannot exceed the limit.
LEMMA FewerPtys ==
  ASSUME NEW P \in SUBSET Sessions, NEW Q \in SUBSET P, Cardinality(P) <= Limit
  PROVE  Cardinality(Q) <= Limit
<1>1. IsFiniteSet(P)
  BY ConstantsAssumption, FS_Subset
<1>2. IsFiniteSet(Q) /\ Cardinality(Q) <= Cardinality(P)
  BY <1>1, FS_Subset
<1> QED
  BY <1>1, <1>2, FS_CardinalityType, ConstantsAssumption

\* A successful accept_session on a table within the limit stays within it.
LEMMA AcceptWithinLimit ==
  ASSUME NEW P \in SUBSET Sessions, Cardinality(P) <= Limit,
         NEW s \in Sessions, NEW spawnable \in BOOLEAN, Accepts(s, P, spawnable)
  PROVE  Cardinality(Spawned(s, P)) <= Limit
<1>1. CASE Kind[s] \in {"shell", "attach"}
  <2>1. Cardinality(P) < Limit /\ s \notin P
    BY <1>1 DEF Accepts
  <2>2. IsFiniteSet(P)
    BY ConstantsAssumption, FS_Subset
  <2>3. Cardinality(P \cup {s}) = Cardinality(P) + 1
    BY <2>1, <2>2, FS_AddElement
  <2> QED
    BY <1>1, <2>1, <2>2, <2>3, FS_CardinalityType, ConstantsAssumption DEF Spawned
<1> QED
  BY <1>1 DEF Spawned

\* The PTY table never exceeds config.session_limit, however evictions, failed
\* acks, exits and reconnects interleave.
THEOREM LimitRespected == Spec => []WithinLimit
<1>1. Init => WithinLimit
  BY ConstantsAssumption, FS_EmptySet DEF Init, WithinLimit
<1>2. TypeOK /\ WithinLimit /\ [Next]_vars => WithinLimit'
  <2> SUFFICES ASSUME TypeOK, WithinLimit, [Next]_vars PROVE WithinLimit'
    OBVIOUS
  <2>0. ptys \in SUBSET Sessions /\ Cardinality(ptys) <= Limit
    BY DEF TypeOK, WithinLimit
  <2>1. CASE ptys' \subseteq ptys
    BY <2>0, <2>1, FewerPtys DEF WithinLimit
  <2>2. ASSUME NEW s \in Sessions, NEW spawnable \in BOOLEAN, NEW ackSent \in BOOLEAN,
               NEW E \in SUBSET Evictable, SessionRequest(s, spawnable, ackSent, E)
        PROVE  WithinLimit'
    <3>1. ptys \ E \in SUBSET Sessions /\ Cardinality(ptys \ E) <= Limit
      BY <2>0, FewerPtys
    <3>2. CASE Accepts(s, ptys \ E, spawnable)
      <4>1. ptys' = Spawned(s, ptys \ E)
        BY <2>2, <3>2 DEF SessionRequest
      <4> QED
        BY <3>1, <3>2, <4>1, AcceptWithinLimit DEF WithinLimit
    <3>3. CASE ~Accepts(s, ptys \ E, spawnable)
      BY <2>1, <2>2, <3>3 DEF SessionRequest
    <3> QED
      BY <3>2, <3>3
  <2>3. \/ ptys' \subseteq ptys
        \/ \E s \in Sessions, spawnable, ackSent \in BOOLEAN, E \in SUBSET Evictable :
              SessionRequest(s, spawnable, ackSent, E)
    BY DEF Next, vars, RequestedByMobile, SessionJoin, SessionDetach, SessionDetachCloses,
           SessionClose, TerminalSignal, SessionEvent, ChannelOpened, ChannelLost,
           ChannelClosed, ChildExit, ReapTick, HeartbeatPurge, DevicesRevoked,
           HostAbandoned, CloseAllSessions, Shutdown, CloseAllEffect, Connect,
           TokenRotated, Disconnected, Crash, Start, Pair, Native
  <2> QED
    BY <2>1, <2>2, <2>3
<1> QED
  BY <1>1, <1>2, TypeCorrect, PTL DEF Spec

-----------------------------------------------------------------------------
(* The state while the control plane is away.                              *)

\* Losing the control plane leaves the PTYs, the records and the channels
\* consistent, and nothing that can happen before the next connection changes
\* that.
THEOREM OfflineStaysConsistent == Spec => []OfflineConsistent
<1>1. Init => OfflineConsistent
  BY DEF Init, OfflineConsistent
<1>2. TypeOK /\ OfflineConsistent /\ [Next]_vars => OfflineConsistent'
  <2> SUFFICES ASSUME TypeOK, OfflineConsistent, [Next]_vars, phase' = "backoff"
               PROVE  OfflineConsistent'
    BY DEF OfflineConsistent
  <2>1. CASE Disconnected
    <3>1. ptys' = Native /\ Native' = Native
      BY <2>1 DEF Disconnected, Native
    <3>2. \A s \in Sessions : chans'[s] = {}
      BY <2>1 DEF Disconnected, CloseChannels
    <3>3. ASSUME NEW s \in Sessions, rec'[s] # NoRec, rec'[s].state \notin Terminal
          PROVE  rec'[s].state = "Detached" /\ s \in Native
      <4> DEFINE swept == {x \in Sessions : HasRecord(x) /\ rec[x].state \notin Terminal}
                 mid == TouchSessionState(rec, swept \cap Native, "Detached")
      <4>1. rec' = TouchSessionState(mid, swept \ Native, "Failed")
        BY <2>1 DEF Disconnected
      <4>2. rec[s] \in Record \cup {NoRec}
        BY DEF TypeOK
      <4>3. CASE s \notin swept
        BY <3>3, <4>1, <4>3 DEF TouchSessionState, HasRecord
      <4>4. CASE s \in swept /\ s \in Native
        <5>1. rec'[s] = [rec[s] EXCEPT !.state = "Detached"]
          BY <4>1, <4>4 DEF TouchSessionState, HasRecord
        <5> QED
          BY <4>2, <4>4, <5>1 DEF Record, HasRecord
      <4>5. CASE s \in swept /\ s \notin Native
        <5>1. rec'[s] = [rec[s] EXCEPT !.state = "Failed"]
          BY <4>1, <4>5 DEF TouchSessionState, HasRecord
        <5> QED
          BY <3>3, <4>2, <4>5, <5>1 DEF Record, HasRecord, Terminal
      <4> QED
        BY <4>3, <4>4, <4>5
    <3> QED
      BY <3>1, <3>2, <3>3 DEF OfflineConsistent, HasRecord
  <2>2. CASE UNCHANGED <<phase, ptys, rec, chans>>
    BY <2>2 DEF OfflineConsistent, Native, HasRecord
  <2>3. ASSUME NEW s \in Sessions, NEW d \in Devices, ChannelLost(s, d) PROVE OfflineConsistent'
    BY <2>3 DEF ChannelLost, OfflineConsistent, Native, HasRecord, TypeOK
  <2>4. ASSUME NEW s \in Sessions, NEW spawnable \in BOOLEAN, NEW ackSent \in BOOLEAN,
               NEW E \in SUBSET Evictable, SessionRequest(s, spawnable, ackSent, E)
        PROVE  FALSE
    BY <2>4 DEF SessionRequest
  <2>5. ASSUME NEW s \in Sessions,
               \/ \E d \in Devices : SessionJoin(s, d)
               \/ SessionDetach(s)
               \/ SessionDetachCloses(s)
               \/ SessionClose(s)
               \/ \E keepalive \in BOOLEAN : TerminalSignal(s, keepalive)
               \/ \E st \in EventStates : SessionEvent(s, st)
               \/ \E d \in Devices : ChannelOpened(s, d) \/ ChannelClosed(s, d)
        PROVE  FALSE
    BY <2>5 DEF SessionJoin, SessionDetach, SessionDetachCloses, SessionClose,
                TerminalSignal, SessionEvent, ChannelOpened, ChannelClosed
  <2>6. ASSUME NEW s \in Sessions, RequestedByMobile(s) \/ ChildExit(s)
        PROVE  OfflineConsistent'
    BY <2>2, <2>6 DEF RequestedByMobile, ChildExit
  <2>7. ASSUME \/ ReapTick
               \/ \E S \in SUBSET Sessions : HeartbeatPurge(S)
               \/ \E D \in SUBSET Devices : DevicesRevoked(D)
               \/ HostAbandoned
               \/ \E listOk \in BOOLEAN : CloseAllSessions(listOk) \/ Shutdown(listOk)
               \/ Connect
               \/ TokenRotated
               \/ Crash
               \/ Start
        PROVE  FALSE
    BY <2>7 DEF ReapTick, HeartbeatPurge, DevicesRevoked, HostAbandoned,
                CloseAllSessions, Shutdown, Connect, TokenRotated, Crash, Start
  <2>8. ASSUME NEW d \in Devices, Pair(d) PROVE OfflineConsistent'
    BY <2>2, <2>8 DEF Pair
  <2>9. CASE UNCHANGED vars
    BY <2>2, <2>9 DEF vars
  <2> QED
    BY <2>1, <2>3, <2>4, <2>5, <2>6, <2>7, <2>8, <2>9 DEF Next
<1> QED
  BY <1>1, <1>2, TypeCorrect, PTL DEF Spec

-----------------------------------------------------------------------------
(* No PTY dies unrecorded.                                                 *)

\* touch_session_state gives a recorded session the new state.
LEMMA TouchedState ==
  ASSUME TypeOK, NEW S, NEW s \in S \cap Sessions, NEW st
  PROVE  TouchSessionState(rec, S, st)[s].state = st
<1>1. CASE rec[s] = NoRec
  BY <1>1 DEF TouchSessionState
<1>2. CASE rec[s] # NoRec
  <2>1. rec[s] \in Record
    BY <1>2 DEF TypeOK
  <2>2. TouchSessionState(rec, S, st)[s] = [rec[s] EXCEPT !.state = st]
    BY <1>2 DEF TouchSessionState
  <2> QED
    BY <2>1, <2>2 DEF Record
<1> QED
  BY <1>1, <1>2

\* What NoSilentKill asks of one step.
KillsAreRecorded ==
    \/ phase' = "stopped"
    \/ \E listOk \in BOOLEAN : CloseAllSessions(listOk)
    \/ \A s \in ptys \ ptys' : HasRecord(s) => rec'[s].state \in Terminal

\* A running daemon records the end of every session whose PTY it kills, with
\* close_all as the only exception.
THEOREM KillsRecorded == Spec => NoSilentKill
<1>1. TypeOK /\ [Next]_vars => [KillsAreRecorded]_vars
  <2> SUFFICES ASSUME TypeOK, Next PROVE KillsAreRecorded
    OBVIOUS
  <2>1. CASE ptys \subseteq ptys'
    BY <2>1 DEF KillsAreRecorded
  <2>2. ASSUME NEW s \in Sessions, NEW spawnable \in BOOLEAN, NEW ackSent \in BOOLEAN,
               NEW E \in SUBSET Evictable, SessionRequest(s, spawnable, ackSent, E)
        PROVE  KillsAreRecorded
    <3>1. ptys \ ptys' \subseteq E
      BY <2>2 DEF SessionRequest, Spawned
    <3>2. ASSUME NEW t \in ptys \ ptys' PROVE rec'[t].state \in Terminal
      <4>1. t \in E /\ t \in Sessions
        BY <3>1 DEF TypeOK
      <4>2. TouchSessionState(rec, E, "Ended")[t].state = "Ended"
        BY <4>1, TouchedState
      <4>3. CASE t = s
        <5>1. Kind[s] \in {"shell", "attach"}
          BY <2>2, <4>1 DEF SessionRequest, Evicts, LimitReached
        <5>2. ~Accepts(s, ptys \ E, spawnable)
          BY <2>2, <4>3, <5>1 DEF SessionRequest, Spawned
        <5>3. rec' = TouchSessionState(rec, E, "Ended")
          BY <2>2, <5>2 DEF SessionRequest
        <5> QED
          BY <4>2, <5>3 DEF Terminal
      <4>4. CASE t # s
        BY <2>2, <4>1, <4>2, <4>4 DEF SessionRequest, UpsertSession, TouchSessionState, Terminal
      <4> QED
        BY <4>3, <4>4
    <3> QED
      BY <3>2 DEF KillsAreRecorded
  <2>3. ASSUME NEW s \in Sessions, SessionDetachCloses(s) \/ SessionClose(s)
        PROVE  KillsAreRecorded
    <3>1. CASE s \in ptys
      <4>1. rec' = TouchSessionState(rec, {s}, "Ended") /\ ptys' = ptys \ {s}
        BY <2>3, <3>1 DEF SessionDetachCloses, SessionClose
      <4>2. rec'[s].state = "Ended"
        BY <4>1, TouchedState
      <4> QED
        BY <4>1, <4>2 DEF KillsAreRecorded, Terminal
    <3>2. CASE s \notin ptys
      BY <2>1, <2>3, <3>2 DEF SessionDetachCloses, SessionClose
    <3> QED
      BY <3>1, <3>2
  <2>4. CASE ReapTick
    <3>1. rec' = TouchSessionState(rec, exited, "Ended") /\ ptys' = ptys \ exited
      BY <2>4 DEF ReapTick
    <3>2. \A s \in exited : rec'[s].state = "Ended"
      BY <3>1, TouchedState DEF TypeOK
    <3> QED
      BY <3>1, <3>2 DEF KillsAreRecorded, Terminal
  <2>5. ASSUME NEW D \in SUBSET Devices, DevicesRevoked(D) PROVE KillsAreRecorded
    <3> DEFINE affected == {s \in Sessions : HasRecord(s) /\ rec[s].device \in D \cap trusted}
    <3>1. rec' = TouchSessionState(rec, affected, "Failed") /\ ptys' = ptys \ affected
      BY <2>5 DEF DevicesRevoked
    <3>2. \A s \in affected : rec'[s].state = "Failed"
      BY <3>1, TouchedState
    <3> QED
      BY <3>1, <3>2 DEF KillsAreRecorded, Terminal
  <2>6. CASE Disconnected
    <3> DEFINE swept == {s \in Sessions : HasRecord(s) /\ rec[s].state \notin Terminal}
               mid == TouchSessionState(rec, swept \cap Native, "Detached")
    <3>1. rec' = TouchSessionState(mid, swept \ Native, "Failed") /\ ptys' = Native
      BY <2>6 DEF Disconnected
    <3>2. ASSUME NEW s \in ptys \ Native, HasRecord(s) PROVE rec'[s].state \in Terminal
      <4>1. s \in Sessions /\ rec[s] \in Record
        BY <3>2 DEF TypeOK, HasRecord
      <4>2. mid[s] = rec[s]
        BY <3>2, <4>1 DEF TouchSessionState
      <4>3. CASE s \in swept
        <5>1. rec'[s] = [rec[s] EXCEPT !.state = "Failed"]
          BY <3>1, <3>2, <4>1, <4>2, <4>3 DEF TouchSessionState, HasRecord
        <5> QED
          BY <4>1, <5>1 DEF Record, Terminal
      <4>4. CASE s \notin swept
        BY <3>1, <3>2, <4>1, <4>2, <4>4 DEF TouchSessionState
      <4> QED
        BY <4>3, <4>4
    <3> QED
      BY <3>1, <3>2 DEF KillsAreRecorded
  <2>7. CASE HostAbandoned \/ Crash \/ \E listOk \in BOOLEAN : CloseAllSessions(listOk) \/ Shutdown(listOk)
    BY <2>7 DEF HostAbandoned, Crash, Shutdown, KillsAreRecorded
  <2>8. CASE \/ \E s \in Sessions :
                  \/ RequestedByMobile(s)
                  \/ \E d \in Devices : SessionJoin(s, d)
                  \/ SessionDetach(s)
                  \/ \E keepalive \in BOOLEAN : TerminalSignal(s, keepalive)
                  \/ \E st \in EventStates : SessionEvent(s, st)
                  \/ \E d \in Devices :
                        ChannelOpened(s, d) \/ ChannelLost(s, d) \/ ChannelClosed(s, d)
                  \/ ChildExit(s)
             \/ \E S \in SUBSET Sessions : HeartbeatPurge(S)
             \/ Connect
             \/ TokenRotated
             \/ Start
             \/ \E d \in Devices : Pair(d)
    BY <2>1, <2>8 DEF RequestedByMobile, SessionJoin, SessionDetach, TerminalSignal,
         SessionEvent, ChannelOpened, ChannelLost, ChannelClosed, ChildExit,
         HeartbeatPurge, Connect, TokenRotated, Start, Pair
  <2> QED
    BY <2>2, <2>3, <2>4, <2>5, <2>6, <2>7, <2>8 DEF Next
<1> QED
  BY <1>1, TypeCorrect, PTL DEF Spec, NoSilentKill, KillsAreRecorded
=============================================================================
