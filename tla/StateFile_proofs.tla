--------------------------- MODULE StateFile_proofs ---------------------------
(***************************************************************************)
(* Proofs about StateFile, for any number of commands and devices and any  *)
(* number of expiries and faults.                                          *)
(***************************************************************************)
EXTENDS StateFile, TLAPS

\* The daemon and the commands are processes, and Nothing is a state.
LEMMA Basics ==
  /\ Daemon \in Procs
  /\ \A c \in Clis : c \in Procs
  /\ Nothing \in Memory
BY DEF Procs, Nothing, Memory

\* What is loaded or prepared for a save is a state.
LEMMA Prepared ==
  ASSUME TypeOK
  PROVE  /\ Load \in Memory
         /\ \A p \in Procs : \A m \in Memory : SaveOf(p, m) \in Memory
BY DEF TypeOK, Load, SaveOf, Memory

\* Ending an operation keeps the tables of the processes well formed.
LEMMA LeaveType ==
  ASSUME TypeOK, NEW p \in Procs, NEW m \in Memory, NEW step \in Steps,
         Leave(p, m, step)
  PROVE  /\ mem' \in [Procs -> Memory]
         /\ out' \in [Procs -> Memory]
         /\ pc' \in [Procs -> Steps]
         /\ goal' \in [Procs -> Goals]
         /\ lock' \in Procs \cup {NoProc}
BY Basics DEF TypeOK, Leave, Go, Goals

\* Starting a write does too.
LEMMA WritesType ==
  ASSUME TypeOK, NEW p \in Procs, NEW m \in Memory, NEW g \in Goals, Writes(p, m, g)
  PROVE  /\ out' \in [Procs -> Memory]
         /\ pc' \in [Procs -> Steps]
         /\ goal' \in [Procs -> Goals]
BY DEF TypeOK, Writes, Go, Steps

-----------------------------------------------------------------------------
(* Type correctness.                                                       *)

\* Every reachable state of files, processes and backend is well typed; in
\* particular no token expires before it is issued.
THEOREM TypeCorrect == Spec => []TypeOK
<1>1. Init => TypeOK
  BY StateFileAssumption, Basics
     DEF Init, TypeOK, Load, Memory, Steps, Goals, Procs, Lists, NoList
<1>2. TypeOK /\ [Next]_vars => TypeOK'
  <2> SUFFICES ASSUME TypeOK, [Next]_vars PROVE TypeOK'
    OBVIOUS
  <2> USE StateFileAssumption, Basics
  <2>0. /\ Load \in Memory
        /\ \A p \in Procs : /\ mem[p] \in Memory
                             /\ out[p] \in Memory
                             /\ \A m \in Memory : SaveOf(p, m) \in Memory
    BY Prepared DEF TypeOK
  <2>f. \A p \in Procs : out[p].refresh \in Nat
    BY <2>0 DEF Memory
  <2>1. CASE UNCHANGED vars
    BY <2>1 DEF TypeOK, vars
  <2>2. ASSUME NEW p \in Procs, Put(p) PROVE TypeOK'
    BY <2>0, <2>2 DEF TypeOK, Put, Go, Steps, Memory, backend, bounds
  <2>3. ASSUME NEW p \in Procs, Rename(p) PROVE TypeOK'
    <3>1. After(p) \in Steps
      BY DEF After, TypeOK, Steps, Goals
    <3>2. (IF goal[p] = "adopt" THEN out[p] ELSE mem[p]) \in Memory
      BY <2>0
    <3>3. disk' \in [trusted : SUBSET Devices, access : Nat]
      BY <2>0, <2>3 DEF Rename, Memory
    <3>4. Leave(p, IF goal[p] = "adopt" THEN out[p] ELSE mem[p], After(p))
      BY <2>3 DEF Rename
    <3> QED
      BY <2>3, <3>1, <3>2, <3>3, <3>4, LeaveType DEF Rename, TypeOK, backend, bounds
  <2>4. ASSUME NEW p \in Procs, RefreshLoad(p) PROVE TypeOK'
    BY <2>0, <2>4 DEF TypeOK, RefreshLoad, Go, Steps, files, backend, bounds
  <2>5. ASSUME NEW p \in Procs, Adopt(p) PROVE TypeOK'
    <3>1. (IF p = Daemon THEN "idle" ELSE "ready") \in Steps
      BY DEF Steps
    <3> QED
      BY <2>0, <2>5, <3>1, LeaveType DEF Adopt, TypeOK, files, backend, bounds
  <2>6. ASSUME NEW p \in Procs, RefreshSave(p) PROVE TypeOK'
    <3>1. "adopt" \in Goals
      BY DEF Goals
    <3> QED
      BY <2>0, <2>6, <3>1, WritesType DEF RefreshSave, TypeOK, files, backend, bounds
  <2>7. ASSUME NEW p \in Procs, RefreshStart(p) PROVE TypeOK'
    BY <2>7 DEF TypeOK, RefreshStart, Go, Steps, files, backend, bounds
  <2>8. ASSUME NEW p \in Procs, Rotate(p) \/ Reauth(p) PROVE TypeOK'
    <3>0. Issue(p)
      BY <2>8 DEF Rotate, Reauth
    <3>a. gen' = gen + 1 /\ gen' \in Nat /\ expired \in 0 .. gen'
      BY <3>0 DEF Issue, TypeOK
    <3>b. [out[p] EXCEPT !.access = gen + 1, !.refresh = gen + 1] \in Memory
      BY <2>0, <3>a DEF Memory
    <3>c. out' = [out EXCEPT ![p] = [out[p] EXCEPT !.access = gen + 1, !.refresh = gen + 1]]
      BY <3>0 DEF Issue, TypeOK
    <3>1. out' \in [Procs -> Memory]
      BY <3>b, <3>c DEF TypeOK
    <3>2. burned' \subseteq Nat
      <4>1. CASE Rotate(p)
        BY <2>f, <4>1 DEF Rotate, TypeOK
      <4>2. CASE Reauth(p)
        BY <4>2 DEF Reauth, TypeOK
      <4> QED
        BY <2>8, <4>1, <4>2
    <3>3. pc' \in [Procs -> Steps] /\ UNCHANGED <<disk, secret, mem, goal, lock, expired, approved, revoked, list, expiries, faults>>
      BY <2>8 DEF Rotate, Reauth, TypeOK, Go, Steps, files, bounds
    <3> QED
      BY <3>a, <3>1, <3>2, <3>3 DEF TypeOK
  <2>9. ASSUME NEW p \in Procs, Fails(p)
        PROVE  /\ mem' \in [Procs -> Memory]
               /\ out' \in [Procs -> Memory]
               /\ pc' \in [Procs -> Steps]
               /\ goal' \in [Procs -> Goals]
               /\ lock' \in Procs \cup {NoProc}
    <3>1. PICK step \in IF p = Daemon THEN {"idle", "retry"} ELSE {"gone"} : Leave(p, mem[p], step)
      BY <2>9 DEF Fails
    <3>2. step \in Steps
      BY DEF Steps
    <3> QED
      BY <2>0, <3>1, <3>2, LeaveType
  <2>10. ASSUME NEW p \in Procs, RefreshFails(p) PROVE TypeOK'
    BY <2>9, <2>10 DEF RefreshFails, TypeOK, files, backend, bounds
  <2>11. ASSUME NEW p \in Procs, RefreshLost(p) PROVE TypeOK'
    <3>1. burned' \subseteq Nat
      BY <2>f, <2>11 DEF RefreshLost, TypeOK
    <3>2. faults' \in 0 .. MaxFaults
      BY <2>11 DEF RefreshLost, TypeOK
    <3> QED
      BY <2>9, <2>11, <3>1, <3>2 DEF RefreshLost, TypeOK, files
  <2>12. ASSUME NEW p \in Procs, WriteFails(p) PROVE TypeOK'
    <3>1. PICK step \in AfterError(p) : Leave(p, mem[p], step)
      BY <2>12 DEF WriteFails
    <3>2. step \in Steps
      BY DEF AfterError, Steps, TypeOK, Goals
    <3>3. faults' \in 0 .. MaxFaults
      BY <2>12 DEF WriteFails, TypeOK
    <3> QED
      BY <2>0, <2>12, <3>1, <3>2, <3>3, LeaveType DEF WriteFails, TypeOK, files, backend
  <2>13. ASSUME NEW p \in Procs, Killed(p) PROVE TypeOK'
    <3>1. (IF p = Daemon THEN "off" ELSE "gone") \in Steps
      BY DEF Steps
    <3>2. faults' \in 0 .. MaxFaults
      BY <2>13 DEF Killed, TypeOK
    <3> QED
      BY <2>0, <2>13, <3>1, <3>2, LeaveType DEF Killed, TypeOK, files, backend
  <2>14. CASE DaemonSave
    <3>1. "idle" \in Goals
      BY DEF Goals
    <3> QED
      BY <2>0, <2>14, <3>1, WritesType DEF DaemonSave, TypeOK, files, backend, bounds
  <2>15. CASE DaemonStart \/ Reload
    <3>1. mem' \in [Procs -> Memory] /\ pc' \in [Procs -> Steps]
      BY <2>0, <2>15 DEF DaemonStart, Reload, TypeOK, Go, Steps
    <3> QED
      BY <2>15, <3>1 DEF DaemonStart, Reload, TypeOK, files, backend, bounds
  <2>16. ASSUME NEW permissions \in BOOLEAN, TrustTick(permissions) PROVE TypeOK'
    <3> DEFINE removed == disk.trusted \cap list.revoked
               m == [mem[Daemon] EXCEPT !.trusted = disk.trusted \ removed]
               g == IF removed # {} /\ m.trusted = {} /\ list.approved \subseteq list.revoked
                    THEN "abandon" ELSE "tick"
    <3>1. m \in Memory /\ g \in Goals
      BY <2>0 DEF TypeOK, Memory, Goals
    <3>2. mem' \in [Procs -> Memory]
      BY <2>16, <3>1 DEF TrustTick, TypeOK
    <3>3. Writes(Daemon, m, g) \/ (Go(Daemon, "idle") /\ UNCHANGED <<out, goal>>)
      BY <2>16 DEF TrustTick
    <3>4. /\ out' \in [Procs -> Memory]
          /\ pc' \in [Procs -> Steps]
          /\ goal' \in [Procs -> Goals]
      BY <3>1, <3>3, WritesType DEF TypeOK, Go, Steps
    <3>5. list' \in Lists
      BY <2>16 DEF TrustTick, Lists, NoList
    <3> QED
      BY <2>16, <3>2, <3>4, <3>5 DEF TrustTick, TypeOK, files, bounds
  <2>17. ASSUME NEW c \in Clis, CliStart(c) \/ PairShow(c) PROVE TypeOK'
    <3>1. mem' \in [Procs -> Memory] /\ pc' \in [Procs -> Steps]
      BY <2>0, <2>17 DEF CliStart, PairShow, TypeOK, Go, Steps
    <3> QED
      BY <2>17, <3>1 DEF CliStart, PairShow, TypeOK, files, backend, bounds
  <2>18. ASSUME NEW c \in Clis, PairClaim(c) PROVE TypeOK'
    <3> DEFINE m == [mem[c] EXCEPT !.trusted = @ \cup {Device[c]}]
    <3>1. m \in Memory /\ "pair" \in Goals
      BY <2>0 DEF Memory, Goals
    <3>2. Writes(c, m, "pair") /\ mem' = [mem EXCEPT ![c] = m]
      BY <2>18 DEF PairClaim
    <3> QED
      BY <2>18, <3>1, <3>2, WritesType DEF PairClaim, TypeOK, files, backend, bounds
  <2>19. ASSUME NEW c \in Clis, PairRestart(c) PROVE TypeOK'
    BY <2>0, <2>19 DEF PairRestart, TypeOK, Steps, Goals, files, backend, bounds
  <2>20. ASSUME NEW c \in Clis, CliRevoke(c) PROVE TypeOK'
    <3>1. mem' \in [Procs -> Memory] /\ pc' \in [Procs -> Steps] /\ revoked' \subseteq Devices
      BY <2>0, <2>20 DEF CliRevoke, TypeOK, Memory, Go, Steps
    <3> QED
      BY <2>20, <3>1 DEF CliRevoke, TypeOK, files, bounds
  <2>21. ASSUME NEW c \in Clis, CliGivesUp(c) PROVE TypeOK'
    <3>1. "gone" \in Steps
      BY DEF Steps
    <3> QED
      BY <2>0, <2>21, <3>1, LeaveType DEF CliGivesUp, TypeOK, files, backend, bounds
  <2>22. CASE Expire
    BY <2>22 DEF Expire, TypeOK, files
  <2>23. ASSUME NEW d \in Devices, RevokedInApp(d) PROVE TypeOK'
    BY <2>23 DEF RevokedInApp, TypeOK, files, bounds
  <2>24. CASE ListDevices
    <3>1. list' \in Lists /\ pc' \in [Procs -> Steps]
      BY <2>24 DEF ListDevices, TypeOK, Lists, Go, Steps
    <3> QED
      BY <2>24, <3>1 DEF ListDevices, TypeOK, files, bounds
  <2>25. CASE ShutdownSave \/ Abandon
    <3>1. "stop" \in Goals /\ "leave" \in Goals
      BY DEF Goals
    <3> QED
      BY <2>0, <2>25, <3>1, WritesType DEF ShutdownSave, Abandon, TypeOK, files, backend, bounds
  <2>26. ASSUME NEW c \in Clis, Scanned(c) PROVE TypeOK'
    BY <2>26 DEF Scanned, TypeOK, files, bounds
  <2>27. ASSUME NEW c \in Clis, RevokeSave(c) PROVE TypeOK'
    <3>1. "revoke" \in Goals
      BY DEF Goals
    <3> QED
      BY <2>0, <2>27, <3>1, WritesType DEF RevokeSave, TypeOK, files, backend, bounds
  <2> QED
    BY <2>24, <2>25, <2>26, <2>27, <2>1, <2>2, <2>3, <2>4, <2>5, <2>6, <2>7, <2>8, <2>10, <2>11, <2>12, <2>13, <2>14,
       <2>15, <2>16, <2>17, <2>18, <2>19, <2>20, <2>21, <2>22, <2>23 DEF Next, LocalStep
<1> QED
  BY <1>1, <1>2, PTL DEF Spec

-----------------------------------------------------------------------------
(* The refresh lock.                                                       *)

\* Ending an operation takes a process out of the refresh window and gives its
\* lock back; the others keep what they have.
LEMMA LeaveLocked ==
  ASSUME TypeOK, RotationLocked, NEW p \in Procs, NEW m, NEW step \in Steps,
         step \notin {"locked", "loaded", "fetched", "put", "rename"},
         Leave(p, m, step)
  PROVE  RotationLocked'
<1>1. ASSUME NEW q \in Procs PROVE InRefresh(q)' <=> lock' = q
  <2>1. CASE q = p
    <3>1. ~InRefresh(q)'
      BY <2>1 DEF InRefresh, Leave, Go, TypeOK
    <3>2. lock' # q
      BY <2>1, StateFileAssumption DEF Leave
    <3> QED
      BY <3>1, <3>2
  <2>2. CASE q # p
    <3>1. InRefresh(q)' <=> InRefresh(q)
      BY <2>2 DEF InRefresh, Leave, Go, TypeOK
    <3>2. lock' = q <=> lock = q
      BY <2>2, StateFileAssumption DEF Leave
    <3> QED
      BY <3>1, <3>2 DEF RotationLocked
  <2> QED
    BY <2>1, <2>2
<1> QED
  BY <1>1 DEF RotationLocked

\* Starting a write outside the refresh window changes nobody's window.
LEMMA WritesLocked ==
  ASSUME TypeOK, RotationLocked, NEW p \in Procs, NEW m, NEW g \in Goals \ {"adopt"},
         pc[p] \in {"idle", "ready", "listed", "stopping", "closing", "revoking"}, Writes(p, m, g), UNCHANGED lock
  PROVE  RotationLocked'
<1>1. ASSUME NEW q \in Procs PROVE InRefresh(q)' <=> InRefresh(q)
  BY DEF InRefresh, Writes, Go, TypeOK
<1> QED
  BY <1>1 DEF RotationLocked

\* Whoever rotates the refresh token holds refresh.lock, and nobody else does:
\* for any number of commands, with crashes and failed calls.
THEOREM RotationsSerialized == Spec => []RotationLocked
<1>1. Init => RotationLocked
  BY StateFileAssumption DEF Init, RotationLocked, InRefresh, Procs
<1>2. TypeOK /\ RotationLocked /\ [Next]_vars => RotationLocked'
  <2> SUFFICES ASSUME TypeOK, RotationLocked, [Next]_vars PROVE RotationLocked'
    OBVIOUS
  <2> USE Basics
  <2>0. ASSUME NEW p \in Procs, NEW step \in {"off", "gone", "idle", "ready", "retry", "closing", "restart"},
               NEW m, Leave(p, m, step)
        PROVE  RotationLocked'
    BY <2>0, LeaveLocked DEF Steps
  <2>1. CASE UNCHANGED <<pc, goal, lock>>
    BY <2>1 DEF RotationLocked, InRefresh
  <2>2. ASSUME NEW p \in Procs, Put(p) \/ RefreshLoad(p) \/ Rotate(p) \/ Reauth(p) PROVE RotationLocked'
    <3>1. ASSUME NEW q \in Procs PROVE InRefresh(q)' <=> InRefresh(q)
      BY <2>2 DEF InRefresh, Put, RefreshLoad, Rotate, Reauth, Go, TypeOK
    <3> QED
      BY <2>2, <3>1 DEF RotationLocked, Put, RefreshLoad, Rotate, Reauth
  <2>3. ASSUME NEW p \in Procs, RefreshSave(p) PROVE RotationLocked'
    <3>1. ASSUME NEW q \in Procs PROVE InRefresh(q)' <=> InRefresh(q)
      BY <2>3 DEF InRefresh, RefreshSave, Writes, Go, TypeOK
    <3> QED
      BY <2>3, <3>1 DEF RotationLocked, RefreshSave
  <2>4. ASSUME NEW p \in Procs, RefreshStart(p) PROVE RotationLocked'
    <3>1. ASSUME NEW q \in Procs PROVE InRefresh(q)' <=> (q = p \/ InRefresh(q))
      BY <2>4 DEF InRefresh, RefreshStart, Go, TypeOK
    <3>2. \A q \in Procs : ~InRefresh(q)
      BY <2>4, StateFileAssumption DEF RotationLocked, RefreshStart
    <3> QED
      BY <2>4, <3>1, <3>2 DEF RotationLocked, RefreshStart
  <2>5. ASSUME NEW p \in Procs, Rename(p) PROVE RotationLocked'
    <3>1. After(p) \in {"off", "gone", "idle", "ready", "retry", "closing", "restart"}
      BY DEF After
    <3> QED
      BY <2>0, <2>5, <3>1 DEF Rename
  <2>6. ASSUME NEW p \in Procs, Adopt(p) PROVE RotationLocked'
    BY <2>0, <2>6 DEF Adopt
  <2>7. ASSUME NEW p \in Procs, RefreshFails(p) \/ RefreshLost(p) PROVE RotationLocked'
    BY <2>0, <2>7 DEF RefreshFails, RefreshLost, Fails
  <2>8. ASSUME NEW p \in Procs, WriteFails(p) PROVE RotationLocked'
    <3>1. AfterError(p) \subseteq {"off", "gone", "idle", "ready", "retry", "closing", "restart"}
      BY DEF AfterError
    <3>2. PICK step \in AfterError(p) : Leave(p, mem[p], step)
      BY <2>8 DEF WriteFails
    <3> QED
      BY <2>0, <3>1, <3>2
  <2>9. ASSUME NEW p \in Procs, Killed(p) PROVE RotationLocked'
    BY <2>0, <2>9 DEF Killed
  <2>10. CASE DaemonSave
    BY <2>10, WritesLocked DEF DaemonSave, Goals
  <2>20. CASE ShutdownSave \/ Abandon
    BY <2>20, WritesLocked DEF ShutdownSave, Abandon, Goals
  <2>21. ASSUME NEW c \in Clis, Scanned(c) PROVE RotationLocked'
    BY <2>1, <2>21 DEF Scanned
  <2>11. CASE DaemonStart \/ Reload \/ ListDevices
    <3>1. ASSUME NEW q \in Procs PROVE InRefresh(q)' <=> InRefresh(q)
      BY <2>11 DEF InRefresh, DaemonStart, Reload, ListDevices, Go, TypeOK
    <3> QED
      BY <2>11, <3>1 DEF RotationLocked, DaemonStart, Reload, ListDevices
  <2>12. ASSUME NEW permissions \in BOOLEAN, TrustTick(permissions) PROVE RotationLocked'
    <3> DEFINE removed == disk.trusted \cap list.revoked
               m == [mem[Daemon] EXCEPT !.trusted = disk.trusted \ removed]
               g == IF removed # {} /\ m.trusted = {} /\ list.approved \subseteq list.revoked
                    THEN "abandon" ELSE "tick"
    <3>1. /\ Writes(Daemon, m, g) \/ (Go(Daemon, "idle") /\ UNCHANGED goal)
          /\ UNCHANGED lock
          /\ pc[Daemon] = "listed"
      BY <2>12 DEF TrustTick
    <3>2. g \in Goals \ {"adopt"}
      BY DEF Goals
    <3>3. CASE Writes(Daemon, m, g)
      BY <3>1, <3>2, <3>3, WritesLocked
    <3>4. CASE Go(Daemon, "idle") /\ UNCHANGED goal
      <4>1. ASSUME NEW q \in Procs PROVE InRefresh(q)' <=> InRefresh(q)
        BY <3>1, <3>4 DEF InRefresh, Go, TypeOK
      <4> QED
        BY <3>1, <4>1 DEF RotationLocked
    <3> QED
      BY <3>1, <3>3, <3>4
  <2>13. ASSUME NEW c \in Clis, CliStart(c) \/ PairShow(c) \/ CliRevoke(c) PROVE RotationLocked'
    <3>1. ASSUME NEW q \in Procs PROVE InRefresh(q)' <=> InRefresh(q)
      BY <2>13 DEF InRefresh, CliStart, PairShow, CliRevoke, Go, TypeOK
    <3> QED
      BY <2>13, <3>1 DEF RotationLocked, CliStart, PairShow, CliRevoke
  <2>14. ASSUME NEW c \in Clis, PairClaim(c) \/ RevokeSave(c) PROVE RotationLocked'
    <3>1. "pair" \in Goals \ {"adopt"} /\ "revoke" \in Goals \ {"adopt"}
      BY DEF Goals
    <3> QED
      BY <2>14, <3>1, WritesLocked DEF PairClaim, RevokeSave
  <2>15. ASSUME NEW c \in Clis, PairRestart(c) PROVE RotationLocked'
    <3>1. ASSUME NEW q \in Procs PROVE InRefresh(q)' <=> InRefresh(q)
      BY <2>15, StateFileAssumption DEF InRefresh, PairRestart, TypeOK
    <3> QED
      BY <2>15, <3>1 DEF RotationLocked, PairRestart
  <2>16. ASSUME NEW c \in Clis, CliGivesUp(c) PROVE RotationLocked'
    BY <2>0, <2>16 DEF CliGivesUp
  <2>17. CASE Expire
    BY <2>1, <2>17 DEF Expire
  <2>18. ASSUME NEW d \in Devices, RevokedInApp(d) PROVE RotationLocked'
    BY <2>1, <2>18 DEF RevokedInApp
  <2>19. CASE UNCHANGED vars
    BY <2>1, <2>19 DEF vars
  <2> QED
    BY <2>2, <2>3, <2>4, <2>5, <2>6, <2>7, <2>8, <2>9, <2>10, <2>11, <2>12, <2>13, <2>14,
       <2>15, <2>16, <2>17, <2>18, <2>19, <2>20, <2>21 DEF Next, LocalStep
<1> QED
  BY <1>1, <1>2, TypeCorrect, PTL DEF Spec
-----------------------------------------------------------------------------
(* The commands before their first step.                                   *)

\* Only a daemon saves in order to stop.
OnlyDaemonStops == \A c \in Clis : goal[c] # "stop"

\* A command that has started never counts as not started again.
LEMMA CommandsGoOn ==
  ASSUME TypeOK, OnlyDaemonStops, [Next]_vars
  PROVE  /\ OnlyDaemonStops'
         /\ \A c \in Clis : pc[c] # "off" => pc'[c] # "off"
<1> DEFINE Kept == /\ OnlyDaemonStops'
                   /\ \A c \in Clis : pc[c] # "off" => pc'[c] # "off"
<1> USE StateFileAssumption, Basics
<1>1. ASSUME NEW p \in Procs, NEW step, NEW m, Leave(p, m, step),
             p # Daemon => step # "off"
      PROVE  Kept
  BY <1>1 DEF Leave, Go, TypeOK, OnlyDaemonStops
<1>2. ASSUME NEW p \in Procs, NEW g, NEW m, Writes(p, m, g),
             p # Daemon => g # "stop"
      PROVE  Kept
  BY <1>2 DEF Writes, Go, TypeOK, OnlyDaemonStops
<1>3. ASSUME NEW p \in Procs, NEW step, Go(p, step), UNCHANGED goal,
             p # Daemon => step # "off"
      PROVE  Kept
  BY <1>3 DEF Go, TypeOK, OnlyDaemonStops
<1>4. CASE UNCHANGED <<pc, goal>>
  BY <1>4 DEF OnlyDaemonStops
<1>5. ASSUME NEW p \in Procs, LocalStep(p) PROVE Kept
  <2>1. CASE Put(p) \/ RefreshLoad(p)
    BY <1>3, <2>1 DEF Put, RefreshLoad
  <2>2. CASE Rename(p)
    <3>1. p # Daemon => After(p) # "off"
      BY DEF After, OnlyDaemonStops, Procs
    <3> QED
      BY <1>1, <2>2, <3>1 DEF Rename
  <2>3. CASE Adopt(p)
    BY <1>1, <2>3 DEF Adopt
  <2>4. CASE RefreshSave(p)
    BY <1>2, <2>4 DEF RefreshSave
  <2> QED
    BY <1>5, <2>1, <2>2, <2>3, <2>4 DEF LocalStep
<1>6. ASSUME NEW p \in Procs, RefreshStart(p) \/ Rotate(p) \/ Reauth(p) PROVE Kept
  BY <1>3, <1>6 DEF RefreshStart, Rotate, Reauth
<1>7. ASSUME NEW p \in Procs, RefreshFails(p) \/ RefreshLost(p) PROVE Kept
  <2>1. PICK step \in IF p = Daemon THEN {"idle", "retry"} ELSE {"gone"} : Leave(p, mem[p], step)
    BY <1>7 DEF RefreshFails, RefreshLost, Fails
  <2> QED
    BY <1>1, <2>1
<1>8. ASSUME NEW p \in Procs, WriteFails(p) \/ Killed(p) PROVE Kept
  <2>1. PICK step : Leave(p, mem[p], step) /\ (p # Daemon => step # "off")
    BY <1>8 DEF WriteFails, AfterError, Killed
  <2> QED
    BY <1>1, <2>1
<1>9. CASE DaemonSave \/ ShutdownSave \/ Abandon
  BY <1>2, <1>9 DEF DaemonSave, ShutdownSave, Abandon
<1>10. CASE DaemonStart \/ Reload \/ ListDevices
  BY <1>3, <1>10 DEF DaemonStart, Reload, ListDevices
<1>11. ASSUME NEW permissions \in BOOLEAN, TrustTick(permissions) PROVE Kept
  <2>1. (\E m, g : Writes(Daemon, m, g)) \/ (Go(Daemon, "idle") /\ UNCHANGED goal)
    BY <1>11 DEF TrustTick
  <2> QED
    BY <1>2, <1>3, <2>1
<1>12. ASSUME NEW c \in Clis, CliStart(c) \/ PairShow(c) \/ CliRevoke(c) PROVE Kept
  BY <1>3, <1>12 DEF CliStart, PairShow, CliRevoke
<1>13. ASSUME NEW c \in Clis, PairClaim(c) \/ RevokeSave(c) PROVE Kept
  BY <1>2, <1>13 DEF PairClaim, RevokeSave
<1>14. ASSUME NEW c \in Clis, PairRestart(c) PROVE Kept
  BY <1>14 DEF PairRestart, TypeOK, OnlyDaemonStops
<1>15. ASSUME NEW c \in Clis, CliGivesUp(c) PROVE Kept
  BY <1>1, <1>15 DEF CliGivesUp
<1>16. ASSUME NEW c \in Clis, Scanned(c) PROVE Kept
  BY <1>4, <1>16 DEF Scanned
<1>17. CASE Expire \/ \E d \in Devices : RevokedInApp(d)
  BY <1>4, <1>17 DEF Expire, RevokedInApp
<1>18. CASE UNCHANGED vars
  BY <1>4, <1>18 DEF vars
<1> QED
  BY <1>5, <1>6, <1>7, <1>8, <1>9, <1>10, <1>11, <1>12, <1>13, <1>14, <1>15, <1>16, <1>17, <1>18
     DEF Next

-----------------------------------------------------------------------------
(* The two files while no command has started.                             *)

\* No command has started.
NoCommand == \A c \in Clis : pc[c] = "off"

\* The copies that a daemon alone works on: each holds a refresh token at
\* least as new as its access token and as the access token on disk, so that
\* writing the secret first never puts it behind.
TokensOrdered ==
    /\ disk.access <= secret /\ secret <= gen
    /\ pc[Daemon] \notin {"off", "gone"} =>
          /\ mem[Daemon].access <= mem[Daemon].refresh
          /\ disk.access <= mem[Daemon].refresh
          /\ mem[Daemon].refresh <= gen
    /\ pc[Daemon] \in {"loaded", "fetched", "put", "rename"} =>
          /\ out[Daemon].access <= out[Daemon].refresh
          /\ disk.access <= out[Daemon].refresh
          /\ out[Daemon].refresh <= gen
    /\ pc[Daemon] \in {"put", "rename"} /\ goal[Daemon] # "adopt" =>
          out[Daemon].access <= mem[Daemon].refresh
    /\ pc[Daemon] = "rename" => secret = out[Daemon].refresh

\* Ending an operation with an ordered copy in memory keeps the order.
LEMMA LeaveOrdered ==
  ASSUME TypeOK, NEW m, NEW step \in {"off", "gone", "idle", "retry", "closing"},
         Leave(Daemon, m, step),
         m.access <= m.refresh, disk'.access <= m.refresh, m.refresh <= gen',
         disk'.access <= secret', secret' <= gen'
  PROVE  TokensOrdered'
<1>1. pc'[Daemon] = step /\ (step \notin {"off", "gone"} => mem'[Daemon] = m)
  BY Basics DEF TypeOK, Leave, Go
<1> QED
  BY <1>1 DEF TokensOrdered

\* Starting to write an ordered copy keeps the order.
LEMMA WritesOrdered ==
  ASSUME TypeOK, NEW m, NEW g \in Goals, Writes(Daemon, m, g),
         m.access <= m.refresh, disk.access <= m.refresh, m.refresh <= gen,
         mem'[Daemon].access <= mem'[Daemon].refresh,
         disk.access <= mem'[Daemon].refresh, mem'[Daemon].refresh <= gen,
         g # "adopt" => m.access <= mem'[Daemon].refresh,
         disk.access <= secret, secret <= gen,
         UNCHANGED <<disk, secret, gen>>
  PROVE  TokensOrdered'
<1>1. pc'[Daemon] = "put" /\ out'[Daemon] = m /\ goal'[Daemon] = g
  BY Basics DEF TypeOK, Writes, Go
<1> QED
  BY <1>1 DEF TokensOrdered

\* Until the first command runs, a crash between the two writes of a save never
\* leaves an access token on disk that is newer than the refresh token: for
\* any number of expiries and faults.
THEOREM CrashKeepsRefresh == Spec => []SecretNotBehind
<1> DEFINE Inv == OnlyDaemonStops /\ (NoCommand => TokensOrdered)
<1>1. Init => Inv
  BY Basics DEF Init, TokensOrdered, Load, OnlyDaemonStops
<1>2. TypeOK /\ Inv /\ [Next]_vars => Inv'
  <2> SUFFICES ASSUME TypeOK, OnlyDaemonStops, NoCommand => TokensOrdered, [Next]_vars, NoCommand'
               PROVE  TokensOrdered'
    BY CommandsGoOn
  <2> USE Basics
  <2>a. NoCommand /\ TokensOrdered
    BY CommandsGoOn DEF NoCommand
  <2> USE <2>a
  <2>b. \A c \in Clis : pc[c] = "off" /\ pc'[c] = "off"
    BY DEF NoCommand
  <2>c. \A p \in Procs : p = Daemon \/ p \in Clis
    BY DEF Procs
  <2>0. /\ disk.access \in Nat /\ secret \in Nat /\ gen \in Nat
        /\ mem[Daemon].access \in Nat /\ mem[Daemon].refresh \in Nat
        /\ out[Daemon].access \in Nat /\ out[Daemon].refresh \in Nat
    BY DEF Procs, TypeOK, Memory
  <2>1. CASE UNCHANGED <<disk, secret, mem, out, pc, goal, gen>>
    BY <2>1 DEF TokensOrdered
  <2>2. CASE Put(Daemon)
    <3>1. /\ pc[Daemon] = "put" /\ pc'[Daemon] = "rename" /\ secret' = out[Daemon].refresh
          /\ UNCHANGED <<disk, mem, out, goal, gen>>
      BY <2>2 DEF Put, Go, TypeOK, backend
    <3> QED
      BY <2>0, <3>1 DEF TokensOrdered
  <2>3. CASE Rename(Daemon)
    <3> DEFINE m == IF goal[Daemon] = "adopt" THEN out[Daemon] ELSE mem[Daemon]
    <3>1. pc[Daemon] = "rename" /\ disk'.access = out[Daemon].access /\ UNCHANGED <<secret, gen>>
      BY <2>3 DEF Rename, backend
    <3>2. /\ m.access <= m.refresh /\ disk'.access <= m.refresh /\ m.refresh <= gen'
          /\ disk'.access <= secret' /\ secret' <= gen'
      BY <2>0, <3>1 DEF TokensOrdered
    <3>3. CASE After(Daemon) \in {"off", "gone", "idle", "retry", "closing"}
      BY <2>3, <3>2, <3>3, LeaveOrdered DEF Rename
    <3>4. CASE After(Daemon) = "restart"
      <4>1. pc'[Daemon] = "restart" /\ mem'[Daemon] = m
        BY <2>3, <3>4 DEF Rename, Leave, Go, TypeOK
      <4> QED
        BY <3>2, <4>1 DEF TokensOrdered
    <3> QED
      BY <3>3, <3>4 DEF After
  <2>4. CASE RefreshLoad(Daemon)
    <3>1. /\ pc[Daemon] = "locked" /\ pc'[Daemon] = "loaded" /\ out'[Daemon] = Load
          /\ UNCHANGED <<disk, secret, mem, gen>>
      BY <2>4 DEF RefreshLoad, Go, TypeOK, files, backend
    <3> QED
      BY <2>0, <3>1 DEF TokensOrdered, Load
  <2>5. CASE Adopt(Daemon)
    <3>1. pc[Daemon] = "loaded" /\ UNCHANGED <<disk, secret, gen>> /\ Leave(Daemon, out[Daemon], "idle")
      BY <2>5 DEF Adopt, files, backend
    <3> QED
      BY <3>1, LeaveOrdered DEF TokensOrdered
  <2>6. CASE RefreshSave(Daemon)
    <3> DEFINE m == SaveOf(Daemon, out[Daemon])
    <3>1. /\ pc[Daemon] = "fetched" /\ UNCHANGED <<disk, secret, mem, gen>>
          /\ Writes(Daemon, m, "adopt")
      BY <2>6 DEF RefreshSave, files, backend
    <3>2. m.access = out[Daemon].access /\ m.refresh = out[Daemon].refresh
      BY DEF SaveOf, TypeOK, Memory
    <3> HIDE DEF m
    <3> QED
      BY <3>1, <3>2, WritesOrdered DEF TokensOrdered, Goals
  <2>7. CASE RefreshStart(Daemon)
    <3>1. /\ pc[Daemon] = "idle" /\ pc'[Daemon] = "locked"
          /\ UNCHANGED <<disk, secret, mem, gen>>
      BY <2>7 DEF RefreshStart, Go, TypeOK, files, backend
    <3> QED
      BY <3>1 DEF TokensOrdered
  <2>8. CASE Rotate(Daemon) \/ Reauth(Daemon)
    <3>1. /\ pc[Daemon] = "loaded" /\ pc'[Daemon] = "fetched" /\ gen' = gen + 1
          /\ out'[Daemon].access = gen + 1 /\ out'[Daemon].refresh = gen + 1
          /\ UNCHANGED <<disk, secret, mem>>
      BY <2>8 DEF Rotate, Reauth, Issue, Go, TypeOK, Memory, files
    <3> QED
      BY <2>0, <3>1 DEF TokensOrdered
  <2>9. ASSUME NEW step \in {"off", "gone", "idle", "retry", "closing"}, Leave(Daemon, mem[Daemon], step),
               pc[Daemon] \notin {"off", "gone"}, UNCHANGED <<disk, secret, gen>>
        PROVE  TokensOrdered'
    BY <2>9, LeaveOrdered DEF TokensOrdered
  <2>10. CASE RefreshFails(Daemon) \/ RefreshLost(Daemon)
    BY <2>9, <2>10 DEF RefreshFails, RefreshLost, Fails, files, backend
  <2>11. CASE WriteFails(Daemon)
    <3>1. AfterError(Daemon) \subseteq {"off", "gone", "idle", "retry", "closing"}
      BY DEF AfterError
    <3> QED
      BY <2>9, <2>11, <3>1 DEF WriteFails, files, backend
  <2>12. CASE Killed(Daemon)
    BY <2>9, <2>12 DEF Killed, files, backend
  <2>13. CASE DaemonSave \/ ShutdownSave \/ Abandon
    <3> DEFINE m == SaveOf(Daemon, mem[Daemon])
    <3>1. /\ pc[Daemon] \in {"idle", "stopping", "closing"} /\ UNCHANGED <<disk, secret, mem, gen>>
          /\ \E g \in {"idle", "stop", "leave"} : Writes(Daemon, m, g)
      BY <2>13 DEF DaemonSave, ShutdownSave, Abandon, files, backend
    <3>2. m.access = mem[Daemon].access /\ m.refresh = mem[Daemon].refresh
      BY DEF SaveOf, TypeOK, Memory
    <3> HIDE DEF m
    <3> QED
      BY <3>1, <3>2, WritesOrdered DEF TokensOrdered, Goals
  <2>14. CASE DaemonStart \/ Reload
    <3>1. pc'[Daemon] = "idle" /\ mem'[Daemon] = Load /\ UNCHANGED <<disk, secret, gen>>
      BY <2>14 DEF DaemonStart, Reload, Go, TypeOK, files, backend
    <3> QED
      BY <2>0, <3>1 DEF TokensOrdered, Load
  <2>15. ASSUME NEW permissions \in BOOLEAN, TrustTick(permissions) PROVE TokensOrdered'
    <3> DEFINE removed == disk.trusted \cap list.revoked
               m == [mem[Daemon] EXCEPT !.trusted = disk.trusted \ removed]
               g == IF removed # {} /\ m.trusted = {} /\ list.approved \subseteq list.revoked
                    THEN "abandon" ELSE "tick"
    <3>1. /\ pc[Daemon] = "listed" /\ mem'[Daemon] = m /\ UNCHANGED <<disk, secret, gen>>
          /\ Writes(Daemon, m, g) \/ Go(Daemon, "idle")
      BY <2>15 DEF TrustTick, TypeOK, files, backend
    <3>2. m.access = mem[Daemon].access /\ m.refresh = mem[Daemon].refresh
      BY DEF TypeOK, Memory
    <3>3. g \in Goals
      BY DEF Goals
    <3> HIDE DEF m, g
    <3>4. CASE Writes(Daemon, m, g)
      BY <3>1, <3>2, <3>3, <3>4, WritesOrdered DEF TokensOrdered
    <3>5. CASE Go(Daemon, "idle")
      BY <3>1, <3>2, <3>5 DEF TokensOrdered, Go, TypeOK
    <3> QED
      BY <3>1, <3>4, <3>5
  <2>16. CASE Expire
    BY <2>1, <2>16 DEF Expire, files
  <2>19. CASE ListDevices
    <3>1. /\ pc[Daemon] = "idle" /\ pc'[Daemon] = "listed"
          /\ UNCHANGED <<disk, secret, mem, gen>>
      BY <2>19 DEF ListDevices, Go, TypeOK, files
    <3> QED
      BY <3>1 DEF TokensOrdered
  <2>17. ASSUME NEW d \in Devices, RevokedInApp(d) PROVE TokensOrdered'
    BY <2>1, <2>17 DEF RevokedInApp, files
  <2>18. CASE UNCHANGED vars
    BY <2>1, <2>18 DEF vars
  <2>20. ASSUME NEW c \in Clis PROVE
           ~ \/ LocalStep(c) \/ RefreshStart(c) \/ Rotate(c) \/ Reauth(c)
             \/ RefreshFails(c) \/ RefreshLost(c) \/ WriteFails(c) \/ Killed(c)
    BY <2>b DEF LocalStep, Put, Rename, RefreshLoad, Adopt, RefreshSave, RefreshStart, Rotate,
                Reauth, RefreshFails, RefreshLost, WriteFails, Killed
  <2>21. ASSUME NEW c \in Clis PROVE
           ~ \/ CliStart(c) \/ PairShow(c) \/ Scanned(c) \/ PairClaim(c) \/ PairRestart(c)
             \/ CliRevoke(c) \/ RevokeSave(c) \/ CliGivesUp(c)
    BY <2>b DEF CliStart, PairShow, Scanned, PairClaim, PairRestart, CliRevoke, RevokeSave,
                CliGivesUp, Go, TypeOK
  <2> QED
    BY <2>0, <2>2, <2>3, <2>4, <2>5, <2>6, <2>7, <2>8, <2>10, <2>11, <2>12, <2>13, <2>14,
       <2>15, <2>16, <2>17, <2>18, <2>19, <2>20, <2>21, <2>c DEF Next, LocalStep
<1>3. TypeOK /\ Inv => SecretNotBehind
  BY DEF TokensOrdered, SecretNotBehind, NoCommand, TypeOK
<1> QED
  BY <1>1, <1>2, <1>3, TypeCorrect, PTL DEF Spec
=============================================================================
