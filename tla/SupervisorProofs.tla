-------------------------- MODULE SupervisorProofs --------------------------
(***************************************************************************)
(* Theorems about the supervisor, for every set of tasks and pids and every *)
(* grace period.                                                           *)
(***************************************************************************)
EXTENDS Supervisor, SequenceTheorems, TLAPS

(* A task that has got past the lock holds it, so there is at most one.    *)
Critical(t) == pc[t] \in {"grace", "wait", "done"}
LockInv == \A t \in Task : Critical(t) => Holds(t)

(* What every action has in common: each writes values of the right type.  *)
LEMMA TypeStep == TypeOK /\ LockInv /\ [Next]_vars => TypeOK'
<1> SUFFICES ASSUME TypeOK, LockInv, [Next]_vars
             PROVE  TypeOK'
  OBVIOUS
<1> USE SupervisorAssumption DEF TypeOK, Live, Results
<1>1. ASSUME NEW t \in Task, NEW o, Call(t, o) PROVE TypeOK'
  <2>1. mutex' \in Seq(Task)
    BY <1>1, AppendProperties DEF Call
  <2>2. QED BY <1>1, <2>1 DEF Call
<1>2. ASSUME NEW t \in Task, Release(t) PROVE TypeOK'
  <2>1. mutex # <<>>
    BY <1>2 DEF Release, LockInv, Critical, Holds
  <2>2. mutex' \in Seq(Task)
    BY <1>2, <2>1, HeadTailProperties DEF Release
  <2>3. QED BY <1>2, <2>2 DEF Release
<1>3. ASSUME NEW t \in Task, NEW r \in Results, Return(t, r),
             proc' \in [Pid -> Live \cup {"free", "zombie", "other", "hit"}],
             child' \in Pid \cup {NoPid}
      PROVE  TypeOK'
  BY <1>3 DEF Return
<1>4. \A after \in IdleTables :
         after \in [Pid -> Live \cup {"free", "zombie", "other", "hit"}]
  BY DEF IdleTables, Reap
<1>5. ASSUME NEW t \in Task, StartRefused(t) PROVE TypeOK'
  BY <1>3, <1>5 DEF StartRefused
<1>6. ASSUME NEW t \in Task, StartFailed(t) PROVE TypeOK'
  BY <1>3, <1>4, <1>6 DEF StartFailed
<1>7. ASSUME NEW t \in Task, StartSpawned(t) PROVE TypeOK'
  BY <1>3, <1>4, <1>7 DEF StartSpawned
<1>8. ASSUME NEW t \in Task, StopIdle(t) PROVE TypeOK'
  BY <1>3, <1>8 DEF StopIdle
<1>9. ASSUME NEW t \in Task, StopTerminate(t) PROVE TypeOK'
  BY <1>9 DEF StopTerminate, Terminate
<1>10. ASSUME NEW t \in Task, StopReaped(t) PROVE TypeOK'
  BY <1>3, <1>10 DEF StopReaped, Reap
<1>11. ASSUME NEW t \in Task, StopSleep(t) PROVE TypeOK'
  BY <1>11 DEF StopSleep
<1>12. ASSUME NEW t \in Task, StopKill(t) PROVE TypeOK'
  BY <1>12 DEF StopKill, Kill
<1>13. ASSUME NEW t \in Task, StopFailed(t) PROVE TypeOK'
  BY <1>3, <1>13 DEF StopFailed
<1>14. ASSUME NEW p \in Pid, MihomoExits(p) \/ OrphanReaped(p)
                               \/ OtherProcess(p) \/ GroupKilled(p)
       PROVE  TypeOK'
  BY <1>14 DEF MihomoExits, OrphanReaped, OtherProcess, GroupKilled,
               CallerVars, Kill, Reap
<1>15. CASE Teardown
  <2>1. /\ up' \in BOOLEAN /\ child' \in Pid \cup {NoPid} /\ proc' = proc
        /\ mutex' \in Seq(Task)
    BY <1>15, EmptySeq DEF Teardown
  <2>2. /\ pc' \in [Task -> {"idle"}] /\ taken' \in [Task -> {NoPid}]
        /\ result' \in [Task -> {"none"}]
    BY <1>15 DEF Teardown
  <2>3. waited' \in [Task -> 0..Grace]
    BY <1>15 DEF Teardown
  <2>4. QED BY <2>1, <2>2, <2>3
<1>16. CASE Relaunch
  BY <1>16 DEF Relaunch
<1>17. CASE UNCHANGED vars
  BY <1>17 DEF vars
<1> QED
  BY <1>1, <1>2, <1>5, <1>6, <1>7, <1>8, <1>9, <1>10, <1>11, <1>12, <1>13,
     <1>14, <1>15, <1>16, <1>17 DEF Next, TaskStep, Step, Environment

(* The mutex excludes: whoever becomes critical holds it.                  *)
LEMMA LockStep == TypeOK /\ LockInv /\ [Next]_vars => LockInv'
<1> SUFFICES ASSUME TypeOK, LockInv, [Next]_vars, NEW u \in Task, Critical(u)'
             PROVE  Holds(u)'
  BY DEF LockInv
<1> USE DEF LockInv, Critical, Holds
<1>1. ASSUME NEW t \in Task, NEW o \in {"start", "stop"}, Call(t, o)
      PROVE  Holds(u)'
  <2>1. u # t /\ Critical(u)
    BY <1>1 DEF Call, TypeOK
  <2>2. mutex \in Seq(Task) /\ mutex # <<>> /\ Head(mutex) = u
    BY <2>1 DEF TypeOK
  <2>3. mutex' # <<>> /\ Head(mutex') = Head(mutex)
    BY <1>1, <2>2, HeadTailAppend, AppendProperties DEF Call
  <2>4. QED BY <2>2, <2>3
<1>2. ASSUME NEW t \in Task, Release(t) PROVE Holds(u)'
  BY <1>2 DEF Release, TypeOK
<1>3. ASSUME mutex' = mutex, NEW t \in Task, Holds(t),
             \A v \in Task : v # t => pc'[v] = pc[v]
      PROVE  Holds(u)'
  BY <1>3
<1>4. ASSUME NEW t \in Task, Step(t) PROVE Holds(u)'
  <2>1. mutex' = mutex /\ Holds(t)
    BY <1>4 DEF Step, StartRefused, StartFailed, StartSpawned, StopIdle,
                StopTerminate, StopReaped, StopSleep, StopKill, StopFailed,
                Return
  <2>2. \A v \in Task : v # t => pc'[v] = pc[v]
    BY <1>4 DEF Step, StartRefused, StartFailed, StartSpawned, StopIdle,
                StopTerminate, StopReaped, StopSleep, StopKill, StopFailed,
                Return, TypeOK
  <2>3. QED BY <1>3, <2>1, <2>2
<1>5. CASE Teardown
  BY <1>5 DEF Teardown
<1>6. ASSUME mutex' = mutex, pc' = pc PROVE Holds(u)'
  BY <1>6
<1>7. ASSUME NEW p \in Pid, MihomoExits(p) \/ OrphanReaped(p)
                               \/ OtherProcess(p) \/ GroupKilled(p)
      PROVE  Holds(u)'
  BY <1>6, <1>7 DEF MihomoExits, OrphanReaped, OtherProcess, GroupKilled,
                    CallerVars
<1>8. CASE Relaunch
  BY <1>6, <1>8 DEF Relaunch
<1>9. CASE UNCHANGED vars
  BY <1>6, <1>9 DEF vars
<1> QED
  BY <1>1, <1>2, <1>4, <1>5, <1>7, <1>8, <1>9 DEF Next, TaskStep, Environment

(* The state is well typed, and tasks exclude each other, in every state.  *)
THEOREM TypeCorrect == Spec => [](TypeOK /\ LockInv)
<1>1. Init => TypeOK /\ LockInv
  <2>1. Init => mutex \in Seq(Task)
    BY EmptySeq DEF Init
  <2>2. Init => TypeOK
    BY <2>1, SupervisorAssumption DEF Init, TypeOK, Live, Results
  <2>3. Init => LockInv
    BY DEF Init, LockInv, Critical
  <2>4. QED BY <2>2, <2>3
<1>2. TypeOK /\ LockInv /\ [Next]_vars => (TypeOK /\ LockInv)'
  BY TypeStep, LockStep
<1>3. QED BY <1>1, <1>2, PTL DEF Spec

-----------------------------------------------------------------------------
(* The handles: who may signal or reap which process.                      *)

(* Without a helper there is no call; a task has taken a handle exactly    *)
(* while its stop waits, and then the supervisor has none.                 *)
HandleInv ==
  /\ ~up => child = NoPid /\ \A t \in Task : pc[t] = "idle"
  /\ \A t \in Task : taken[t] # NoPid <=> pc[t] \in {"grace", "wait"}
  /\ \A t \in Task : taken[t] # NoPid => child = NoPid

LEMMA HandleStep ==
  TypeOK /\ LockInv /\ HandleInv /\ [Next]_vars => HandleInv'
<1> SUFFICES ASSUME TypeOK, LockInv, HandleInv, [Next]_vars
             PROVE  HandleInv'
  OBVIOUS
<1> USE SupervisorAssumption DEF TypeOK, HandleInv
<1>1. ASSUME NEW t \in Task, NEW u \in Task, Holds(t), Critical(u)
      PROVE  u = t
  BY <1>1 DEF LockInv, Holds
<1>2. ASSUME NEW t \in Task, NEW r, Return(t, r), Holds(t), up
      PROVE  HandleInv'
  BY <1>1, <1>2 DEF Return, Critical
<1>3. ASSUME NEW t \in Task, Step(t) PROVE Holds(t) /\ up
  BY <1>3 DEF Step, StartRefused, StartFailed, StartSpawned, StopIdle,
              StopTerminate, StopReaped, StopSleep, StopKill, StopFailed,
              LockInv, Critical
<1>4. ASSUME NEW t \in Task, StartRefused(t) \/ StartFailed(t)
               \/ StartSpawned(t) \/ StopIdle(t) \/ StopReaped(t)
               \/ StopFailed(t)
      PROVE  HandleInv'
  BY <1>2, <1>3, <1>4 DEF Step, StartRefused, StartFailed, StartSpawned,
                          StopIdle, StopReaped, StopFailed
<1>5. ASSUME NEW t \in Task, StopTerminate(t) PROVE HandleInv'
  BY <1>1, <1>3, <1>5 DEF Step, StopTerminate, Critical
<1>6. ASSUME NEW t \in Task, StopSleep(t) \/ StopKill(t) PROVE HandleInv'
  BY <1>3, <1>6 DEF Step, StopSleep, StopKill
<1>7. ASSUME NEW t \in Task, NEW o \in {"start", "stop"}, Call(t, o)
      PROVE  HandleInv'
  BY <1>7 DEF Call
<1>8. ASSUME NEW t \in Task, Release(t) PROVE HandleInv'
  BY <1>8 DEF Release
<1>9. CASE Teardown
  BY <1>9 DEF Teardown
<1>10. CASE Relaunch
  BY <1>10 DEF Relaunch
<1>11. ASSUME UNCHANGED CallerVars PROVE HandleInv'
  BY <1>11 DEF CallerVars
<1>12. ASSUME NEW p \in Pid, MihomoExits(p) \/ OrphanReaped(p)
                                \/ OtherProcess(p) \/ GroupKilled(p)
       PROVE  HandleInv'
  BY <1>11, <1>12 DEF MihomoExits, OrphanReaped, OtherProcess, GroupKilled,
                      CallerVars
<1>13. CASE UNCHANGED vars
  BY <1>11, <1>13 DEF vars, CallerVars
<1> QED
  BY <1>4, <1>5, <1>6, <1>7, <1>8, <1>9, <1>10, <1>12, <1>13
     DEF Next, TaskStep, Step, Environment

(* A handle names a mihomo that has not been reaped, so its pid has not    *)
(* been given to another process, and nothing else was ever signalled.     *)
Owned(p) == proc[p] \in Live \cup {"zombie"}
OwnInv ==
  /\ child # NoPid => Owned(child)
  /\ \A t \in Task : taken[t] # NoPid => Owned(taken[t])
  /\ NoForeignSignal

LEMMA OwnStep ==
  TypeOK /\ LockInv /\ HandleInv /\ OwnInv /\ [Next]_vars => OwnInv'
<1> SUFFICES ASSUME TypeOK, LockInv, HandleInv, OwnInv, [Next]_vars
             PROVE  OwnInv'
  OBVIOUS
<1> USE SupervisorAssumption DEF TypeOK, OwnInv, Owned, NoForeignSignal, Live
(* While t holds the mutex no other task has a handle.                     *)
<1>1. ASSUME NEW t \in Task, NEW u \in Task, Holds(t), taken[u] # NoPid
      PROVE  u = t
  BY <1>1 DEF LockInv, HandleInv, Holds, Critical
<1>2. \A t \in Task : Critical(t) => Holds(t)
  BY DEF LockInv
<1>3. ASSUME NEW t \in Task, StartRefused(t) PROVE OwnInv'
  BY <1>3 DEF StartRefused, Return
<1>4. ASSUME NEW t \in Task, Holds(t), pc[t] = "start", NEW after \in IdleTables
      PROVE  /\ after \in [Pid -> Live \cup {"free", "zombie", "other", "hit"}]
             /\ \A p \in Pid : after[p] = proc[p] \/ (p = child /\ after[p] = "free")
             /\ \A u \in Task : taken[u] = NoPid
  <2>1. after = proc \/ \E p \in Pid : p = child /\ after = Reap(p)
    BY <1>4 DEF IdleTables
  <2>2. \A u \in Task : taken[u] = NoPid
    BY <1>1, <1>4 DEF HandleInv
  <2>3. QED BY <2>1, <2>2 DEF Reap
<1>5. ASSUME NEW t \in Task, StartFailed(t) PROVE OwnInv'
  <2>1. \A p \in Pid : proc'[p] = proc[p] \/ (p = child /\ proc'[p] = "free")
    BY <1>4, <1>5 DEF StartFailed
  <2>2. child' = NoPid /\ \A u \in Task : taken'[u] = NoPid
    BY <1>4, <1>5 DEF StartFailed, Return
  <2>3. QED BY <2>1, <2>2
<1>6. ASSUME NEW t \in Task, StartSpawned(t) PROVE OwnInv'
  <2>1. PICK after \in IdleTables, p \in Pid :
          /\ after[p] = "free"
          /\ proc' = [after EXCEPT ![p] = "run"]
          /\ child' = p
    BY <1>6 DEF StartSpawned
  <2>2. proc'[p] = "run" /\ \A q \in Pid : proc'[q] # "hit"
    BY <1>4, <1>6, <2>1 DEF StartSpawned
  <2>3. \A u \in Task : taken'[u] = NoPid
    BY <1>4, <1>6, <2>1 DEF StartSpawned, Return
  <2>4. QED BY <2>1, <2>2, <2>3
<1>7. ASSUME NEW t \in Task, StopIdle(t) PROVE OwnInv'
  BY <1>7 DEF StopIdle, Return
<1>8. ASSUME NEW t \in Task, StopTerminate(t) PROVE OwnInv'
  <2>1. \A u \in Task : u # t => taken'[u] = NoPid
    BY <1>1, <1>8 DEF StopTerminate
  <2>2. child' = NoPid /\ taken'[t] = child /\ child # NoPid
    BY <1>8 DEF StopTerminate
  <2>3. proc'[child] \in Live \cup {"zombie"} /\ \A p \in Pid : proc'[p] # "hit"
    BY <1>8 DEF StopTerminate, Terminate
  <2>4. QED BY <2>1, <2>2, <2>3, <1>8 DEF StopTerminate, Terminate
<1>9. ASSUME NEW t \in Task, StopReaped(t) PROVE OwnInv'
  <2>1. Holds(t) /\ child' = NoPid
    BY <1>2, <1>9 DEF StopReaped, Critical, HandleInv
  <2>2. \A u \in Task : taken'[u] = NoPid
    BY <1>1, <1>9, <2>1 DEF StopReaped, Return
  <2>3. \A p \in Pid : proc'[p] # "hit"
    BY <1>9 DEF StopReaped, Reap
  <2>4. QED BY <2>1, <2>2, <2>3
<1>10. ASSUME NEW t \in Task, StopSleep(t) PROVE OwnInv'
  BY <1>10 DEF StopSleep
<1>11. ASSUME NEW t \in Task, StopKill(t) PROVE OwnInv'
  BY <1>11 DEF StopKill, Kill
<1>12. ASSUME NEW t \in Task, StopFailed(t) PROVE OwnInv'
  BY <1>12 DEF StopFailed, Return
<1>13. ASSUME NEW t \in Task, NEW o \in {"start", "stop"}, Call(t, o)
       PROVE  OwnInv'
  BY <1>13 DEF Call
<1>14. ASSUME NEW t \in Task, Release(t) PROVE OwnInv'
  BY <1>14 DEF Release
<1>15. CASE Teardown
  BY <1>15 DEF Teardown
<1>16. CASE Relaunch
  BY <1>16 DEF Relaunch
<1>17. ASSUME NEW p \in Pid, MihomoExits(p) PROVE OwnInv'
  BY <1>17 DEF MihomoExits, CallerVars
<1>18. ASSUME NEW p \in Pid, OrphanReaped(p) PROVE OwnInv'
  BY <1>18 DEF OrphanReaped, CallerVars, Reap
<1>19. ASSUME NEW p \in Pid, OtherProcess(p) PROVE OwnInv'
  BY <1>19 DEF OtherProcess, CallerVars
<1>20. ASSUME NEW p \in Pid, GroupKilled(p) PROVE OwnInv'
  BY <1>20 DEF GroupKilled, Kill
<1>21. CASE UNCHANGED vars
  BY <1>21 DEF vars
<1> QED
  BY <1>3, <1>5, <1>6, <1>7, <1>8, <1>9, <1>10, <1>11, <1>12, <1>13, <1>14,
     <1>15, <1>16, <1>17, <1>18, <1>19, <1>20, <1>21
     DEF Next, TaskStep, Step, Environment

LEMMA HandlesInitially == Init => HandleInv /\ OwnInv
  BY SupervisorAssumption DEF Init, HandleInv, OwnInv, NoForeignSignal

LEMMA HandlesCorrect == Spec => [](HandleInv /\ OwnInv)
<1>1. TypeOK /\ LockInv /\ HandleInv /\ OwnInv /\ [Next]_vars
        => (HandleInv /\ OwnInv)'
  BY HandleStep, OwnStep
<1>2. QED BY <1>1, HandlesInitially, TypeCorrect, PTL DEF Spec

(* No process but mihomo is ever signalled by start() or stop(), whatever  *)
(* fails: a handle is dropped before its pid can be reused.                *)
THEOREM ForeignProcessesSpared == Spec => []NoForeignSignal
  BY HandlesCorrect, PTL DEF OwnInv

-----------------------------------------------------------------------------
(* At most one mihomo, and the one-slot service.                           *)

(* What the helper cannot ensure by itself: that the system can always     *)
(* tell whether a child lives, and that the service manager kills what a   *)
(* dead helper leaves behind.                                              *)
Reliable == ~TryWaitMayFail /\ GroupKill

(* Every live mihomo is held by a handle while the helper is up.           *)
HeldInv == up => \A p \in LivePids : p = child \/ \E t \in Task : taken[t] = p

Inv == TypeOK /\ LockInv /\ HandleInv /\ OwnInv /\ HeldInv /\ AtMostOneMihomo

(* A task that enters start() or stop() sees every live mihomo in child,   *)
(* one that waits for its child sees every live mihomo in its local.       *)
LEMMA AllInChild ==
  ASSUME Inv, NEW t \in Task, Holds(t), pc[t] \in {"start", "stop"}
  PROVE  LivePids \subseteq {child} /\ \A u \in Task : taken[u] = NoPid
<1>1. up
  BY DEF Inv, HandleInv
<1>2. \A u \in Task : taken[u] = NoPid
  BY DEF Inv, HandleInv, LockInv, Critical, Holds
<1>3. \A p \in LivePids : p \in Pid /\ p # NoPid
  BY SupervisorAssumption DEF LivePids
<1>4. QED BY <1>1, <1>2, <1>3 DEF Inv, HeldInv

LEMMA AllInLocal ==
  ASSUME Inv, NEW t \in Task, pc[t] \in {"grace", "wait"}
  PROVE  /\ LivePids \subseteq {taken[t]} /\ taken[t] \in Pid /\ child = NoPid
         /\ \A u \in Task : u # t => taken[u] = NoPid
<1>1. up /\ Holds(t) /\ taken[t] # NoPid /\ child = NoPid
  BY DEF Inv, HandleInv, LockInv, Critical
<1>2. \A u \in Task : u # t => taken[u] = NoPid
  BY <1>1 DEF Inv, HandleInv, LockInv, Critical, Holds
<1>3. \A p \in LivePids : p \in Pid /\ p # NoPid
  BY SupervisorAssumption DEF LivePids
<1>4. QED BY <1>1, <1>2, <1>3 DEF Inv, HeldInv, TypeOK

(* After is_running() was false no mihomo lives.                           *)
LEMMA IdleMeansNone ==
  ASSUME Reliable, Inv, NEW t \in Task, Holds(t), pc[t] = "start",
         NEW after \in IdleTables
  PROVE  /\ LivePids = {}
         /\ \A p \in Pid : after[p] \notin Live
<1>1. child = NoPid \/ (child \in Pid /\ proc[child] = "zombie")
  BY DEF IdleTables, Reliable
<1>2. LivePids = {}
  <2>1. \A p \in LivePids : p = child /\ p \in Pid /\ proc[p] \in Live
    BY AllInChild DEF LivePids
  <2>2. QED BY <1>1, <2>1, SupervisorAssumption DEF Live
<1>3. after = proc \/ \E p \in Pid : after = Reap(p)
  BY DEF IdleTables
<1>4. \A p \in Pid : proc[p] \notin Live
  BY <1>2 DEF LivePids
<1>5. QED BY <1>2, <1>3, <1>4 DEF Reap, Inv, TypeOK, Live

LEMMA HeldStep ==
  ASSUME Reliable, Inv, [Next]_vars
  PROVE  HeldInv' /\ AtMostOneMihomo'
<1> USE SupervisorAssumption DEF AtMostOneMihomo, HeldInv
<1> DEFINE P == HeldInv' /\ AtMostOneMihomo'
<1>1. ASSUME proc' = proc, child' = child, taken' = taken, up' => up
      PROVE  P
  BY <1>1 DEF LivePids, Inv
<1>2. ASSUME LivePids' = {} PROVE P
  BY <1>2
<1>3. ASSUME LivePids' \subseteq LivePids, child' = child, taken' = taken,
             up' => up
      PROVE  P
  BY <1>3 DEF Inv
<1>4. ASSUME NEW t \in Task, StartRefused(t) PROVE P
  BY <1>1, <1>4, AllInChild DEF StartRefused, Return, LivePids, Inv, TypeOK
<1>5. ASSUME NEW t \in Task, StartFailed(t) PROVE P
  BY <1>2, <1>5, IdleMeansNone DEF StartFailed, LivePids
<1>6. ASSUME NEW t \in Task, StartSpawned(t) PROVE P
  <2>1. PICK after \in IdleTables, p \in Pid :
          /\ proc' = [after EXCEPT ![p] = "run"]
          /\ child' = p
    BY <1>6 DEF StartSpawned
  <2>2. \A q \in Pid : q # p => proc'[q] \notin Live
    BY <1>6, <2>1, IdleMeansNone DEF StartSpawned
  <2>3. LivePids' \subseteq {p}
    BY <2>2 DEF LivePids
  <2>4. QED BY <2>1, <2>3
<1>7. ASSUME NEW t \in Task, StopIdle(t) PROVE P
  BY <1>2, <1>7, AllInChild DEF StopIdle, LivePids
<1>8. ASSUME NEW t \in Task, StopTerminate(t) PROVE P
  <2>1. LivePids' \subseteq LivePids
    BY <1>8 DEF StopTerminate, Terminate, LivePids, Live, Inv, TypeOK
  <2>2. taken'[t] = child
    BY <1>8 DEF StopTerminate, Inv, TypeOK
  <2>3. QED BY <1>8, <2>1, <2>2, AllInChild DEF StopTerminate
<1>9. ASSUME NEW t \in Task, StopReaped(t) PROVE P
  <2>1. LivePids = {}
    BY <1>9, AllInLocal DEF StopReaped, LivePids, Live
  <2>2. LivePids' = {}
    BY <1>9, <2>1 DEF StopReaped, LivePids, Live, Reap, Inv, TypeOK
  <2>3. QED BY <1>2, <2>2
<1>10. ASSUME NEW t \in Task, StopSleep(t) PROVE P
  BY <1>1, <1>10 DEF StopSleep
<1>11. ASSUME NEW t \in Task, StopKill(t) PROVE P
  <2>1. LivePids' \subseteq LivePids
    BY <1>11 DEF StopKill, Kill, LivePids, Live, Inv, TypeOK
  <2>2. QED BY <1>3, <1>11, <2>1 DEF StopKill
<1>12. ASSUME NEW t \in Task, StopFailed(t) PROVE P
  BY <1>12 DEF StopFailed, Reliable
<1>13. ASSUME NEW t \in Task, NEW o \in {"start", "stop"}, Call(t, o)
       PROVE  P
  BY <1>1, <1>13 DEF Call
<1>14. ASSUME NEW t \in Task, Release(t) PROVE P
  BY <1>1, <1>14 DEF Release
<1>15. CASE Teardown
  BY <1>15 DEF Teardown, LivePids, Inv
<1>16. CASE Relaunch
  BY <1>2, <1>16 DEF Relaunch, LivePids, Reliable
<1>17. ASSUME NEW p \in Pid, MihomoExits(p) PROVE P
  <2>1. LivePids' \subseteq LivePids
    BY <1>17 DEF MihomoExits, LivePids, Live, Inv, TypeOK
  <2>2. QED BY <1>3, <1>17, <2>1 DEF MihomoExits, CallerVars
<1>18. ASSUME NEW p \in Pid, OrphanReaped(p) \/ OtherProcess(p) PROVE P
  <2>1. LivePids' \subseteq LivePids
    BY <1>18 DEF OrphanReaped, OtherProcess, Reap, LivePids, Live, Inv, TypeOK
  <2>2. QED BY <1>3, <1>18, <2>1 DEF OrphanReaped, OtherProcess, CallerVars
<1>19. ASSUME NEW p \in Pid, GroupKilled(p) PROVE P
  <2>1. LivePids' \subseteq LivePids
    BY <1>19 DEF GroupKilled, Kill, LivePids, Live, Inv, TypeOK
  <2>2. QED BY <1>3, <1>19, <2>1 DEF GroupKilled
<1>20. CASE UNCHANGED vars
  BY <1>1, <1>20 DEF vars
<1> QED
  BY <1>4, <1>5, <1>6, <1>7, <1>8, <1>9, <1>10, <1>11, <1>12, <1>13, <1>14,
     <1>15, <1>16, <1>17, <1>18, <1>19, <1>20
     DEF Next, TaskStep, Step, Environment

LEMMA HeldCorrect == ASSUME Reliable PROVE Spec => []Inv
<1>1. Init => Inv
  <2>1. Init => LivePids = {}
    BY DEF Init, LivePids, Live
  <2>2. Init => TypeOK /\ LockInv
    <3>1. Init => mutex \in Seq(Task)
      BY EmptySeq DEF Init
    <3>2. QED
      BY <3>1, SupervisorAssumption
         DEF Init, TypeOK, LockInv, Critical, Live, Results
  <2>3. QED
    BY <2>1, <2>2, HandlesInitially DEF Inv, HeldInv, AtMostOneMihomo
<1>2. Inv /\ [Next]_vars => Inv'
  BY TypeStep, LockStep, HandleStep, OwnStep, HeldStep DEF Inv
<1>3. QED BY <1>1, <1>2, PTL DEF Spec

(* Two mihomo processes never run at the same time, across any number of   *)
(* concurrent requests, unnoticed deaths and restarts of the helper.       *)
THEOREM AtMostOne == ASSUME Reliable PROVE Spec => []AtMostOneMihomo
  BY HeldCorrect, PTL DEF Inv

(* What a caller may rely on: only a start() of the task that holds the    *)
(* mutex brings a mihomo to life, a stop() stays one until it is done, and *)
(* when it is done no mihomo lives.                                        *)
LEMMA OnlyStartSpawns ==
  ASSUME TypeOK, [Next]_vars, \A t \in Task : ~(pc[t] = "start" /\ Holds(t))
  PROVE  LivePids' \subseteq LivePids
<1> USE SupervisorAssumption DEF LivePids, Live, TypeOK
<1>1. ASSUME NEW t \in Task, Step(t) PROVE LivePids' \subseteq LivePids
  <2>1. CASE StopIdle(t) \/ StopSleep(t) \/ StopFailed(t)
    BY <2>1 DEF StopIdle, StopSleep, StopFailed
  <2>2. CASE StopTerminate(t) \/ StopKill(t)
    BY <2>2 DEF StopTerminate, StopKill, Terminate, Kill
  <2>3. CASE StopReaped(t)
    BY <2>3 DEF StopReaped, Reap
  <2>4. ~StartRefused(t) /\ ~StartFailed(t) /\ ~StartSpawned(t)
    BY DEF StartRefused, StartFailed, StartSpawned
  <2>5. QED BY <1>1, <2>1, <2>2, <2>3, <2>4 DEF Step
<1>2. ASSUME NEW t \in Task, NEW o \in {"start", "stop"}, Release(t) \/ Call(t, o)
      PROVE  LivePids' \subseteq LivePids
  BY <1>2 DEF Release, Call
<1>3. CASE Teardown \/ Relaunch \/ UNCHANGED vars
  BY <1>3 DEF Teardown, Relaunch, vars
<1>4. ASSUME NEW p \in Pid,
             MihomoExits(p) \/ OrphanReaped(p) \/ OtherProcess(p) \/ GroupKilled(p)
      PROVE  LivePids' \subseteq LivePids
  BY <1>4 DEF MihomoExits, OrphanReaped, OtherProcess, GroupKilled, Reap, Kill
<1> QED
  BY <1>1, <1>2, <1>3, <1>4 DEF Next, TaskStep, Environment

LEMMA StopGoesOn ==
  ASSUME TypeOK, NEW t \in Task, Step(t)
  PROVE  /\ \A u \in Task : u # t => pc'[u] = pc[u]
         /\ pc[t] \in {"stop", "grace", "wait"}
              => pc'[t] \in {"stop", "grace", "wait", "done"}
         /\ pc[t] \in {"start", "stop", "grace", "wait"} /\ up' = up
BY DEF Step, StartRefused, StartFailed, StartSpawned, StopIdle, StopTerminate,
       StopReaped, StopSleep, StopKill, StopFailed, Return, TypeOK

LEMMA StopLeavesNone ==
  ASSUME Reliable, Inv, NEW t \in Task, Step(t),
         pc[t] \in {"stop", "grace", "wait"}, pc'[t] = "done"
  PROVE  LivePids' = {}
<1> USE SupervisorAssumption DEF Inv, TypeOK
<1>1. CASE StopIdle(t)
  <2>1. LivePids = {}
    BY <1>1, AllInChild DEF StopIdle, LivePids
  <2>2. QED BY <1>1, <2>1 DEF StopIdle, LivePids
<1>2. CASE StopReaped(t)
  <2>1. \A p \in Pid : proc[p] \in Live => p = taken[t]
    BY <1>2, AllInLocal DEF StopReaped, LivePids
  <2>2. QED BY <1>2, <2>1 DEF StopReaped, Reap, LivePids, Live
<1>3. QED
  BY <1>1, <1>2 DEF Step, StartRefused, StartFailed, StartSpawned, StopTerminate,
     StopSleep, StopKill, StopFailed, Reliable

-----------------------------------------------------------------------------
(* The supervisor implements the one-slot service.                         *)

Phases == [t \in Task |-> Phase(t)]

OutcomeInv == \A t \in Task : pc[t] = "done" => result[t] \in Slot!Outcomes

LEMMA OutcomeStep ==
  ASSUME Reliable, TypeOK, OutcomeInv, [Next]_vars
  PROVE  OutcomeInv'
<1> USE DEF OutcomeInv, TypeOK, Slot!Outcomes
<1>1. ASSUME NEW t \in Task, NEW r \in Slot!Outcomes, Return(t, r)
      PROVE  OutcomeInv'
  BY <1>1 DEF Return
<1>2. ASSUME NEW t \in Task, StartRefused(t) \/ StartFailed(t)
        \/ StartSpawned(t) \/ StopIdle(t) \/ StopReaped(t) \/ StopFailed(t)
      PROVE  OutcomeInv'
  BY <1>1, <1>2 DEF StartRefused, StartFailed, StartSpawned, StopIdle,
                    StopReaped, StopFailed, Reliable
<1>3. ASSUME NEW t \in Task, StopTerminate(t) \/ StopSleep(t) \/ StopKill(t)
      PROVE  OutcomeInv'
  BY <1>3 DEF StopTerminate, StopSleep, StopKill
<1>4. ASSUME NEW t \in Task, NEW o \in {"start", "stop"},
             Call(t, o) \/ Release(t)
      PROVE  OutcomeInv'
  BY <1>4 DEF Call, Release
<1>5. CASE Teardown \/ Relaunch
  BY <1>5 DEF Teardown, Relaunch
<1>6. ASSUME NEW p \in Pid, MihomoExits(p) \/ OrphanReaped(p)
                               \/ OtherProcess(p) \/ GroupKilled(p)
      PROVE  OutcomeInv'
  BY <1>6 DEF MihomoExits, OrphanReaped, OtherProcess, GroupKilled, CallerVars
<1>7. CASE UNCHANGED vars
  BY <1>7 DEF vars
<1> QED
  BY <1>2, <1>3, <1>4, <1>5, <1>6, <1>7 DEF Next, TaskStep, Step, Environment

(* Every step of the supervisor is a step of the slot, or none.            *)
LEMMA SlotStep ==
  ASSUME Reliable, Inv, OutcomeInv, [Next]_vars
  PROVE  [Slot!Next]_(Slot!vars)
<1> DEFINE P == [Slot!Next]_(Slot!vars)
<1> USE DEF Slot!vars, Slot!Next
<1>1. ASSUME LivePids' = LivePids, Phases' = Phases PROVE P
  BY <1>1 DEF Phases
(* How the steps of a call appear: its return, and what precedes it.       *)
<1>2. ASSUME NEW t \in Task, NEW r, Return(t, r)
      PROVE  Phases' = [Phases EXCEPT ![t] = r]
  BY <1>2 DEF Return, Phases, Phase, Inv, TypeOK
<1>3. ASSUME pc' = pc, result' = result PROVE Phases' = Phases
  BY <1>3 DEF Phases, Phase
<1>4. ASSUME NEW t \in Task, StartRefused(t) PROVE P
  <2>1. LivePids # {} /\ LivePids' = LivePids
    BY <1>4, SupervisorAssumption DEF StartRefused, LivePids, Inv, TypeOK
  <2>2. Phases[t] = "start" /\ Phases' = [Phases EXCEPT ![t] = "AlreadyRunning"]
    BY <1>2, <1>4 DEF StartRefused, Phases, Phase
  <2>3. Slot!Refuse(t)
    BY <2>1, <2>2 DEF Slot!Refuse, Slot!Answer, Phases
  <2>4. QED BY <2>3
<1>5. ASSUME NEW t \in Task, StartFailed(t) PROVE P
  <2>1. LivePids = {} /\ LivePids' = {}
    BY <1>5, IdleMeansNone DEF StartFailed, LivePids
  <2>2. Phases[t] = "start" /\ Phases' = [Phases EXCEPT ![t] = "SpawnFailed"]
    BY <1>2, <1>5 DEF StartFailed, Phases, Phase
  <2>3. Slot!Fail(t)
    BY <2>1, <2>2 DEF Slot!Fail, Slot!Answer, Phases
  <2>4. QED BY <2>3
<1>6. ASSUME NEW t \in Task, StartSpawned(t) PROVE P
  <2>1. PICK after \in IdleTables, p \in Pid :
          proc' = [after EXCEPT ![p] = "run"] /\ after[p] = "free"
    BY <1>6 DEF StartSpawned
  <2>2. LivePids = {}
    BY <1>6, <2>1, IdleMeansNone DEF StartSpawned
  <2>3. \A q \in Pid : after[q] \notin Live
    BY <1>6, <2>1, IdleMeansNone DEF StartSpawned
  <2>4. after \in [Pid -> Live \cup {"free", "zombie", "other", "hit"}]
    BY <2>1 DEF IdleTables, Reap, Inv, TypeOK, Live
  <2>5. LivePids' = {p}
    BY <2>1, <2>3, <2>4 DEF LivePids, Live
  <2>6. Phases[t] = "start" /\ Phases' = [Phases EXCEPT ![t] = "Started"]
    BY <1>2, <1>6 DEF StartSpawned, Phases, Phase
  <2>7. Slot!Spawn(t)
    BY <2>2, <2>5, <2>6 DEF Slot!Spawn, Slot!Answer, Phases
  <2>8. QED BY <2>7
<1>7. ASSUME NEW t \in Task, Return(t, "Stopped"), Phase(t) = "stop",
             LivePids = {}, LivePids' = {}
      PROVE  P
  <2>1. Phases[t] = "stop" /\ Phases' = [Phases EXCEPT ![t] = "Stopped"]
    BY <1>2, <1>7 DEF Phases
  <2>2. Slot!Stopped(t)
    BY <1>7, <2>1 DEF Slot!Stopped, Slot!Answer, Phases
  <2>3. QED BY <2>2
<1>8. ASSUME NEW t \in Task, StopIdle(t) PROVE P
  <2>1. LivePids = {}
    BY <1>8, AllInChild, SupervisorAssumption DEF StopIdle, LivePids
  <2>2. LivePids' = {}
    BY <1>8, <2>1 DEF StopIdle, LivePids
  <2>3. QED BY <1>7, <1>8, <2>1, <2>2 DEF StopIdle, Phase
<1>9. ASSUME NEW t \in Task, StopReaped(t) PROVE P
  <2>1. LivePids = {}
    BY <1>9, AllInLocal DEF StopReaped, LivePids, Live
  <2>2. LivePids' = {}
    BY <1>9, <2>1 DEF StopReaped, LivePids, Live, Reap, Inv, TypeOK
  <2>3. QED BY <1>7, <1>9, <2>1, <2>2 DEF StopReaped, Phase
<1>10. ASSUME NEW t \in Task, StopTerminate(t) PROVE P
  <2>1. LivePids' = LivePids
    BY <1>10 DEF StopTerminate, Terminate, LivePids, Live, Inv, TypeOK
  <2>2. Phases' = Phases
    BY <1>10 DEF StopTerminate, Phases, Phase, Inv, TypeOK
  <2>3. QED BY <1>1, <2>1, <2>2
<1>11. ASSUME NEW t \in Task, StopSleep(t) PROVE P
  BY <1>1, <1>3, <1>11 DEF StopSleep, LivePids
<1>12. ASSUME NEW t \in Task, StopKill(t) PROVE P
  <2>1. LivePids' = LivePids
    BY <1>12 DEF StopKill, Kill, LivePids, Live, Inv, TypeOK
  <2>2. Phases' = Phases
    BY <1>12 DEF StopKill, Phases, Phase, Inv, TypeOK
  <2>3. QED BY <1>1, <2>1, <2>2
<1>13. ASSUME NEW t \in Task, StopFailed(t) PROVE P
  BY <1>13 DEF StopFailed, Reliable
<1>14. ASSUME NEW t \in Task, NEW o \in {"start", "stop"}, Call(t, o)
       PROVE  P
  <2>1. LivePids' = LivePids
    BY <1>14 DEF Call, LivePids
  <2>2. Phases[t] = "idle" /\ Phases' = [Phases EXCEPT ![t] = o]
    BY <1>14 DEF Call, Phases, Phase, Inv, TypeOK
  <2>3. Slot!Invoke(t)
    BY <2>1, <2>2 DEF Slot!Invoke, Slot!Answer, Phases
  <2>4. QED BY <2>3
<1>15. ASSUME NEW t \in Task, Release(t) PROVE P
  <2>1. LivePids' = LivePids
    BY <1>15 DEF Release, LivePids
  <2>2. Phases[t] \in Slot!Outcomes /\ Phases' = [Phases EXCEPT ![t] = "idle"]
    BY <1>15 DEF Release, Phases, Phase, OutcomeInv, Inv, TypeOK
  <2>3. Slot!Return(t)
    BY <2>1, <2>2 DEF Slot!Return, Slot!Answer, Phases
  <2>4. QED BY <2>3
<1>16. CASE Teardown
  <2>1. LivePids' = LivePids /\ Phases' = [t \in Task |-> "idle"]
    BY <1>16 DEF Teardown, LivePids, Phases, Phase
  <2>2. Slot!Abandon
    BY <2>1 DEF Slot!Abandon, Phases
  <2>3. QED BY <2>2
<1>17. CASE Relaunch
  BY <1>1, <1>3, <1>17 DEF Relaunch, LivePids
<1>18. ASSUME NEW p \in Pid, MihomoExits(p) PROVE P
  <2>1. LivePids # {} /\ LivePids' = {}
    BY <1>18 DEF MihomoExits, LivePids, Live, Inv, AtMostOneMihomo, TypeOK
  <2>2. Phases' = Phases
    BY <1>3, <1>18 DEF MihomoExits, CallerVars
  <2>3. Slot!Die
    BY <2>1, <2>2 DEF Slot!Die, Phases
  <2>4. QED BY <2>3
<1>19. ASSUME NEW p \in Pid, OrphanReaped(p) \/ OtherProcess(p) PROVE P
  <2>1. LivePids' = LivePids
    BY <1>19 DEF OrphanReaped, OtherProcess, Reap, LivePids, Live, Inv, TypeOK
  <2>2. QED BY <1>1, <1>3, <1>19, <2>1 DEF OrphanReaped, OtherProcess, CallerVars
<1>20. ASSUME NEW p \in Pid, GroupKilled(p) PROVE P
  <2>1. LivePids' = LivePids
    BY <1>20 DEF GroupKilled, Kill, LivePids, Live, Inv, TypeOK
  <2>2. QED BY <1>1, <1>3, <1>20, <2>1 DEF GroupKilled
<1>21. CASE UNCHANGED vars
  BY <1>1, <1>3, <1>21 DEF vars, LivePids
<1> QED
  BY <1>4, <1>5, <1>6, <1>8, <1>9, <1>10, <1>11, <1>12, <1>13, <1>14, <1>15,
     <1>16, <1>17, <1>18, <1>19, <1>20, <1>21
     DEF Next, TaskStep, Step, Environment

(* The supervisor answers its callers as the one-slot service does.        *)
THEOREM ImplementsSlot == ASSUME Reliable PROVE Spec => SlotSpec
<1>1. Init => OutcomeInv /\ Slot!Init
  BY DEF Init, OutcomeInv, Slot!Init, LivePids, Live, Phase
<1>2. Inv /\ OutcomeInv /\ [Next]_vars => OutcomeInv' /\ [Slot!Next]_(Slot!vars)
  BY OutcomeStep, SlotStep DEF Inv
<1>3. QED BY <1>1, <1>2, HeldCorrect, PTL DEF Spec, SlotSpec, Slot!Spec
=============================================================================
