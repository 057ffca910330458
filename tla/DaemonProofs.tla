---------------------------- MODULE DaemonProofs ----------------------------
(***************************************************************************)
(* What is proved of Supervisor carried over to the daemon that runs it,   *)
(* and the daemon's own safety properties, for every number of             *)
(* connections, pids, faults and descriptors, with either service manager. *)
(***************************************************************************)
EXTENDS Daemon, TLAPS

SP == INSTANCE SupervisorProofs

(* Daemon names the supervisor Sup, its theorems name it SP: the same      *)
(* definitions.                                                            *)
LEMMA SameAssumption == SP!SupervisorAssumption
BY DaemonAssumption DEF SP!SupervisorAssumption

LEMMA SameState ==
  /\ Sup!Init <=> SP!Init
  /\ Sup!TypeOK <=> SP!TypeOK
  /\ Sup!vars = SP!vars
  /\ Sup!LivePids = SP!LivePids
  /\ Sup!AtMostOneMihomo <=> SP!AtMostOneMihomo
BY DEF Sup!Init, SP!Init, Sup!TypeOK, SP!TypeOK, Sup!vars, SP!vars,
       Sup!LivePids, SP!LivePids, Sup!Live, SP!Live, Sup!Results, SP!Results,
       Sup!AtMostOneMihomo, SP!AtMostOneMihomo

LEMMA SameStutter == UNCHANGED Sup!vars <=> UNCHANGED SP!vars
BY DEF Sup!vars, SP!vars

LEMMA SameStep == \A t \in Task : Sup!Step(t) <=> SP!Step(t)
BY DEF Sup!Step, SP!Step, Sup!StartRefused, SP!StartRefused,
       Sup!StartFailed, SP!StartFailed, Sup!StartSpawned, SP!StartSpawned,
       Sup!StopIdle, SP!StopIdle, Sup!StopTerminate, SP!StopTerminate,
       Sup!StopReaped, SP!StopReaped, Sup!StopSleep, SP!StopSleep,
       Sup!StopKill, SP!StopKill, Sup!StopFailed, SP!StopFailed,
       Sup!Return, SP!Return, Sup!Holds, SP!Holds, Sup!IdleTables, SP!IdleTables,
       Sup!Reap, SP!Reap, Sup!Terminate, SP!Terminate, Sup!Kill, SP!Kill,
       Sup!Live, SP!Live

LEMMA SameNext == Sup!Next <=> SP!Next
BY SameStep DEF Sup!Next, SP!Next, Sup!TaskStep, SP!TaskStep, Sup!Call, SP!Call,
       Sup!Release, SP!Release, Sup!Environment, SP!Environment,
       Sup!MihomoExits, SP!MihomoExits, Sup!OrphanReaped, SP!OrphanReaped,
       Sup!OtherProcess, SP!OtherProcess, Sup!GroupKilled, SP!GroupKilled,
       Sup!Teardown, SP!Teardown, Sup!Relaunch, SP!Relaunch,
       Sup!CallerVars, SP!CallerVars, Sup!Reap, SP!Reap, Sup!Kill, SP!Kill,
       Sup!Live, SP!Live, Sup!LivePids, SP!LivePids

-----------------------------------------------------------------------------
(* Every step of the daemon is one of the supervisor's or leaves it alone. *)
LEMMA SupStep == [Next]_vars => [Sup!Next]_(Sup!vars)
<1> SUFFICES ASSUME [Next]_vars PROVE [Sup!Next]_(Sup!vars)
  OBVIOUS
<1> USE DEF supVars, Sup!vars
<1>1. CASE Loop
  <2>1. CASE RemoveStale \/ Bind \/ Chmod
    BY <2>1 DEF RemoveStale, Bind, Chmod, StartUp
  <2>2. CASE BeginDrain
    BY <2>2 DEF BeginDrain, Sup!Next, Task
  <2>3. CASE Exit
    BY <2>3 DEF Exit, Ends, Sup!Next, Sup!Environment
  <2> QED
    BY <1>1, <2>1, <2>2, <2>3 DEF Loop
<1>2. CASE Relaunch \/ EarlySigterm \/ Crash \/ Sigterm
  BY <1>2 DEF Relaunch, EarlySigterm, Crash, Sigterm, Ends, Sup!Next,
              Sup!Environment
<1>3. ASSUME NEW c \in Conn, Client(c) \/ Accept(c) \/ DnsReply(c)
      PROVE  [Sup!Next]_(Sup!vars)
  <2>1. CASE CallSupervisor(c)
    BY <2>1 DEF CallSupervisor, Sup!Next, Task
  <2> QED
    BY <1>3, <2>1 DEF Client, ClientConnects, ClientHangsUp, AnswerNow, Shutdown,
       CallDns, Forget, Accept, DnsReply
<1>4. ASSUME NEW c \in Conn, Reply(c) PROVE [Sup!Next]_(Sup!vars)
  BY <1>4 DEF Reply, Sup!Next, Sup!TaskStep, Task
<1>5. ASSUME NEW t \in Task, Works(t) PROVE [Sup!Next]_(Sup!vars)
  BY <1>5 DEF Works, Sup!Next, Sup!TaskStep
<1>6. ASSUME NEW p \in Pid, Process(p) PROVE [Sup!Next]_(Sup!vars)
  BY <1>6 DEF Process, MihomoExits, OrphanReaped, GroupKilled, Sup!Next,
              Sup!Environment
<1>7. CASE UNCHANGED vars
  BY <1>7 DEF vars
<1> QED
  BY <1>1, <1>2, <1>3, <1>4, <1>5, <1>6, <1>7 DEF Next

(* What Supervisor promises holds of the supervisor in the daemon.         *)
LEMMA SupervisorHolds == Spec => SP!Spec
<1>1. Init => SP!Init
  BY SameState DEF Init
<1>2. [Next]_vars => [SP!Next]_(SP!vars)
  BY SupStep, SameStutter, SameNext
<1> QED
  BY <1>1, <1>2, PTL DEF Spec, SP!Spec

(* At most one mihomo runs in the daemon, across crashes and restarts.     *)
THEOREM AtMostOne == ASSUME SP!Reliable PROVE Spec => []AtMostOneMihomo
<1>1. SP!Spec => []SP!AtMostOneMihomo
  BY SameAssumption, SP!AtMostOne
<1>2. SP!AtMostOneMihomo <=> AtMostOneMihomo
  BY SameState DEF AtMostOneMihomo
<1> QED
  BY <1>1, <1>2, SupervisorHolds, PTL

LEMMA SameSlot ==
  /\ Sup!Slot!Init <=> SP!Slot!Init
  /\ [Sup!Slot!Next]_(Sup!Slot!vars) <=> [SP!Slot!Next]_(SP!Slot!vars)
<1> USE DEF Sup!LivePids, SP!LivePids, Sup!Live, SP!Live, Sup!Phase, SP!Phase
<1>1. Sup!Slot!Init <=> SP!Slot!Init
  BY DEF Sup!Slot!Init, SP!Slot!Init
<1>2. UNCHANGED Sup!Slot!vars <=> UNCHANGED SP!Slot!vars
  BY DEF Sup!Slot!vars, SP!Slot!vars
<1>3. Sup!Slot!Next <=> SP!Slot!Next
  BY DEF Sup!Slot!Next, SP!Slot!Next, Sup!Slot!Invoke, SP!Slot!Invoke,
         Sup!Slot!Spawn, SP!Slot!Spawn, Sup!Slot!Refuse, SP!Slot!Refuse,
         Sup!Slot!Fail, SP!Slot!Fail, Sup!Slot!Stopped, SP!Slot!Stopped,
         Sup!Slot!Return, SP!Slot!Return, Sup!Slot!Die, SP!Slot!Die,
         Sup!Slot!Abandon, SP!Slot!Abandon, Sup!Slot!Answer, SP!Slot!Answer,
         Sup!Slot!Outcomes, SP!Slot!Outcomes
<1> QED
  BY <1>1, <1>2, <1>3

(* The daemon answers as the one-slot service does.                        *)
THEOREM ImplementsSlot == ASSUME SP!Reliable PROVE Spec => SlotSpec
<1>1. SP!Spec => SP!SlotSpec
  BY SameAssumption, SP!ImplementsSlot
<1> QED
  BY <1>1, SameSlot, SupervisorHolds, PTL
     DEF SlotSpec, Sup!SlotSpec, SP!SlotSpec, Sup!Slot!Spec, SP!Slot!Spec

-----------------------------------------------------------------------------
(* Where main() is tells what its own call of stop() and, outside the      *)
(* accept loop and the shutdown, every task is doing.                      *)
LoopType ==
  /\ main \in {"start", "bind", "chmod", "serving", "draining", "exited", "failed"}
  /\ sock \in {"absent", "bound", "open", "stale"}
  /\ sigterm \in BOOLEAN /\ trigger \in BOOLEAN /\ fired \in BOOLEAN
  /\ faults \in 0..MaxFaults

ConnType ==
  /\ conn \in [Conn -> {"none", "backlog", "reading", "busy", "done"}]
  /\ req \in [Conn -> Requests \cup {"none"}]
  /\ reply \in [Conn -> Replies \cup {"none"}]

LoopInv ==
  /\ up <=> main \notin {"exited", "failed"}
  /\ sock = "open" => main = "serving"
  /\ main \notin {"serving", "draining"} => \A t \in Task : pc[t] = "idle"
  /\ main \notin {"serving", "draining"} => \A c \in Conn : conn[c] = "none"
  /\ main = "serving" => pc[Main] = "idle"
  /\ main = "draining" => pc[Main] \in {"stop", "grace", "wait", "done"}

LEMMA LoopTypeStep == LoopType /\ [Next]_vars => LoopType'
<1> SUFFICES ASSUME LoopType, [Next]_vars PROVE LoopType'
  OBVIOUS
<1> USE DaemonAssumption DEF LoopType, loopVars
<1>1. CASE Loop
  BY <1>1 DEF Loop, RemoveStale, Bind, Chmod, StartUp, BeginDrain, Exit, Ends
<1>2. CASE Relaunch \/ EarlySigterm \/ Crash \/ Sigterm
  <2>1. faults' \in 0..MaxFaults
    BY <1>2 DEF Relaunch, EarlySigterm, Crash, Sigterm
  <2>2. UNCHANGED <<sigterm, trigger, fired>>
          \/ (sigterm' = FALSE /\ trigger' = FALSE /\ fired' = FALSE)
          \/ (sigterm' = TRUE /\ UNCHANGED <<trigger, fired>>)
    BY <1>2 DEF Relaunch, EarlySigterm, Crash, Sigterm, Ends
  <2>3. main' \in {"start", "serving", "exited", "failed"}
    BY <1>2 DEF Relaunch, EarlySigterm, Crash, Sigterm, Ends
  <2>4. sock' \in {sock, "stale"}
    BY <1>2 DEF Relaunch, EarlySigterm, Crash, Sigterm, Ends
  <2> QED
    BY <2>1, <2>2, <2>3, <2>4
<1>3. ASSUME NEW c \in Conn, Client(c) \/ Accept(c) \/ DnsReply(c) \/ Reply(c)
      PROVE  LoopType'
  BY <1>3 DEF Client, ClientConnects, ClientHangsUp, AnswerNow, Shutdown, Reads,
     CallSupervisor, CallDns, Forget, Accept, DnsReply, Reply
<1>4. ASSUME NEW t \in Task, Works(t) PROVE LoopType'
  BY <1>4 DEF Works
<1>5. ASSUME NEW p \in Pid, Process(p) PROVE LoopType'
  BY <1>5 DEF Process, MihomoExits, OrphanReaped, GroupKilled
<1>6. CASE UNCHANGED vars
  BY <1>6 DEF vars
<1> QED
  BY <1>1, <1>2, <1>3, <1>4, <1>5, <1>6 DEF Next

LEMMA ConnTypeStep == SP!TypeOK /\ ConnType /\ [Next]_vars => ConnType'
<1> SUFFICES ASSUME SP!TypeOK, ConnType, [Next]_vars PROVE ConnType'
  OBVIOUS
<1> USE DaemonAssumption DEF ConnType, connVars, Goes, Answer, Reads
<1>1. CASE Loop
  BY <1>1 DEF Loop, RemoveStale, Bind, Chmod, StartUp, BeginDrain, Exit, Ends
<1>2. CASE Relaunch \/ EarlySigterm \/ Crash \/ Sigterm
  BY <1>2 DEF Relaunch, EarlySigterm, Crash, Sigterm, Ends
<1>3. ASSUME NEW c \in Conn,
             \/ ClientConnects(c) \/ ClientHangsUp(c) \/ Shutdown(c)
             \/ CallSupervisor(c) \/ CallDns(c) \/ Forget(c) \/ Accept(c)
      PROVE  ConnType'
  BY <1>3 DEF ClientConnects, ClientHangsUp, Shutdown, CallSupervisor, CallDns,
     Forget, Accept, Replies
<1>4. ASSUME NEW c \in Conn, AnswerNow(c) \/ DnsReply(c) PROVE ConnType'
  BY <1>4 DEF AnswerNow, DnsReply, Immediate, DnsCommands, Replies
<1>5. ASSUME NEW c \in Conn, Reply(c) PROVE ConnType'
  BY <1>5 DEF Reply, SP!TypeOK, SP!Results, Replies, Task
<1>6. ASSUME NEW t \in Task, Works(t) PROVE ConnType'
  BY <1>6 DEF Works
<1>7. ASSUME NEW p \in Pid, Process(p) PROVE ConnType'
  BY <1>7 DEF Process, MihomoExits, OrphanReaped, GroupKilled
<1>8. CASE UNCHANGED vars
  BY <1>8 DEF vars
<1> QED
  BY <1>1, <1>2, <1>3, <1>4, <1>5, <1>6, <1>7, <1>8 DEF Next, Client

LEMMA LoopInvStep ==
  SP!TypeOK /\ LoopType /\ ConnType /\ LoopInv /\ [Next]_vars => LoopInv'
<1> SUFFICES ASSUME SP!TypeOK, LoopType, ConnType, LoopInv, [Next]_vars
             PROVE  LoopInv'
  OBVIOUS
<1> USE DaemonAssumption DEF LoopInv, loopVars, connVars, supVars, Task
<1>1. CASE RemoveStale \/ Bind \/ Chmod
  BY <1>1 DEF RemoveStale, Bind, Chmod, StartUp
<1>2. CASE BeginDrain
  BY <1>2 DEF BeginDrain, Sup!Call, SP!TypeOK
<1>3. CASE Exit \/ EarlySigterm \/ Crash
  BY <1>3 DEF Exit, EarlySigterm, Crash, Ends, Sup!Teardown
<1>4. CASE Relaunch \/ Sigterm
  BY <1>4 DEF Relaunch, Sup!Relaunch, Sigterm, SP!TypeOK
<1>5. ASSUME NEW c \in Conn, Client(c) \/ Accept(c) \/ DnsReply(c) PROVE LoopInv'
  <2>1. CASE CallSupervisor(c)
    BY <2>1 DEF CallSupervisor, Reads, Goes, Sup!Call, SP!TypeOK
  <2>2. CASE ClientConnects(c)
    BY <2>2 DEF ClientConnects, Goes
  <2> QED
    BY <1>5, <2>1, <2>2 DEF Client, ClientHangsUp, AnswerNow, Shutdown, Reads,
       CallDns, Forget, Accept, DnsReply, Goes, Answer, ConnType
<1>6. ASSUME NEW c \in Conn, Reply(c) PROVE LoopInv'
  BY <1>6 DEF Reply, Sup!Release, Answer, Goes, SP!TypeOK
<1>7. ASSUME NEW t \in Task, Works(t) PROVE LoopInv'
  <2>1. SP!Step(t) /\ UNCHANGED <<main, sock, conn>>
    BY <1>7, SameStep DEF Works
  <2>2. /\ \A u \in Task : u # t => pc'[u] = pc[u]
        /\ pc[t] \in {"stop", "grace", "wait"}
             => pc'[t] \in {"stop", "grace", "wait", "done"}
        /\ pc[t] \in {"start", "stop", "grace", "wait"} /\ up' = up
    BY <2>1, SameAssumption, SP!StopGoesOn
  <2> QED
    BY <2>1, <2>2
<1>8. ASSUME NEW p \in Pid, Process(p) PROVE LoopInv'
  BY <1>8 DEF Process, MihomoExits, OrphanReaped, GroupKilled, Sup!MihomoExits,
     Sup!OrphanReaped, Sup!GroupKilled, Sup!CallerVars
<1>9. CASE UNCHANGED vars
  BY <1>9 DEF vars
<1> QED
  BY <1>1, <1>2, <1>3, <1>4, <1>5, <1>6, <1>7, <1>8, <1>9 DEF Next, Loop

LEMMA InvInit == Init => LoopType /\ ConnType /\ LoopInv
<1> SUFFICES ASSUME Init PROVE LoopType /\ ConnType /\ LoopInv
  OBVIOUS
<1>1. LoopType
  <2>1. faults \in 0..MaxFaults
    BY DaemonAssumption DEF Init
  <2> QED
    BY <2>1 DEF Init, LoopType
<1>2. ConnType
  BY DEF Init, ConnType
<1>3. LoopInv
  BY DEF Init, Sup!Init, LoopInv, Task
<1> QED
  BY <1>1, <1>2, <1>3

DaemonInv == SP!TypeOK /\ SP!LockInv /\ LoopType /\ ConnType /\ LoopInv

LEMMA DaemonInvHolds == Spec => []DaemonInv
<1>1. SP!Spec => [](SP!TypeOK /\ SP!LockInv)
  BY SameAssumption, SP!TypeCorrect
<1>2. Init => LoopType /\ ConnType /\ LoopInv
  BY InvInit
<1>3. SP!TypeOK /\ SP!LockInv /\ LoopType /\ ConnType /\ LoopInv /\ [Next]_vars
        => LoopType' /\ ConnType' /\ LoopInv'
  BY LoopTypeStep, ConnTypeStep, LoopInvStep
<1> QED
  BY <1>1, <1>2, <1>3, SupervisorHolds, PTL DEF Spec, DaemonInv

(* The state of the daemon and of the supervisor in it is well-typed.      *)
THEOREM TypeCorrect == Spec => []TypeOK
<1>1. DaemonInv => TypeOK
  BY SameState DEF DaemonInv, LoopType, ConnType, TypeOK
<1> QED
  BY <1>1, DaemonInvHolds, PTL

(* A clean exit cuts off no call that has got past the mutex.              *)
THEOREM ExitOwesNothing == Spec => ExitOwesNoReply
<1> DEFINE P == main = "draining" /\ main' = "exited"
                  => \A c \in Conn : pc[c] \in {"idle", "start", "stop"}
<1>1. ASSUME DaemonInv, [Next]_vars PROVE P
  <2> SUFFICES ASSUME main = "draining", main' = "exited", NEW c \in Conn
               PROVE  pc[c] \in {"idle", "start", "stop"}
    OBVIOUS
  <2>1. Exit
    BY <1>1 DEF Next, Loop, RemoveStale, Bind, Chmod, StartUp, BeginDrain,
       Relaunch, EarlySigterm, Crash, Sigterm, Ends, Client, ClientConnects,
       ClientHangsUp, AnswerNow, Shutdown, CallSupervisor, CallDns, Forget,
       Accept, DnsReply, Reply, Works, Process, MihomoExits, OrphanReaped,
       GroupKilled, vars, loopVars
  <2>2. pc[Main] = "done" /\ c # Main /\ c \in Task /\ Main \in Task
    BY <2>1, DaemonAssumption DEF Exit, Task
  <2>3. ~SP!Critical(c)
    BY <1>1, <2>2 DEF DaemonInv, SP!LockInv, SP!Critical, SP!Holds
  <2> QED
    BY <1>1, <2>2, <2>3 DEF DaemonInv, SP!TypeOK, SP!Critical
<1> QED
  BY <1>1, DaemonInvHolds, PTL DEF Spec, ExitOwesNoReply

-----------------------------------------------------------------------------
(* No mihomo lives before the accept loop, once main() has stopped it, and *)
(* after a clean exit.                                                     *)
QuietInv ==
  /\ main \in {"start", "bind", "chmod", "exited"} => SP!LivePids = {}
  /\ main = "draining" /\ pc[Main] = "done" => SP!LivePids = {}

LEMMA QuietStep ==
  ASSUME SP!Reliable, SP!Inv, DaemonInv, QuietInv, [Next]_vars
  PROVE  QuietInv'
<1> USE DaemonAssumption DEF QuietInv, loopVars, connVars, supVars, Task
<1>1. ASSUME UNCHANGED proc PROVE SP!LivePids' = SP!LivePids
  BY <1>1 DEF SP!LivePids
<1>2. CASE RemoveStale \/ Bind \/ Chmod
  BY <1>1, <1>2 DEF RemoveStale, Bind, Chmod, StartUp
<1>3. CASE BeginDrain
  BY <1>3 DEF BeginDrain, Sup!Call, DaemonInv, SP!TypeOK
<1>4. CASE Exit \/ EarlySigterm \/ Crash
  BY <1>1, <1>4 DEF Exit, EarlySigterm, Crash, Ends, Sup!Teardown
<1>5. CASE Relaunch
  BY <1>1, <1>5, SameState DEF Relaunch, Sup!Relaunch, SP!Reliable
<1>6. CASE Sigterm
  BY <1>1, <1>6 DEF Sigterm
<1>7. ASSUME NEW c \in Conn, Client(c) \/ Accept(c) \/ DnsReply(c) \/ Reply(c)
      PROVE  QuietInv'
  <2>1. CASE CallSupervisor(c)
    BY <1>1, <2>1 DEF CallSupervisor, Sup!Call, DaemonInv, SP!TypeOK
  <2>2. CASE Reply(c)
    BY <1>1, <2>2 DEF Reply, Sup!Release, DaemonInv, SP!TypeOK
  <2> QED
    BY <1>1, <1>7, <2>1, <2>2 DEF Client, ClientConnects, ClientHangsUp,
       AnswerNow, Shutdown, CallDns, Forget, Accept, DnsReply
<1>8. ASSUME NEW t \in Task, Works(t) PROVE QuietInv'
  <2>1. SP!Step(t) /\ UNCHANGED <<main, sock, conn>>
    BY <1>8, SameStep DEF Works
  <2>2. /\ \A u \in Task : u # t => pc'[u] = pc[u]
        /\ pc[t] \in {"start", "stop", "grace", "wait"}
    BY <2>1, SameAssumption, SP!StopGoesOn DEF DaemonInv
  <2>3. main \in {"serving", "draining"}
    BY <2>2 DEF DaemonInv, LoopInv
  <2>4. CASE main = "draining" /\ t = Main /\ pc'[Main] = "done"
    <3>1. pc[Main] \in {"stop", "grace", "wait"}
      BY <2>2, <2>4 DEF DaemonInv, LoopInv
    <3> QED
      BY <2>1, <2>4, <3>1, SameAssumption, SP!StopLeavesNone
  <2>5. CASE main = "draining" /\ t # Main /\ pc'[Main] = "done"
    <3>1. pc[Main] = "done" /\ SP!LivePids = {}
      BY <2>2, <2>5
    <3>2. \A u \in Task : ~(pc[u] = "start" /\ SP!Holds(u))
      BY <3>1 DEF DaemonInv, SP!LockInv, SP!Critical, SP!Holds
    <3>3. [SP!Next]_(SP!vars)
      BY SupStep, SameStutter, SameNext
    <3>4. SP!LivePids' \subseteq SP!LivePids
      BY <3>2, <3>3, SameAssumption, SP!OnlyStartSpawns DEF DaemonInv
    <3> QED
      BY <3>1, <3>4
  <2> QED
    BY <2>1, <2>3, <2>4, <2>5
<1>9. ASSUME NEW p \in Pid, Process(p) PROVE QuietInv'
  <2>1. UNCHANGED <<main, pc>>
    BY <1>9 DEF Process, MihomoExits, OrphanReaped, GroupKilled, Sup!MihomoExits,
       Sup!OrphanReaped, Sup!GroupKilled, Sup!CallerVars
  <2>2. SP!LivePids = {} => SP!LivePids' = {}
    BY <1>9 DEF Process, MihomoExits, OrphanReaped, GroupKilled, Sup!MihomoExits,
       Sup!OrphanReaped, Sup!GroupKilled, Sup!Live, Sup!Kill, Sup!Reap,
       SP!LivePids, SP!Live, DaemonInv, SP!TypeOK
  <2> QED
    BY <2>1, <2>2
<1>10. CASE UNCHANGED vars
  BY <1>1, <1>10 DEF vars
<1> QED
  BY <1>2, <1>3, <1>4, <1>5, <1>6, <1>7, <1>8, <1>9, <1>10 DEF Next, Loop

(* A helper that exits by itself leaves no mihomo, whatever raced the      *)
(* shutdown, if the system is reliable.                                    *)
THEOREM CleanExit ==
  ASSUME SP!Reliable PROVE Spec => []CleanExitLeavesNoMihomo
<1>1. SP!Spec => []SP!Inv
  BY SameAssumption, SP!HeldCorrect
<1>2. Init => QuietInv
  BY DEF Init, Sup!Init, QuietInv, SP!LivePids, SP!Live
<1>3. SP!Inv /\ DaemonInv /\ QuietInv /\ [Next]_vars => QuietInv'
  BY QuietStep
<1>4. QuietInv => CleanExitLeavesNoMihomo
  BY SameState DEF QuietInv, CleanExitLeavesNoMihomo
<1> QED
  BY <1>1, <1>2, <1>3, <1>4, SupervisorHolds, DaemonInvHolds, PTL DEF Spec
=============================================================================
