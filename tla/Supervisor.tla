----------------------------- MODULE Supervisor -----------------------------
(***************************************************************************)
(* MihomoSupervisor (src/src/service/core.rs) behind its tokio Mutex,      *)
(* together with the operating system's process table.                     *)
(*                                                                         *)
(* Tasks call start() and stop() under one FIFO mutex.  stop() suspends    *)
(* (sleep, wait) while it holds the mutex, so other tasks run between its  *)
(* polls of the child; start() never suspends once it has the mutex.       *)
(* Processes run in parallel with everything: one may exit at any point.   *)
(***************************************************************************)
EXTENDS Naturals, Sequences

CONSTANTS
  Task,          \* tasks that call the supervisor: connections and main
  Pid,           \* process identifiers; the system reuses them
  NoPid,         \* None, where the code has an Option
  Grace,         \* polls in the 5 s the code gives a SIGTERM (there 50)
  TryWaitMayFail,\* whether try_wait() may return Err
  GroupKill      \* whether the service manager kills the helper's process
                 \* group before it starts the helper again

ASSUME SupervisorAssumption ==
  /\ NoPid \notin Pid
  /\ Grace \in Nat
  /\ TryWaitMayFail \in BOOLEAN
  /\ GroupKill \in BOOLEAN

VARIABLES
  up,      \* the helper process exists
  proc,    \* proc[p]: what the system runs under pid p
  child,   \* MihomoSupervisor.child: the handle's pid, or NoPid
  mutex,   \* the tokio Mutex: its holder first, then the waiters in order
  pc,      \* pc[t]: where task t is in its call
  taken,   \* taken[t]: the handle that stop() has moved into a local
  waited,  \* waited[t]: polls of the grace period that have gone by
  result   \* result[t]: what start() or stop() returned to t

vars == <<up, proc, child, mutex, pc, taken, waited, result>>

Live     == {"run", "term", "kill"}  \* running; SIGTERM, SIGKILL delivered
Results  == {"Started", "AlreadyRunning", "SpawnFailed", "Stopped", "Internal"}

TypeOK ==
  /\ up \in BOOLEAN
  /\ proc \in [Pid -> Live \cup {"free", "zombie", "other", "hit"}]
  /\ child \in Pid \cup {NoPid}
  /\ mutex \in Seq(Task)
  /\ pc \in [Task -> {"idle", "start", "stop", "grace", "wait", "done"}]
  /\ taken \in [Task -> Pid \cup {NoPid}]
  /\ waited \in [Task -> 0..Grace]
  /\ result \in [Task -> Results \cup {"none"}]

Init ==
  /\ up = TRUE
  /\ proc = [p \in Pid |-> "free"]
  /\ child = NoPid
  /\ mutex = <<>>
  /\ pc = [t \in Task |-> "idle"]
  /\ taken = [t \in Task |-> NoPid]
  /\ waited = [t \in Task |-> 0]
  /\ result = [t \in Task |-> "none"]

-----------------------------------------------------------------------------
(* The system calls.                                                       *)

Reap(p) == [proc EXCEPT ![p] = "free"]

(* kill(pid, SIGTERM): a signal to a pid that now belongs to an unrelated  *)
(* process hits that process.                                              *)
Terminate(p) ==
  proc' = [proc EXCEPT ![p] = IF @ = "run" THEN "term"
                              ELSE IF @ = "other" THEN "hit" ELSE @]

Kill(p) ==
  proc' = [proc EXCEPT ![p] = IF @ \in Live THEN "kill"
                              ELSE IF @ = "other" THEN "hit" ELSE @]

LivePids == {p \in Pid : proc[p] \in Live}

-----------------------------------------------------------------------------
(* The mutex: lock().await queues the caller; dropping the guard hands the *)
(* mutex to the first waiter, so nobody overtakes.                         *)

Holds(t) == mutex # <<>> /\ Head(mutex) = t

Call(t, op) ==
  /\ up
  /\ pc[t] = "idle"
  /\ op \in {"start", "stop"}
  /\ mutex' = Append(mutex, t)
  /\ pc' = [pc EXCEPT ![t] = op]
  /\ UNCHANGED <<up, proc, child, taken, waited, result>>

(* The call returns; its caller still holds the guard.                     *)
Return(t, res) ==
  /\ pc' = [pc EXCEPT ![t] = "done"]
  /\ taken' = [taken EXCEPT ![t] = NoPid]
  /\ waited' = [waited EXCEPT ![t] = 0]
  /\ result' = [result EXCEPT ![t] = res]
  /\ UNCHANGED <<up, mutex>>

ReleaseKeepsGuard(t) ==
  /\ pc[t] = "done"
  /\ pc' = [pc EXCEPT ![t] = "idle"]
  /\ result' = [result EXCEPT ![t] = "none"]
  /\ UNCHANGED <<up, proc, child, mutex, taken, waited>>

Release(t) ==
  /\ pc[t] = "done"
  /\ mutex' = Tail(mutex)
  /\ pc' = [pc EXCEPT ![t] = "idle"]
  /\ result' = [result EXCEPT ![t] = "none"]
  /\ UNCHANGED <<up, proc, child, taken, waited>>

-----------------------------------------------------------------------------
(* start()                                                                 *)

(* is_running() is false: the process tables it may leave.  Without a      *)
(* handle nothing changes; a child that has exited is reaped; an error of  *)
(* try_wait() counts as dead.                                              *)
IdleTables ==
  (IF child = NoPid \/ TryWaitMayFail THEN {proc} ELSE {})
    \cup {Reap(p) : p \in {q \in Pid : q = child /\ proc[q] = "zombie"}}

StartRefused(t) ==
  /\ pc[t] = "start"
  /\ Holds(t)
  /\ child # NoPid
  /\ proc[child] \in Live
  /\ Return(t, "AlreadyRunning")
  /\ UNCHANGED <<proc, child>>

StartFailedKeepsHandle(t) ==
  /\ pc[t] = "start"
  /\ Holds(t)
  /\ proc' \in IdleTables
  /\ Return(t, "SpawnFailed")
  /\ UNCHANGED child

(* A missing binary, directory or config file, a log file that cannot be   *)
(* opened, or a failed spawn: by then is_running() has dropped the handle. *)
StartFailed(t) ==
  /\ pc[t] = "start"
  /\ Holds(t)
  /\ proc' \in IdleTables
  /\ child' = NoPid
  /\ Return(t, "SpawnFailed")

StartSpawned(t) ==
  /\ pc[t] = "start"
  /\ Holds(t)
  /\ \E after \in IdleTables, p \in Pid :
       /\ after[p] = "free"
       /\ proc' = [after EXCEPT ![p] = "run"]
       /\ child' = p
  /\ Return(t, "Started")

-----------------------------------------------------------------------------
(* stop()                                                                  *)

StopIdle(t) ==
  /\ pc[t] = "stop"
  /\ Holds(t)
  /\ child = NoPid
  /\ Return(t, "Stopped")
  /\ UNCHANGED <<proc, child>>

StopTerminate(t) ==
  /\ pc[t] = "stop"
  /\ Holds(t)
  /\ child # NoPid
  /\ Terminate(child)
  /\ taken' = [taken EXCEPT ![t] = child]
  /\ child' = NoPid
  /\ pc' = [pc EXCEPT ![t] = "grace"]
  /\ UNCHANGED <<up, mutex, waited, result>>

(* try_wait() or, after SIGKILL, wait() reaps the child.                   *)
StopReaped(t) ==
  /\ pc[t] \in {"grace", "wait"}
  /\ proc[taken[t]] = "zombie"
  /\ proc' = Reap(taken[t])
  /\ Return(t, "Stopped")
  /\ UNCHANGED child

StopSleepAgain(t) ==
  /\ pc[t] = "grace"
  /\ proc[taken[t]] \in Live
  /\ waited' = [waited EXCEPT ![t] = @ + 1]
  /\ UNCHANGED <<up, proc, child, mutex, pc, taken, result>>

(* The child is alive before the deadline.  A sleep lasts at least one     *)
(* poll interval; a late timer makes it longer.                            *)
StopSleep(t) ==
  /\ pc[t] = "grace"
  /\ proc[taken[t]] \in Live
  /\ waited[t] < Grace
  /\ \E n \in (waited[t] + 1)..Grace : waited' = [waited EXCEPT ![t] = n]
  /\ UNCHANGED <<up, proc, child, mutex, pc, taken, result>>

StopKillNoWait(t) ==
  /\ pc[t] = "grace"
  /\ proc[taken[t]] \in Live
  /\ waited[t] >= Grace
  /\ Kill(taken[t])
  /\ Return(t, "Stopped")
  /\ UNCHANGED child

StopKill(t) ==
  /\ pc[t] = "grace"
  /\ proc[taken[t]] \in Live
  /\ waited[t] >= Grace
  /\ Kill(taken[t])
  /\ pc' = [pc EXCEPT ![t] = "wait"]
  /\ UNCHANGED <<up, child, mutex, taken, waited, result>>

(* try_wait() fails: stop() returns the error and drops the handle.  The   *)
(* error of wait() is ignored.                                             *)
StopFailed(t) ==
  /\ TryWaitMayFail
  /\ \/ pc[t] = "grace" /\ Return(t, "Internal")
     \/ pc[t] = "wait" /\ Return(t, "Stopped")
  /\ UNCHANGED <<proc, child>>

-----------------------------------------------------------------------------
(* The helper process ends, and is started again.                          *)

(* The runtime is torn down or killed: every task is gone, a mihomo lives  *)
(* on (kill_on_drop is false).                                             *)
Teardown ==
  /\ up
  /\ up' = FALSE
  /\ child' = NoPid
  /\ mutex' = <<>>
  /\ pc' = [t \in Task |-> "idle"]
  /\ taken' = [t \in Task |-> NoPid]
  /\ waited' = [t \in Task |-> 0]
  /\ result' = [t \in Task |-> "none"]
  /\ UNCHANGED proc

(* The service manager kills what is left of the helper's process group.   *)
GroupKilled(p) ==
  /\ ~up
  /\ GroupKill
  /\ proc[p] \in {"run", "term"}
  /\ Kill(p)
  /\ UNCHANGED <<up, child, mutex, pc, taken, waited, result>>

RelaunchAtOnce ==
  /\ ~up
  /\ up' = TRUE
  /\ UNCHANGED <<proc, child, mutex, pc, taken, waited, result>>

Relaunch ==
  /\ ~up
  /\ GroupKill => LivePids = {}
  /\ up' = TRUE
  /\ UNCHANGED <<proc, child, mutex, pc, taken, waited, result>>

-----------------------------------------------------------------------------
(* The rest of the system.                                                 *)

CallerVars == <<up, child, mutex, pc, taken, waited, result>>

MihomoExits(p) ==
  /\ proc[p] \in Live
  /\ proc' = [proc EXCEPT ![p] = "zombie"]
  /\ UNCHANGED CallerVars

(* A zombie whose handle was dropped: the runtime (init, when the helper   *)
(* is gone) reaps it.                                                      *)
OrphanReaped(p) ==
  /\ proc[p] = "zombie"
  /\ child # p
  /\ \A t \in Task : taken[t] # p
  /\ proc' = Reap(p)
  /\ UNCHANGED CallerVars

(* Unrelated processes come and go, and get pids that are free.            *)
OtherProcess(p) ==
  /\ \/ proc[p] = "free" /\ proc' = [proc EXCEPT ![p] = "other"]
     \/ proc[p] = "other" /\ proc' = [proc EXCEPT ![p] = "free"]
  /\ UNCHANGED CallerVars

Environment ==
  \/ \E p \in Pid : \/ MihomoExits(p) \/ OrphanReaped(p)
                    \/ OtherProcess(p) \/ GroupKilled(p)
  \/ Teardown
  \/ Relaunch

(* What the scheduler makes task t do once it is in a call.                *)
Step(t) ==
  \/ StartRefused(t) \/ StartFailed(t) \/ StartSpawned(t)
  \/ StopIdle(t) \/ StopTerminate(t) \/ StopReaped(t)
  \/ StopSleep(t) \/ StopKill(t) \/ StopFailed(t)

TaskStep(t) == Step(t) \/ Release(t)

Next ==
  \/ \E t \in Task : TaskStep(t) \/ Call(t, "start") \/ Call(t, "stop")
  \/ Environment

Spec == Init /\ [][Next]_vars

(* The single-threaded runtime polls every woken task; SIGKILL is obeyed.  *)
(* Nothing else is promised: mihomo may ignore SIGTERM and never exit.     *)
Fairness ==
  /\ \A t \in Task : WF_vars(TaskStep(t))
  /\ \A p \in Pid : WF_vars(proc[p] = "kill" /\ MihomoExits(p))

FairSpec == Spec /\ Fairness

-----------------------------------------------------------------------------
(* Properties.                                                             *)

(* Two mihomo processes never run at once: not while a stop is waiting for *)
(* one to die, not after a child died unnoticed, not across a crash and    *)
(* restart of the helper (core.rs:7 "don't double-spawn").                 *)
AtMostOneMihomo == \A p, q \in LivePids : p = q

(* No SIGTERM or SIGKILL goes to a process that is not mihomo, although    *)
(* the system reuses the pid of every reaped child.                        *)
NoForeignSignal == \A p \in Pid : proc[p] # "hit"

(* Every start() and stop() returns, even when mihomo ignores SIGTERM and  *)
(* when other tasks are queued on the mutex, unless the helper goes away.  *)
CallReturns ==
  \A t \in Task : pc[t] \in {"start", "stop"} ~> pc[t] \in {"done", "idle"}

(* A mihomo that died on its own is noticed: the handle of a dead child is *)
(* given up (core.rs:9 "detected via wait task").                          *)
HoldsDead(p) == child = p /\ proc[p] = "zombie"

DeathDetected == \A p \in Pid : HoldsDead(p) ~> ~HoldsDead(p)

(* The calls are answered as by the one-slot service of MihomoSlot.        *)
Phase(t) == IF pc[t] \in {"grace", "wait"} THEN "stop"
            ELSE IF pc[t] = "done" THEN result[t] ELSE pc[t]

Slot == INSTANCE MihomoSlot WITH
  live  <- LivePids,
  phase <- [t \in Task |-> Phase(t)]

SlotSpec == Slot!Spec
=============================================================================
