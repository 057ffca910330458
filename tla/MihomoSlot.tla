----------------------------- MODULE MihomoSlot -----------------------------
(***************************************************************************)
(* What the mihomo supervisor promises to the tasks that call it: a single *)
(* slot that holds at most one mihomo process.  A StartMihomo either fills *)
(* the empty slot (Started), is refused because the slot is full           *)
(* (AlreadyRunning) or fails without touching it (SpawnFailed); a          *)
(* StopMihomo is answered Stopped only when the slot is empty.  The slot   *)
(* may become empty at any time, since mihomo can die on its own, and it   *)
(* is never filled except by a StartMihomo: nothing restarts mihomo.       *)
(*                                                                         *)
(* Supervisor.tla implements this specification (SlotSpec there).          *)
(***************************************************************************)
CONSTANTS
  Task,   \* the tasks that may call the supervisor
  Pid     \* process identifiers

VARIABLES
  live,   \* the mihomo processes that have not exited
  phase   \* phase[t]: what task t waits for, or the outcome it was given

vars == <<live, phase>>

Outcomes == {"Started", "AlreadyRunning", "SpawnFailed", "Stopped"}

(***************************************************************************)
(* The states of the slot and of a call.                                   *)
(***************************************************************************)
TypeOK ==
  /\ live \in SUBSET Pid
  /\ phase \in [Task -> {"idle", "start", "stop"} \cup Outcomes]

Init ==
  /\ live = {}
  /\ phase = [t \in Task |-> "idle"]

Answer(t, outcome) == phase' = [phase EXCEPT ![t] = outcome]

Invoke(t) ==
  /\ phase[t] = "idle"
  /\ Answer(t, "start") \/ Answer(t, "stop")
  /\ UNCHANGED live

Spawn(t) ==
  /\ phase[t] = "start"
  /\ live = {}
  /\ \E p \in Pid : live' = {p}
  /\ Answer(t, "Started")

Refuse(t) ==
  /\ phase[t] = "start"
  /\ live # {}
  /\ Answer(t, "AlreadyRunning")
  /\ UNCHANGED live

Fail(t) ==
  /\ phase[t] = "start"
  /\ live = {}
  /\ Answer(t, "SpawnFailed")
  /\ UNCHANGED live

Stopped(t) ==
  /\ phase[t] = "stop"
  /\ live = {}
  /\ Answer(t, "Stopped")
  /\ UNCHANGED live

Return(t) ==
  /\ phase[t] \in Outcomes
  /\ Answer(t, "idle")
  /\ UNCHANGED live

Die ==
  /\ live # {}
  /\ live' = {}
  /\ UNCHANGED phase

(* The helper goes away; every call it had not answered is forgotten.      *)
Abandon ==
  /\ phase' = [t \in Task |-> "idle"]
  /\ UNCHANGED live

Next ==
  \/ \E t \in Task : Invoke(t) \/ Spawn(t) \/ Refuse(t) \/ Fail(t)
                       \/ Stopped(t) \/ Return(t)
  \/ Die
  \/ Abandon

Spec == Init /\ [][Next]_vars
=============================================================================
