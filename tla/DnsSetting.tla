----------------------------- MODULE DnsSetting -----------------------------
(***************************************************************************)
(* What set_dns() and clear_dns() promise on either system, whatever       *)
(* commands they are made of: a request chooses the places it is to change *)
(* once, changes those and no others, each at most once, and answers with  *)
(* a success only after it has itself changed them all.  A helper that     *)
(* ends may leave one last change of each request behind.                  *)
(*                                                                         *)
(* DnsMac and DnsLinux implement this specification (SettingSpec there).   *)
(***************************************************************************)
CONSTANTS
  Task,   \* the tasks that run a request
  Place   \* what has a resolver: a network service, an interface

VARIABLES
  setting,  \* setting[p]: the resolver of place p
  request   \* request[t]: the request of task t

vars == <<setting, request>>

Done   == [SetDns |-> "DnsSet",  ClearDns |-> "DnsCleared"]
Target == [SetDns |-> "servers", ClearDns |-> "dhcp"]

Idle == [at |-> "idle", op |-> "ClearDns", todo |-> {}, reply |-> "none"]

Init ==
  /\ setting = [p \in Place |-> "dhcp"]
  /\ request = [t \in Task |-> Idle]

Become(t, place, o, places, answer) ==
  request' = [request EXCEPT
    ![t] = [at |-> place, op |-> o, todo |-> places, reply |-> answer]]

Call(t) ==
  /\ request[t].at = "idle"
  /\ \E o \in {"SetDns", "ClearDns"} : Become(t, "asked", o, {}, "none")
  /\ UNCHANGED setting

Choose(t) ==
  /\ request[t].at = "asked"
  /\ \E places \in SUBSET Place :
       Become(t, "changing", request[t].op, places, "none")
  /\ UNCHANGED setting

Apply(t, p) ==
  /\ p \in request[t].todo
  /\ setting' = [setting EXCEPT ![p] = Target[request[t].op]]

Change(t, p) ==
  /\ request[t].at = "changing"
  /\ Apply(t, p)
  /\ Become(t, "changing", request[t].op, request[t].todo \ {p}, "none")

Succeed(t) ==
  /\ request[t].at = "changing" /\ request[t].todo = {}
  /\ Become(t, "done", request[t].op, {}, Done[request[t].op])
  /\ UNCHANGED setting

Fail(t) ==
  /\ request[t].at \in {"asked", "changing"}
  /\ Become(t, "done", request[t].op, {}, "Internal")
  /\ UNCHANGED setting

Forget(t) ==
  /\ request[t].at = "done"
  /\ Become(t, "idle", "ClearDns", {}, "none")
  /\ UNCHANGED setting

HelperEnds ==
  /\ \E late \in SUBSET {t \in Task : request[t].at \in {"changing", "late"}} :
       request' = [t \in Task |->
         IF t \in late
         THEN [at |-> "late", op |-> request[t].op, todo |-> request[t].todo,
               reply |-> "none"]
         ELSE Idle]
  /\ UNCHANGED setting

LateChange(t) ==
  /\ request[t].at = "late"
  /\ UNCHANGED setting \/ \E p \in Place : Apply(t, p)
  /\ Become(t, "idle", "ClearDns", {}, "none")

Next ==
  \/ \E t \in Task : \/ Call(t) \/ Choose(t) \/ Succeed(t) \/ Fail(t)
                     \/ Forget(t) \/ LateChange(t)
                     \/ \E p \in Place : Change(t, p)
  \/ HelperEnds

Spec == Init /\ [][Next]_vars
=============================================================================
