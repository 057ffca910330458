------------------------------ MODULE DnsLinux ------------------------------
(***************************************************************************)
(* set_dns() and clear_dns() of src/src/service/dns_linux.rs, called by    *)
(* tasks that nothing serialises.  A request asks for the interface of the *)
(* default route and changes the settings of that interface, which is the  *)
(* one of another network as soon as the route moves.                      *)
(*                                                                         *)
(* No caller is compiled on Linux: ServerNext is what the server does with *)
(* the two commands instead.                                               *)
(***************************************************************************)
CONSTANTS Task, Iface, NoRoute

ASSUME DnsLinuxAssumption == NoRoute \notin Iface

Done == [SetDns |-> "DnsSet", ClearDns |-> "DnsCleared"]

VARIABLES
  route,     \* the interface of the default route
  servers,   \* interfaces whose resolver is set to the given servers
  domain,    \* interfaces with the routing domain "~."
  stale,     \* the cache may hold answers of an earlier setting
  task,      \* task[t]: the request of task t and its local variables
  overlap,   \* overlap[t]: it has not run alone (history)
  unflushed, \* a request has ended without flushing its change (history)
  moved      \* the route has changed under a request or a setting (history)

settings == <<servers, domain, stale>>
history  == <<overlap, unflushed, moved>>
vars == <<route, settings, task, history>>

Idle == [at |-> "idle", op |-> "ClearDns", iface |-> NoRoute, reply |-> "none"]

Active(t) == task[t].at \notin {"idle", "done"}
Dirty == servers \cup domain

TaskState == [at : {"idle", "route", "apply", "domain", "flush", "done"},
              op : {"SetDns", "ClearDns"}, iface : Iface \cup {NoRoute},
              reply : {"none", "DnsSet", "DnsCleared", "Internal"}]

TypeOK ==
  /\ route \in Iface \cup {NoRoute}
  /\ servers \subseteq Iface /\ domain \subseteq Iface /\ stale \in BOOLEAN
  /\ task \in [Task -> TaskState]
  /\ \A t \in Task : task[t].at \in {"apply", "domain", "flush"}
                       => task[t].iface \in Iface
  /\ overlap \in [Task -> BOOLEAN] /\ unflushed \in BOOLEAN /\ moved \in BOOLEAN

Init ==
  /\ route \in Iface
  /\ servers = {} /\ domain = {} /\ stale = FALSE
  /\ task = [t \in Task |-> Idle]
  /\ overlap = [t \in Task |-> FALSE] /\ unflushed = FALSE /\ moved = FALSE

-----------------------------------------------------------------------------
Goto(t, place) == task' = [task EXCEPT ![t].at = place]
Finish(t, res) == task' = [task EXCEPT ![t].at = "done", ![t].reply = res]

Call(t, o) ==
  /\ task[t].at = "idle"
  /\ task' = [task EXCEPT ![t] = [Idle EXCEPT !.at = "route", !.op = o]]
  /\ overlap' = [u \in Task |-> IF u = t THEN \E w \in Task : Active(w)
                                ELSE overlap[u] \/ task[u].at # "idle"]
  /\ UNCHANGED <<route, settings, unflushed, moved>>

DefaultIfaceUnchecked(t) ==
  /\ task[t].at = "route"
  /\ task' = [task EXCEPT ![t].at = "apply", ![t].iface = route]
  /\ UNCHANGED <<route, settings, history>>

(* default_iface(): the "dev" of `ip route get`.                           *)
DefaultIface(t) ==
  /\ task[t].at = "route"
  /\ route # NoRoute
  /\ task' = [task EXCEPT ![t].at = "apply", ![t].iface = route]
  /\ UNCHANGED <<route, settings, history>>

RefuseUnnoticed(t) ==
  /\ task[t].at = "apply"
  /\ Goto(t, "flush")
  /\ UNCHANGED <<route, settings, history>>

(* No servers were given, there is no route, or a command fails before it  *)
(* has changed anything.                                                   *)
Refuse(t) ==
  /\ task[t].at \in {"route", "apply"}
  /\ Finish(t, "Internal")
  /\ UNCHANGED <<route, settings, history>>

(* resolvectl dns                                                          *)
SetServers(t) ==
  /\ task[t].at = "apply" /\ task[t].op = "SetDns"
  /\ servers' = servers \cup {task[t].iface}
  /\ stale' = TRUE
  /\ Goto(t, "domain")
  /\ UNCHANGED <<route, domain, history>>

(* resolvectl domain: its failure is a warning.                            *)
SetDomain(t) ==
  /\ task[t].at = "domain"
  /\ \/ domain' = domain \cup {task[t].iface} /\ stale' = TRUE
     \/ UNCHANGED <<domain, stale>>
  /\ Goto(t, "flush")
  /\ UNCHANGED <<route, servers, history>>

RevertServersOnly(t) ==
  /\ task[t].at = "apply" /\ task[t].op = "ClearDns"
  /\ servers' = servers \ {task[t].iface}
  /\ stale' = TRUE
  /\ Goto(t, "flush")
  /\ UNCHANGED <<route, domain, history>>

RevertUnflushed(t) ==
  /\ task[t].at = "apply" /\ task[t].op = "ClearDns"
  /\ servers' = servers \ {task[t].iface}
  /\ domain' = domain \ {task[t].iface}
  /\ stale' = TRUE
  /\ Finish(t, "DnsCleared")
  /\ UNCHANGED <<route, history>>

(* resolvectl revert                                                       *)
Revert(t) ==
  /\ task[t].at = "apply" /\ task[t].op = "ClearDns"
  /\ servers' = servers \ {task[t].iface}
  /\ domain' = domain \ {task[t].iface}
  /\ stale' = TRUE
  /\ Goto(t, "flush")
  /\ UNCHANGED <<route, history>>

FlushCache(t) ==
  /\ task[t].at = "flush"
  /\ stale' = FALSE
  /\ Finish(t, Done[task[t].op])
  /\ UNCHANGED <<route, servers, domain, history>>

(* A flush that exits with an error is a warning; a command that cannot be *)
(* spawned ends the request where it is.                                   *)
Unflushed(t) ==
  /\ \/ task[t].at = "flush" /\ Finish(t, Done[task[t].op])
     \/ task[t].at \in {"domain", "flush"} /\ Finish(t, "Internal")
  /\ unflushed' = TRUE
  /\ UNCHANGED <<route, settings, overlap, moved>>

Forget(t) ==
  /\ task[t].at = "done"
  /\ task' = [task EXCEPT ![t] = Idle]
  /\ UNCHANGED <<route, settings, history>>

(* Another network, or none, takes over.                                   *)
RouteMoves ==
  /\ route' \in (Iface \cup {NoRoute}) \ {route}
  /\ moved' = (moved \/ Dirty # {} \/ \E t \in Task : Active(t))
  /\ UNCHANGED <<settings, task, overlap, unflushed>>

Next ==
  \/ \E t \in Task : \/ Call(t, "SetDns") \/ Call(t, "ClearDns")
                     \/ DefaultIface(t) \/ Refuse(t) \/ SetServers(t)
                     \/ SetDomain(t) \/ Revert(t) \/ FlushCache(t)
                     \/ Unflushed(t) \/ Forget(t)
  \/ RouteMoves

Spec == Init /\ [][Next]_vars

(* server.rs where the target is not macOS: the answer without the call.   *)
Answer(t, o) ==
  /\ task[t].at = "idle"
  /\ task' = [task EXCEPT ![t] = [Idle EXCEPT !.at = "done", !.op = o,
                                              !.reply = Done[o]]]
  /\ UNCHANGED <<route, settings, history>>

ServerNext ==
  \/ \E t \in Task : Answer(t, "SetDns") \/ Answer(t, "ClearDns") \/ Forget(t)
  \/ RouteMoves

ServerSpec == Init /\ [][ServerNext]_vars

-----------------------------------------------------------------------------
(* Properties.                                                             *)

(* When no request runs, the cache holds no answers of an earlier setting, *)
(* unless a flush failed or a request ended between change and flush       *)
(* (dns_linux.rs:126-128).                                                 *)
QuietMeansFresh ==
  (\A t \in Task : ~Active(t)) /\ ~unflushed => ~stale

(* A SetDns that ran alone and answers DnsSet has set the servers on the   *)
(* interface it found the default route on (dns_linux.rs:65), and they are *)
(* still there, wherever the route has gone since.  As long as the route   *)
(* has not moved under a request or a setting, that is the interface of    *)
(* the route, and no earlier request has left servers on another.          *)
SetTakesEffect ==
  \A t \in Task : task[t].reply = "DnsSet" /\ ~overlap[t] =>
    /\ task[t].iface \in servers
    /\ ~moved => servers = {route}

(* A ClearDns that ran alone and succeeded leaves nothing of any earlier   *)
(* request, complete, failed half-way or interleaved, as long as the route *)
(* has not moved (dns_linux.rs:106 "revert clears the DNS and domain we    *)
(* set").                                                                  *)
ClearUndoesAll ==
  \A t \in Task : task[t].reply = "DnsCleared" /\ ~overlap[t] /\ ~moved
    => Dirty = {}

(* Where a task is in terms of DnsSetting.                                 *)
Phase(place) ==
  [idle |-> "idle", route |-> "asked", apply |-> "changing",
   domain |-> "changing", flush |-> "changing", done |-> "done"][place]

Setting == INSTANCE DnsSetting WITH
  Place   <- Iface,
  setting <- [i \in Iface |-> IF i \in servers THEN "servers" ELSE "dhcp"],
  request <- [t \in Task |->
    [at |-> Phase(task[t].at), op |-> task[t].op, reply |-> task[t].reply,
     todo |-> IF task[t].at = "apply" THEN {task[t].iface} ELSE {}]]

(* Whatever runs besides it and wherever the route goes, a request changes *)
(* the servers of the one interface it has found and of no other, once, and *)
(* succeeds only if it has done so (dns_linux.rs:65, dns_linux.rs:106).    *)
SettingSpec == Setting!Spec

(* DnsSet means that the servers are set somewhere (mod.rs:19 "server.rs   *)
(* Command::SetDns / ClearDns" call these functions), if nothing interfered. *)
DnsSetMeansServers ==
  \A t \in Task : task[t].reply = "DnsSet" /\ ~overlap[t] => servers # {}
=============================================================================
