------------------------------- MODULE DnsMac -------------------------------
(***************************************************************************)
(* set_dns() and clear_dns() of src/src/service/dns_macos.rs, called by    *)
(* connection tasks that nothing serialises.  A request takes a list of    *)
(* the enabled network services, runs one networksetup per service in the  *)
(* order of the list, and flushes two caches.  Between any two of these    *)
(* commands other requests, the user and the end of the helper may come.   *)
(***************************************************************************)
EXTENDS Naturals

CONSTANTS
  Task,        \* connection tasks that run a DNS request
  Hanging,     \* those whose commands may hang: none has a timeout
  NumServices  \* network services, numbered in the order they are listed

ASSUME DnsMacAssumption == NumServices \in Nat /\ Hanging \subseteq Task

Service == 1..NumServices
Caches  == {"DirectoryService", "mDNSResponder"}
Done    == [SetDns |-> "DnsSet",  ClearDns |-> "DnsCleared"]
Target  == [SetDns |-> "servers", ClearDns |-> "dhcp"]

VARIABLES
  dns,       \* dns[s]: the resolver that service s is set to
  stale,     \* the caches that may hold answers of an earlier setting
  task,      \* task[t]: the request of task t and its local variables
  overlap,   \* overlap[t]: it has not run alone (history)
  unflushed  \* a flush has failed, or the helper has ended (history)

settings == <<dns, stale>>
vars == <<settings, task, overlap, unflushed>>

Idle == [at |-> "idle", op |-> "ClearDns", services |-> {}, todo |-> {},
         failed |-> {}, reply |-> "none"]

Request ==
  [at : {"idle", "list", "set", "hup", "done", "orphan"},
   op : {"SetDns", "ClearDns"}, services : SUBSET Service,
   todo : SUBSET Service, failed : SUBSET Service,
   reply : {"none", "DnsSet", "DnsCleared", "Internal"}]

TypeOK ==
  /\ dns \in [Service -> {"dhcp", "servers"}]
  /\ stale \subseteq Caches
  /\ task \in [Task -> Request]
  /\ \A t \in Task : /\ task[t].failed \cup task[t].todo \subseteq task[t].services
                     /\ task[t].failed \cap task[t].todo = {}
  /\ overlap \in [Task -> BOOLEAN] /\ unflushed \in BOOLEAN

Init ==
  /\ dns = [s \in Service |-> "dhcp"]
  /\ stale = {}
  /\ task = [t \in Task |-> Idle]
  /\ overlap = [t \in Task |-> FALSE]
  /\ unflushed = FALSE

-----------------------------------------------------------------------------
Finish(t, res) == task' = [task EXCEPT ![t].at = "done", ![t].reply = res]

(* The service whose turn it is; the loop goes on when it has been set or, *)
(* with a note in errors, when its command failed.                         *)
Turn(t, s) == s \in task[t].todo /\ \A r \in task[t].todo : s <= r
InLoopInTurn(t) == /\ task[t].at = "set" /\ task[t].todo # {}
                   /\ \A u \in Task : task[u].at # "hup"
InLoop(t) == task[t].at = "set" /\ task[t].todo # {}
AfterLoop(t) == task[t].at = "set" /\ task[t].todo = {}

ResultIgnoresErrors(t) == Done[task[t].op]

Result(t) == IF task[t].failed = {} THEN Done[task[t].op] ELSE "Internal"

Active(t) == task[t].at \notin {"idle", "done"}

Call(t, o) ==
  /\ task[t].at = "idle"
  /\ task' = [task EXCEPT ![t] = [Idle EXCEPT !.at = "list", !.op = o]]
  /\ overlap' = [u \in Task |-> IF u = t THEN \E w \in Task : Active(w)
                                ELSE overlap[u] \/ task[u].at # "idle"]
  /\ UNCHANGED <<settings, unflushed>>

(* The user enables and disables services at will.                         *)
ListServices(t) ==
  /\ task[t].at = "list"
  /\ \E enabled \in SUBSET Service :
       task' = [task EXCEPT ![t].at = "set", ![t].services = enabled,
                            ![t].todo = enabled]
  /\ UNCHANGED <<settings, overlap, unflushed>>

(* No servers were given, or the list cannot be had.                       *)
Refuse(t) ==
  /\ task[t].at = "list"
  /\ Finish(t, "Internal")
  /\ UNCHANGED <<settings, overlap, unflushed>>

(* networksetup -setdnsservers takes effect.                               *)
Apply(t, s) ==
  /\ dns' = [dns EXCEPT ![s] = Target[task[t].op]]
  /\ stale' = Caches

SetService(t) ==
  /\ InLoop(t)
  /\ \E s \in Service :
       /\ Turn(t, s)
       /\ Apply(t, s)
       /\ task' = [task EXCEPT ![t].todo = @ \ {s}]
  /\ UNCHANGED <<overlap, unflushed>>

SetServiceAborts(t) ==
  /\ InLoop(t)
  /\ Finish(t, "Internal")
  /\ UNCHANGED <<settings, overlap, unflushed>>

SetServiceUnnoticed(t) ==
  /\ InLoop(t)
  /\ \E s \in Service :
       Turn(t, s) /\ task' = [task EXCEPT ![t].todo = @ \ {s}]
  /\ UNCHANGED <<settings, overlap, unflushed>>

SetServiceRetried(t) ==
  /\ InLoop(t)
  /\ \E s \in Service :
       Turn(t, s) /\ task' = [task EXCEPT ![t].failed = @ \cup {s}]
  /\ UNCHANGED <<settings, overlap, unflushed>>

SetServiceFails(t) ==
  /\ InLoop(t)
  /\ \E s \in Service :
       /\ Turn(t, s)
       /\ task' = [task EXCEPT ![t].todo = @ \ {s}, ![t].failed = @ \cup {s}]
  /\ UNCHANGED <<settings, overlap, unflushed>>

(* flush_cache(): dscacheutil, then killall -HUP mDNSResponder.            *)
FlushDirectoryService(t) ==
  /\ AfterLoop(t)
  /\ stale' = stale \ {"DirectoryService"}
  /\ task' = [task EXCEPT ![t].at = "hup"]
  /\ UNCHANGED <<dns, overlap, unflushed>>

FlushResponder(t) ==
  /\ task[t].at = "hup"
  /\ stale' = stale \ {"mDNSResponder"}
  /\ Finish(t, Result(t))
  /\ UNCHANGED <<dns, overlap, unflushed>>

(* An exit status is ignored; a command that cannot be spawned ends the    *)
(* request with its own error, which hides those of the loop.              *)
FlushFails(t) ==
  /\ \/ AfterLoop(t) /\ task' = [task EXCEPT ![t].at = "hup"]
     \/ task[t].at = "hup" /\ Finish(t, Result(t))
     \/ (AfterLoop(t) \/ task[t].at = "hup") /\ Finish(t, "Internal")
  /\ unflushed' = TRUE
  /\ UNCHANGED <<settings, overlap>>

Forget(t) ==
  /\ task[t].at = "done"
  /\ task' = [task EXCEPT ![t] = Idle]
  /\ UNCHANGED <<settings, overlap, unflushed>>

-----------------------------------------------------------------------------
(* The helper ends and takes its tasks along; a networksetup that runs     *)
(* goes on without it (kill_on_drop is not set).                           *)
HelperEnds ==
  /\ task' = [t \in Task |->
       IF InLoop(t) THEN [task[t] EXCEPT !.at = "orphan"]
       ELSE IF task[t].at = "orphan" THEN task[t] ELSE Idle]
  /\ unflushed' = TRUE
  /\ UNCHANGED <<settings, overlap>>

OrphanEnds(t) ==
  /\ task[t].at = "orphan"
  /\ \/ \E s \in Service : Turn(t, s) /\ Apply(t, s)
     \/ UNCHANGED settings
  /\ task' = [task EXCEPT ![t] = Idle]
  /\ UNCHANGED <<overlap, unflushed>>

Step(t) ==
  \/ ListServices(t) \/ Refuse(t) \/ SetService(t) \/ SetServiceFails(t)
  \/ FlushDirectoryService(t) \/ FlushResponder(t) \/ FlushFails(t)

Next ==
  \/ \E t \in Task : \/ Call(t, "SetDns") \/ Call(t, "ClearDns")
                     \/ Step(t) \/ Forget(t) \/ OrphanEnds(t)
  \/ HelperEnds

Spec == Init /\ [][Next]_vars

(* A command that does not hang ends, and its task is polled.              *)
FairSpec == Spec /\ \A t \in Task \ Hanging : WF_vars(Step(t))

-----------------------------------------------------------------------------
(* Properties.                                                             *)

(* When no request runs, no cache holds answers of an earlier setting      *)
(* (dns_macos.rs:16 "after either, we flush"): a request flushes after its *)
(* last change although services failed and other requests changed and     *)
(* flushed in between.  Not promised once a flush has failed, or the       *)
(* helper has ended.                                                       *)
QuietMeansFresh ==
  (\A t \in Task : task[t].at \in {"idle", "done"}) /\ ~unflushed
    => stale = {}

(* A request that ran alone has set every service on its list but those    *)
(* that failed, and a success leaves none out, whatever the user enabled   *)
(* or disabled meanwhile.                                                  *)
SoloRequestIsComplete ==
  \A t \in Task : task[t].at \in {"hup", "done"} /\ ~overlap[t] =>
    /\ \A s \in task[t].services \ task[t].failed :
         dns[s] = Target[task[t].op]
    /\ task[t].reply = Done[task[t].op] => task[t].failed = {}

(* A command that hangs (there is no timeout) keeps its own request        *)
(* waiting and no other: every other request ends, or the helper does.     *)
HangDoesNotSpread ==
  \A t \in Task \ Hanging :
    task[t].at = "list" ~> task[t].at \in {"idle", "done", "orphan"}

(* Where a task is in terms of DnsSetting.                                  *)
Phase(place) ==
  [idle |-> "idle", list |-> "asked", set |-> "changing", hup |-> "changing",
   done |-> "done", orphan |-> "late"][place]

Setting == INSTANCE DnsSetting WITH
  Place   <- Service,
  setting <- dns,
  request <- [t \in Task |->
    [at |-> Phase(task[t].at), op |-> task[t].op, reply |-> task[t].reply,
     todo |-> IF task[t].at = "done" THEN {}
              ELSE task[t].todo \cup task[t].failed]]

(* Whatever runs besides it, a request changes the services it has listed  *)
(* and no others, each at most once, and succeeds only if it has changed   *)
(* them all (dns_macos.rs:9-14); flushes and failures change nothing.      *)
SettingSpec == Setting!Spec

(* Requests that all succeeded on the same services leave them all with    *)
(* the servers or all without (dns_macos.rs:67 "Set DNS for every enabled  *)
(* service", dns_macos.rs:102 "Revert every enabled service").             *)
SuccessfulRequestsAgree ==
  (\A t, u \in Task : /\ task[t].at = "done"
                      /\ task[t].reply = Done[task[t].op]
                      /\ task[t].services = task[u].services)
    => \A t \in Task : \A r, s \in task[t].services : dns[r] = dns[s]
=============================================================================
