---------------------------- MODULE DnsMacProofs ----------------------------
(***************************************************************************)
(* The safety properties of DnsMac hold for any number of requests and of  *)
(* network services.                                                       *)
(***************************************************************************)
EXTENDS DnsMac, TLAPS

(* A cache is only ever stale while a request is on its way to flush it;   *)
(* a command is orphaned only by the end of the helper.                    *)
FlushInv ==
  ~unflushed =>
    /\ "DirectoryService" \in stale => \E t \in Task : task[t].at = "set"
    /\ "mDNSResponder" \in stale =>
         \E t \in Task : task[t].at \in {"set", "hup"}
    /\ \A t \in Task : task[t].at # "orphan"

(* What a request keeps in its local variables.                            *)
LocalInv(t) ==
  /\ task[t].at = "list" => task[t].services = {}
  /\ task[t].at \in {"hup", "done"} => task[t].todo = {}
  /\ task[t].at # "done" => task[t].reply = "none"
  /\ task[t].reply = Done[task[t].op] => task[t].failed = {}

(* While a request runs alone no other is active, and the services it has  *)
(* been through are as it set them.                                        *)
SoloInv(t) ==
  task[t].at # "idle" /\ ~overlap[t] =>
    /\ \A u \in Task \ {t} : ~Active(u)
    /\ \A s \in task[t].services \ (task[t].failed \cup task[t].todo) :
         dns[s] = Target[task[t].op]

Inv == TypeOK /\ FlushInv /\ \A t \in Task : LocalInv(t) /\ SoloInv(t)

-----------------------------------------------------------------------------
Calls(t) == Call(t, "SetDns") \/ Call(t, "ClearDns")

(* A call starts from a clean record.                                      *)
LEMMA Called ==
  ASSUME TypeOK, NEW t \in Task, Calls(t)
  PROVE  /\ task[t].at = "idle" /\ UNCHANGED <<settings, unflushed>>
         /\ overlap' \in [Task -> BOOLEAN]
         /\ ~overlap'[t] => \A w \in Task : ~Active(w)
         /\ \A u \in Task \ {t} : ~overlap'[u] => task[u].at = "idle"
         /\ \A u \in Task \ {t} : task'[u] = task[u]
         /\ task' \in [Task -> Request]
         /\ task'[t].at = "list" /\ task'[t].services = {}
         /\ task'[t].failed = {} /\ task'[t].todo = {}
         /\ task'[t].reply = "none"
<1>1. PICK o \in {"SetDns", "ClearDns"} : Call(t, o)
  BY DEF Calls
<1>2. DEFINE r == [Idle EXCEPT !.at = "list", !.op = o]
<1>3. /\ r \in Request /\ r.at = "list" /\ r.services = {} /\ r.failed = {}
      /\ r.todo = {} /\ r.reply = "none"
  BY DEF Idle, Request
<1>4. task' = [task EXCEPT ![t] = r]
  BY <1>1 DEF Call
<1>5. task' \in [Task -> Request] /\ task'[t] = r
      /\ \A u \in Task \ {t} : task'[u] = task[u]
  <2> HIDE DEF r
  <2> QED BY <1>3, <1>4 DEF TypeOK
<1>6. overlap' = [u \in Task |-> IF u = t THEN \E w \in Task : Active(w)
                              ELSE overlap[u] \/ task[u].at # "idle"]
  BY <1>1 DEF Call
<1>7. \A u \in Task : overlap'[u] = IF u = t THEN \E w \in Task : Active(w)
                                  ELSE overlap[u] \/ task[u].at # "idle"
  BY <1>6, Zenon
<1>8. overlap' \in [Task -> BOOLEAN]
  <2>1. \A u \in Task : (IF u = t THEN \E w \in Task : Active(w)
                       ELSE overlap[u] \/ task[u].at # "idle") \in BOOLEAN
    BY Zenon
  <2>2. QED BY <1>6, <2>1, Zenon
<1>9. ~overlap'[t] => \A w \in Task : ~Active(w)
  BY <1>7, Zenon
<1>10. \A u \in Task \ {t} : ~overlap'[u] => task[u].at = "idle"
  BY <1>7, Zenon
<1>11. task[t].at = "idle" /\ UNCHANGED <<settings, unflushed>>
  BY <1>1 DEF Call
<1> QED
  BY <1>3, <1>5, <1>8, <1>9, <1>10, <1>11

(* Every step of a task changes the record of that task only.              *)
LEMMA Locally ==
  ASSUME TypeOK, NEW t \in Task, LocalInv(t),
         Step(t) \/ Forget(t) \/ OrphanEnds(t) \/ Calls(t)
  PROVE  /\ \A u \in Task \ {t} : task'[u] = task[u]
         /\ task' \in [Task -> Request]
         /\ task'[t].failed \cup task'[t].todo \subseteq task'[t].services
         /\ task'[t].failed \cap task'[t].todo = {}
<1> USE DEF TypeOK, Request, Idle
<1>1. CASE Forget(t) \/ OrphanEnds(t)
  BY <1>1 DEF Forget, OrphanEnds
<1>7. CASE Calls(t)
  BY <1>7, Called
<1>2. CASE ListServices(t)
  <2>1. PICK enabled \in SUBSET Service :
          task' = [task EXCEPT ![t].at = "set", ![t].services = enabled,
                               ![t].todo = enabled]
    BY <1>2 DEF ListServices
  <2>2. task[t].failed = {}
    BY <1>2 DEF ListServices, LocalInv
  <2>3. task' = [task EXCEPT ![t] = [task[t] EXCEPT
                   !.at = "set", !.services = enabled, !.todo = enabled]]
    BY <2>1
  <2>4. DEFINE r == [task[t] EXCEPT
                   !.at = "set", !.services = enabled, !.todo = enabled]
  <2>5. r \in Request /\ r.services = enabled /\ r.todo = enabled
        /\ r.failed = {}
    BY <2>1, <2>2
  <2>6. task' = [task EXCEPT ![t] = r]
    BY <2>3
  <2>7. HIDE DEF r
  <2>8. QED BY <2>5, <2>6
<1>3. CASE SetService(t)
  BY <1>3 DEF SetService, Turn
<1>4. CASE SetServiceFails(t)
  BY <1>4 DEF SetServiceFails, Turn
<1>5. CASE FlushDirectoryService(t)
  BY <1>5 DEF FlushDirectoryService
<1>6. CASE Refuse(t) \/ FlushResponder(t) \/ FlushFails(t)
  <2>1. Result(t) \in {"DnsSet", "DnsCleared", "Internal"}
    BY DEF Result, Done
  <2>2. \/ task' = [task EXCEPT ![t].at = "hup"]
        \/ Finish(t, Result(t)) \/ Finish(t, "Internal")
    BY <1>6 DEF Refuse, FlushResponder, FlushFails
  <2>3. CASE task' = [task EXCEPT ![t].at = "hup"]
    BY <2>3
  <2>4. ASSUME NEW res \in {"DnsSet", "DnsCleared", "Internal"},
               Finish(t, res)
        PROVE  /\ \A u \in Task \ {t} : task'[u] = task[u]
               /\ task' \in [Task -> Request]
               /\ task'[t].failed = task[t].failed
               /\ task'[t].todo = task[t].todo
               /\ task'[t].services = task[t].services
    <3>1. DEFINE r == [task[t] EXCEPT !.at = "done", !.reply = res]
    <3>2. task' = [task EXCEPT ![t] = r]
      BY <2>4 DEF Finish
    <3>3. /\ r \in Request /\ r.failed = task[t].failed
          /\ r.todo = task[t].todo /\ r.services = task[t].services
      BY <2>4
    <3>4. HIDE DEF r
    <3>5. QED BY <3>2, <3>3
  <2>5. QED BY <2>1, <2>2, <2>3, <2>4
<1> QED
  BY <1>1, <1>2, <1>3, <1>4, <1>5, <1>6, <1>7 DEF Step

LEMMA TypeStep ==
  TypeOK /\ (\A t \in Task : LocalInv(t)) /\ [Next]_vars => TypeOK'
<1> SUFFICES ASSUME TypeOK, \A t \in Task : LocalInv(t), [Next]_vars
             PROVE  TypeOK'
  OBVIOUS
<1>4. ASSUME NEW t \in Task, Calls(t) PROVE TypeOK'
  BY <1>4, Called, Locally DEF TypeOK, settings
<1>1. ASSUME NEW t \in Task, Step(t) \/ Forget(t) \/ OrphanEnds(t)
      PROVE  TypeOK'
  <2>1. overlap' = overlap /\ unflushed' \in BOOLEAN
    BY <1>1 DEF TypeOK, Step, Forget, OrphanEnds, ListServices, Refuse,
       SetService, SetServiceFails, FlushDirectoryService,
       FlushResponder, FlushFails
  <2>2. ASSUME NEW s \in Service, Apply(t, s)
        PROVE  dns' \in [Service -> {"dhcp", "servers"}] /\ stale' = Caches
    BY <2>2 DEF TypeOK, Request, Apply, Target
  <2>3. /\ dns' \in [Service -> {"dhcp", "servers"}]
        /\ stale' \subseteq Caches
    BY <1>1, <2>2 DEF TypeOK, Step, Forget, OrphanEnds, ListServices, Refuse,
       SetService, SetServiceFails, FlushDirectoryService,
       FlushResponder, FlushFails, settings
  <2>4. QED
    BY <1>1, <2>1, <2>3, Locally DEF TypeOK
<1>2. CASE HelperEnds
  BY <1>2 DEF HelperEnds, TypeOK, Request, Idle, settings
<1>3. CASE UNCHANGED vars
  BY <1>3 DEF vars, settings, TypeOK
<1> QED
  BY <1>1, <1>2, <1>3, <1>4 DEF Next, Calls

LEMMA FlushStep == TypeOK /\ FlushInv /\ [Next]_vars => FlushInv'
<1> SUFFICES ASSUME TypeOK, FlushInv, [Next]_vars, ~unflushed'
             PROVE  FlushInv'
  BY DEF FlushInv
<1> USE DEF TypeOK, Request, FlushInv
<1>1. ASSUME NEW t \in Task, SetService(t)
      PROVE  FlushInv'
  <2>1. task'[t].at = "set" /\ ~unflushed
        /\ \A u \in Task : task'[u].at = task[u].at
    BY <1>1 DEF SetService, InLoop
  <2>2. QED BY <2>1
<1>2. ASSUME NEW t \in Task, SetServiceFails(t)
      PROVE  FlushInv'
  <2>1. stale' = stale /\ ~unflushed
        /\ \A u \in Task : task'[u].at = task[u].at
    BY <1>2 DEF SetServiceFails, settings
  <2>2. QED BY <2>1
<1>9. ASSUME NEW t \in Task, Calls(t) PROVE FlushInv'
  <2>1. /\ UNCHANGED <<stale, unflushed>>
        /\ task[t].at = "idle" /\ task'[t].at = "list"
        /\ \A u \in Task \ {t} : task'[u] = task[u]
    BY <1>9, Called DEF settings
  <2> HIDE DEF TypeOK
  <2>2. QED BY <2>1
<1>3. ASSUME NEW t \in Task, Refuse(t) \/ ListServices(t) \/ Forget(t)
      PROVE  FlushInv'
  <2>1. /\ UNCHANGED <<stale, unflushed>>
        /\ task[t].at \in {"list", "done"} /\ task'[t].at # "orphan"
    <3>1. CASE ListServices(t)
      BY <3>1 DEF ListServices, settings
    <3>2. CASE Refuse(t) \/ Forget(t)
      BY <3>2 DEF Refuse, Forget, settings, Finish, Idle
    <3>3. QED BY <1>3, <3>1, <3>2
  <2>2. \A u \in Task \ {t} : task'[u] = task[u]
    BY <1>3 DEF Refuse, ListServices, Forget, Finish
  <2> HIDE DEF TypeOK
  <2>3. QED BY <2>1, <2>2
<1>4. ASSUME NEW t \in Task, FlushDirectoryService(t)
      PROVE  FlushInv'
  <2>1. /\ stale' = stale \ {"DirectoryService"} /\ ~unflushed
        /\ task'[t].at = "hup"
        /\ \A u \in Task \ {t} : task'[u].at = task[u].at
    BY <1>4 DEF FlushDirectoryService
  <2>2. QED BY <2>1
<1>5. ASSUME NEW t \in Task, FlushResponder(t)
      PROVE  FlushInv'
  <2>1. /\ stale' = stale \ {"mDNSResponder"} /\ ~unflushed
        /\ task[t].at = "hup" /\ task'[t].at = "done"
        /\ \A u \in Task \ {t} : task'[u].at = task[u].at
    BY <1>5 DEF FlushResponder, Finish
  <2>2. QED BY <2>1
<1>6. ASSUME NEW t \in Task, FlushFails(t) \/ OrphanEnds(t)
      PROVE  FALSE
  BY <1>6 DEF FlushFails, OrphanEnds
<1>7. CASE HelperEnds
  BY <1>7 DEF HelperEnds
<1>8. CASE UNCHANGED vars
  BY <1>8 DEF vars, settings
<1> QED
  BY <1>1, <1>2, <1>3, <1>4, <1>5, <1>6, <1>7, <1>8, <1>9
  DEF Next, Step, Calls

LEMMA LocalStep ==
  TypeOK /\ (\A t \in Task : LocalInv(t)) /\ [Next]_vars
    => \A t \in Task : LocalInv(t)'
<1> SUFFICES ASSUME TypeOK, \A t \in Task : LocalInv(t), [Next]_vars,
                    NEW u \in Task
             PROVE  LocalInv(u)'
  OBVIOUS
<1> USE DEF TypeOK, Request, Idle, LocalInv, Done
<1>1. CASE UNCHANGED task[u]
  BY <1>1
<1>2. CASE Forget(u) \/ OrphanEnds(u)
  BY <1>2 DEF Forget, OrphanEnds
<1>10. CASE Calls(u)
  BY <1>10, Called DEF Calls
<1>3. CASE ListServices(u)
  BY <1>3 DEF ListServices
<1>4. CASE SetService(u)
  BY <1>4 DEF SetService, InLoop
<1>5. CASE SetServiceFails(u)
  BY <1>5 DEF SetServiceFails, InLoop
<1>6. CASE FlushDirectoryService(u)
  BY <1>6 DEF FlushDirectoryService, AfterLoop
<1>7. CASE Refuse(u) \/ FlushResponder(u) \/ FlushFails(u)
  BY <1>7 DEF Refuse, FlushResponder, FlushFails, Finish, Result, AfterLoop
<1>8. CASE HelperEnds
  BY <1>8 DEF HelperEnds, InLoop
<1>9. CASE UNCHANGED vars
  BY <1>1, <1>9 DEF vars
<1> QED
  BY <1>1, <1>2, <1>3, <1>4, <1>5, <1>6, <1>7, <1>8, <1>9, <1>10, Locally
  DEF Next, Step, Calls

LEMMA SoloStep ==
  TypeOK /\ (\A t \in Task : LocalInv(t) /\ SoloInv(t)) /\ [Next]_vars
    => \A t \in Task : SoloInv(t)'
<1> SUFFICES ASSUME TypeOK, \A t \in Task : LocalInv(t) /\ SoloInv(t),
                    [Next]_vars, NEW u \in Task,
                    task'[u].at # "idle", ~overlap'[u]
             PROVE  SoloInv(u)'
  BY DEF SoloInv
<1> USE DEF TypeOK, Request, SoloInv, Active
<1>1. ASSUME NEW t \in Task, Calls(t)
      PROVE  SoloInv(u)'
  <2>1. u = t /\ \A w \in Task : ~Active(w)
    BY <1>1, Called
  <2>2. task'[t].services = {} /\ \A w \in Task \ {t} : task'[w] = task[w]
    BY <1>1, Called
  <2>3. QED BY <2>1, <2>2
<1>2. ASSUME NEW t \in Task, Step(t) \/ Forget(t) \/ OrphanEnds(t)
      PROVE  SoloInv(u)'
  <2>1. overlap' = overlap /\ \A w \in Task \ {t} : task'[w] = task[w]
    BY <1>2, Locally DEF Step, ListServices, Refuse, SetService,
       SetServiceFails, FlushDirectoryService, FlushResponder, FlushFails,
       Forget, OrphanEnds
  <2>2. u # t => ~Active(t) /\ task[u].at # "idle"
    BY <2>1
  <2>3. CASE u # t
    <3>1. Forget(t)
      BY <1>2, <2>2, <2>3 DEF Step, ListServices, Refuse, SetService,
         SetServiceFails, FlushDirectoryService, FlushResponder, FlushFails,
         OrphanEnds, InLoop, AfterLoop
    <3>2. dns' = dns /\ ~Active(t)'
      BY <3>1 DEF Forget, settings, Idle
    <3>3. QED BY <2>1, <2>3, <3>2
  <2>4. CASE u = t
    <3>1. task[u].at # "idle" /\ \A w \in Task \ {t} : ~Active(w)'
      BY <1>2, <2>1, <2>4 DEF Step, ListServices, Refuse, SetService,
         SetServiceFails, FlushDirectoryService, FlushResponder, FlushFails,
         Forget, OrphanEnds, InLoop, AfterLoop
    <3>2. \A s \in task[t].services \ (task[t].failed \cup task[t].todo) :
            dns[s] = Target[task[t].op]
      BY <2>1, <2>4, <3>1
    <3>3. CASE ListServices(t)
      BY <2>4, <3>1, <3>3 DEF ListServices
    <3>4. CASE SetService(t)
      <4>1. PICK s \in Service : /\ Turn(t, s) /\ Apply(t, s)
                 /\ task' = [task EXCEPT ![t].todo = @ \ {s}]
        BY <3>4 DEF SetService
      <4>2. QED BY <2>4, <3>1, <3>2, <4>1 DEF Apply
    <3>5. CASE SetServiceFails(t)
      BY <2>4, <3>1, <3>2, <3>5 DEF SetServiceFails, settings
    <3>6. CASE Refuse(t) \/ FlushDirectoryService(t) \/ FlushResponder(t)
               \/ FlushFails(t)
      BY <2>4, <3>1, <3>2, <3>6 DEF Refuse, FlushDirectoryService,
         FlushResponder, FlushFails, Finish, settings
    <3>7. CASE Forget(t) \/ OrphanEnds(t)
      BY <2>4, <3>7 DEF Forget, OrphanEnds, Idle
    <3> QED
      BY <1>2, <3>3, <3>4, <3>5, <3>6, <3>7 DEF Step
  <2> QED BY <2>3, <2>4
<1>3. CASE HelperEnds
  <2>1. \A w \in Task : Active(w)' => Active(w)
    BY <1>3 DEF HelperEnds, InLoop, Idle
  <2>2. /\ task[u].at # "idle"
        /\ task'[u] = task[u] \/ task'[u] = [task[u] EXCEPT !.at = "orphan"]
    BY <1>3 DEF HelperEnds, Idle, InLoop
  <2>3. QED BY <1>3, <2>1, <2>2 DEF HelperEnds, settings
<1>4. CASE UNCHANGED vars
  BY <1>4 DEF vars, settings
<1> QED
  BY <1>1, <1>2, <1>3, <1>4 DEF Next, Calls

LEMMA InvHolds == Spec => []Inv
<1>1. Init => Inv
  <2> SUFFICES ASSUME Init PROVE Inv
    OBVIOUS
  <2>1. TypeOK
    BY DEF Init, TypeOK, Request, Idle
  <2>2. \A t \in Task : task[t] = Idle
    BY DEF Init
  <2>3. FlushInv /\ \A t \in Task : LocalInv(t) /\ SoloInv(t)
    BY <2>2 DEF Init, Idle, FlushInv, LocalInv, SoloInv, Done
  <2>4. QED BY <2>1, <2>3 DEF Inv
<1>2. Inv /\ [Next]_vars => Inv'
  BY TypeStep, FlushStep, LocalStep, SoloStep DEF Inv
<1> QED
  BY <1>1, <1>2, PTL DEF Spec

-----------------------------------------------------------------------------
(* The state stays well-typed: a service of the list is still to do, has   *)
(* failed or has been set, never two of them.                              *)
THEOREM TypeCorrect == Spec => []TypeOK
<1>1. Inv => TypeOK
  BY DEF Inv
<1> QED
  BY <1>1, InvHolds, PTL

(* However many requests interleave over however many services, no cache   *)
(* holds answers of an earlier setting once they are over.                 *)
THEOREM FreshWhenQuiet == Spec => []QuietMeansFresh
<1>1. Inv => QuietMeansFresh
  BY DEF Inv, QuietMeansFresh, FlushInv, TypeOK, Caches
<1> QED
  BY <1>1, InvHolds, PTL

(* A request that ran alone has set every service it does not report.      *)
THEOREM SoloComplete == Spec => []SoloRequestIsComplete
<1>1. Inv => SoloRequestIsComplete
  BY DEF Inv, SoloRequestIsComplete, SoloInv, LocalInv
<1> QED
  BY <1>1, InvHolds, PTL

-----------------------------------------------------------------------------
(* The refinement: every step is one of DnsSetting, or none.               *)

Seen(t) ==
  [at |-> Phase(task[t].at), op |-> task[t].op, reply |-> task[t].reply,
   todo |-> IF task[t].at = "done" THEN {}
            ELSE task[t].todo \cup task[t].failed]

Seens == [t \in Task |-> Seen(t)]

LEMMA PhaseIs ==
  /\ Phase("idle") = "idle" /\ Phase("list") = "asked"
  /\ Phase("set") = "changing" /\ Phase("hup") = "changing"
  /\ Phase("done") = "done" /\ Phase("orphan") = "late"
  BY DEF Phase

(* A step of a task is seen in its own request only.                       *)
LEMMA SeenLocally ==
  ASSUME TypeOK, NEW t \in Task, LocalInv(t),
         Step(t) \/ Forget(t) \/ OrphanEnds(t) \/ Calls(t)
  PROVE  Seens' = [Seens EXCEPT ![t] = Seen(t)'] /\ Seens[t] = Seen(t)
<1>1. \A u \in Task \ {t} : Seen(u)' = Seen(u)
  BY Locally DEF Seen
<1> QED
  BY <1>1 DEF Seens

LEMMA SettingStep ==
  ASSUME Inv, [Next]_vars
  PROVE  [Setting!Next]_(Setting!vars)
<1> DEFINE P == [Setting!Next]_(Setting!vars)
<1> USE DEF Inv
<1>1. ASSUME dns' = dns, Seens' = Seens PROVE P
  BY <1>1 DEF Setting!vars, Seens, Seen
(* The next record of a task, with the abstract action it is due to.       *)
<1>2. ASSUME NEW t \in Task, NEW place, NEW o, NEW places, NEW answer,
             Step(t) \/ Forget(t) \/ OrphanEnds(t) \/ Calls(t),
             Seen(t)' = [at |-> place, op |-> o, todo |-> places,
                         reply |-> answer]
      PROVE  Setting!Become(t, place, o, places, answer) /\ Seens[t] = Seen(t)
  BY <1>2, SeenLocally DEF Setting!Become, Seens, Seen
<1>3. ASSUME NEW t \in Task, NEW o \in {"SetDns", "ClearDns"}, Call(t, o)
      PROVE  P
  <2>1. task'[t] = [Idle EXCEPT !.at = "list", !.op = o]
    BY <1>3 DEF Call, TypeOK
  <2>2. Seen(t)' = [at |-> "asked", op |-> o, todo |-> {}, reply |-> "none"]
    BY <2>1, PhaseIs DEF Seen, Idle
  <2>3. Setting!Become(t, "asked", o, {}, "none") /\ Seens[t] = Seen(t)
    BY <1>2, <1>3, <2>2 DEF Calls
  <2>4. Seens[t].at = "idle" /\ dns' = dns
    BY <1>3, <2>3, PhaseIs DEF Call, Seen, settings
  <2>5. Setting!Call(t)
    BY <2>3, <2>4 DEF Setting!Call, Seens, Seen
  <2> QED
    BY <2>5 DEF Setting!Next
<1>4. ASSUME NEW t \in Task, ListServices(t) PROVE P
  <2>1. PICK enabled \in SUBSET Service :
          task' = [task EXCEPT ![t].at = "set", ![t].services = enabled,
                               ![t].todo = enabled]
    BY <1>4 DEF ListServices
  <2>2. /\ task[t].at = "list" /\ task[t].failed = {}
        /\ task[t].reply = "none" /\ dns' = dns
    BY <1>4 DEF ListServices, LocalInv, settings, TypeOK
  <2>3. Seen(t)' = [at |-> "changing", op |-> task[t].op, todo |-> enabled,
                    reply |-> "none"]
    BY <2>1, <2>2, PhaseIs DEF Seen, TypeOK, Request
  <2>4. Seens[t].at = "asked" /\ Seens[t].op = task[t].op
    BY <2>2, PhaseIs DEF Seens, Seen
  <2>5. Setting!Become(t, "changing", Seens[t].op, enabled, "none")
    BY <1>2, <1>4, <2>3, <2>4 DEF Step
  <2>6. Setting!Choose(t)
    BY <2>2, <2>4, <2>5 DEF Setting!Choose, Seens, Seen
  <2> QED
    BY <2>6 DEF Setting!Next
(* A service is set, or its turn passes without a change.                  *)
<1>5. ASSUME NEW t \in Task, SetService(t) PROVE P
  <2>1. PICK s \in Service :
          /\ Turn(t, s) /\ Apply(t, s)
          /\ task' = [task EXCEPT ![t].todo = @ \ {s}]
    BY <1>5 DEF SetService
  <2>2. /\ task[t].at = "set" /\ s \in task[t].todo /\ s \notin task[t].failed
        /\ task[t].reply = "none"
    BY <1>5, <2>1 DEF SetService, InLoop, Turn, TypeOK, LocalInv
  <2> DEFINE todo == task[t].todo \cup task[t].failed
  <2>3. Seen(t)' = [at |-> "changing", op |-> task[t].op,
                    todo |-> todo \ {s}, reply |-> "none"]
    BY <2>1, <2>2, PhaseIs DEF Seen, TypeOK, Request
  <2>4. /\ Seens[t].at = "changing" /\ Seens[t].op = task[t].op
        /\ Seens[t].todo = todo
    BY <2>2, PhaseIs DEF Seens, Seen
  <2>5. Setting!Become(t, "changing", Seens[t].op, Seens[t].todo \ {s}, "none")
    BY <1>2, <1>5, <2>3, <2>4 DEF Step
  <2>6. dns' = [dns EXCEPT ![s] = Setting!Target[Seens[t].op]]
    BY <2>1, <2>4 DEF Apply, Target, Setting!Target
  <2>7. Setting!Apply(t, s)
    BY <2>2, <2>4, <2>6 DEF Setting!Apply, Seens, Seen
  <2>8. Setting!Change(t, s)
    BY <2>4, <2>5, <2>7 DEF Setting!Change, Seens, Seen
  <2> QED
    BY <2>8 DEF Setting!Next
<1>6. ASSUME NEW t \in Task, SetServiceFails(t) PROVE P
  <2>1. Seens' = [Seens EXCEPT ![t] = Seen(t)'] /\ Seens[t] = Seen(t)
    BY <1>6, SeenLocally DEF Step
  <2>2. PICK s \in Service :
          /\ Turn(t, s)
          /\ task' = [task EXCEPT ![t].todo = @ \ {s},
                                  ![t].failed = @ \cup {s}]
    BY <1>6 DEF SetServiceFails
  <2>3. Seen(t)' = Seen(t)
    BY <1>6, <2>2 DEF Seen, SetServiceFails, InLoop, Turn, TypeOK, Request
  <2>4. Seens' = Seens
    BY <2>1, <2>3 DEF Seens
  <2>5. dns' = dns
    BY <1>6 DEF SetServiceFails, settings
  <2> QED
    BY <1>1, <2>4, <2>5
(* The first flush, or its failure, is not seen; the end of a request is.  *)
<1>7. ASSUME NEW t \in Task, task' = [task EXCEPT ![t].at = "hup"],
             AfterLoop(t), dns' = dns
      PROVE  P
  <2>1. Seen(t)' = Seen(t)
    BY <1>7, PhaseIs DEF Seen, AfterLoop, TypeOK, Request
  <2>2. \A u \in Task : Seen(u)' = Seen(u)
    BY <1>7, <2>1 DEF Seen, TypeOK
  <2>3. Seens' = Seens
    BY <2>2 DEF Seens
  <2> QED
    BY <1>1, <1>7, <2>3
<1>8. ASSUME NEW t \in Task, NEW res, Finish(t, res), Step(t)
      PROVE  Setting!Become(t, "done", Seens[t].op, {}, res)
  <2>1. task'[t] = [task[t] EXCEPT !.at = "done", !.reply = res]
    BY <1>8 DEF Finish, TypeOK
  <2>2. task'[t].at = "done" /\ task'[t].op = task[t].op /\ task'[t].reply = res
    BY <2>1 DEF TypeOK, Request
  <2>3. Seen(t)' = [at |-> "done", op |-> task[t].op, todo |-> {},
                    reply |-> res]
    BY <2>2, PhaseIs DEF Seen
  <2>4. Seens[t].op = task[t].op
    BY DEF Seens, Seen
  <2> QED
    BY <1>2, <1>8, <2>3, <2>4
<1>9. ASSUME NEW t \in Task, Step(t), Finish(t, "Internal"), dns' = dns,
             task[t].at \in {"list", "set", "hup"}
      PROVE  P
  <2>1. Setting!Become(t, "done", Seens[t].op, {}, "Internal")
    BY <1>8, <1>9
  <2>2. Seens[t].at \in {"asked", "changing"}
    BY <1>9, PhaseIs DEF Seens, Seen
  <2>3. Setting!Fail(t)
    BY <1>9, <2>1, <2>2 DEF Setting!Fail, Seens, Seen
  <2> QED
    BY <2>3 DEF Setting!Next
<1>10. ASSUME NEW t \in Task, Step(t), task[t].at = "hup",
              Finish(t, Result(t)), dns' = dns
       PROVE  P
  <2>1. CASE task[t].failed = {}
    <3>1. /\ Seens[t].todo = {} /\ Seens[t].at = "changing"
          /\ Seens[t].op = task[t].op
      BY <1>10, <2>1, PhaseIs DEF Seens, Seen, LocalInv
    <3>2. Result(t) = Setting!Done[Seens[t].op]
      BY <2>1, <3>1 DEF Result, Done, Setting!Done
    <3>3. PICK res : res = Setting!Done[Seens[t].op]
      OBVIOUS
    <3>4. Setting!Become(t, "done", Seens[t].op, {}, res)
      <4>1. Finish(t, res)
        BY <1>10, <3>2, <3>3
      <4> QED
        BY <1>8, <1>10, <4>1
    <3>5. Setting!Become(t, "done", Seens[t].op, {}, Setting!Done[Seens[t].op])
      BY <3>3, <3>4 DEF Setting!Become
    <3>6. Setting!Succeed(t)
      BY <1>10, <3>1, <3>5 DEF Setting!Succeed, Seens, Seen
    <3> QED
      BY <3>6 DEF Setting!Next
  <2>2. CASE task[t].failed # {}
    BY <1>9, <1>10, <2>2 DEF Result
  <2> QED
    BY <2>1, <2>2
<1>11. ASSUME NEW t \in Task, Step(t) PROVE P
  <2>1. CASE Refuse(t)
    BY <1>9, <1>11, <2>1 DEF Refuse, settings
  <2>2. CASE FlushDirectoryService(t)
    BY <1>7, <2>2 DEF FlushDirectoryService
  <2>3. CASE FlushResponder(t)
    BY <1>10, <1>11, <2>3 DEF FlushResponder
  <2>4. CASE FlushFails(t)
    BY <1>7, <1>9, <1>10, <1>11, <2>4 DEF FlushFails, AfterLoop, settings
  <2> QED
    BY <1>4, <1>5, <1>6, <1>11, <2>1, <2>2, <2>3, <2>4 DEF Step
<1>12. ASSUME NEW t \in Task, task'[t] = Idle
       PROVE  Seen(t)' = [at |-> "idle", op |-> "ClearDns", todo |-> {},
                          reply |-> "none"]
  BY <1>12, PhaseIs DEF Seen, Idle
<1>13. ASSUME NEW t \in Task, Forget(t) PROVE P
  <2>1. task'[t] = Idle /\ task[t].at = "done" /\ dns' = dns
    BY <1>13 DEF Forget, TypeOK, settings
  <2>2. Setting!Become(t, "idle", "ClearDns", {}, "none")
    BY <1>2, <1>12, <1>13, <2>1
  <2>3. Seens[t].at = "done"
    BY <2>1, PhaseIs DEF Seens, Seen
  <2>4. Setting!Forget(t)
    BY <2>1, <2>2, <2>3 DEF Setting!Forget, Seens, Seen
  <2> QED
    BY <2>4 DEF Setting!Next
<1>14. ASSUME NEW t \in Task, OrphanEnds(t) PROVE P
  <2>1. task'[t] = Idle /\ task[t].at = "orphan"
    BY <1>14 DEF OrphanEnds, TypeOK
  <2>2. Setting!Become(t, "idle", "ClearDns", {}, "none")
    BY <1>2, <1>12, <1>14, <2>1
  <2>3. /\ Seens[t].at = "late" /\ Seens[t].op = task[t].op
        /\ task[t].todo \subseteq Seens[t].todo
    BY <2>1, PhaseIs DEF Seens, Seen
  <2>4. dns' = dns \/ \E s \in Service : Setting!Apply(t, s)
    <3>1. CASE dns' = dns
      BY <3>1
    <3>2. ASSUME NEW s \in Service, Turn(t, s), Apply(t, s)
          PROVE  Setting!Apply(t, s)
      BY <2>3, <3>2
      DEF Turn, Apply, Target, Setting!Apply, Setting!Target, Seens, Seen
    <3> QED
      BY <1>14, <3>1, <3>2 DEF OrphanEnds, settings
  <2>5. Setting!LateChange(t)
    BY <2>2, <2>3, <2>4 DEF Setting!LateChange, Seens, Seen
  <2> QED
    BY <2>5 DEF Setting!Next
<1>15. CASE HelperEnds
  <2> DEFINE late == {t \in Task : InLoop(t) \/ task[t].at = "orphan"}
  <2>1. dns' = dns
    BY <1>15 DEF HelperEnds, settings
  <2>2. \A t \in late : Seens[t].at \in {"changing", "late"}
    BY PhaseIs DEF InLoop, Seens, Seen
  <2> DEFINE Left(t) == [at |-> "late", op |-> Seens[t].op,
                         todo |-> Seens[t].todo, reply |-> "none"]
  <2>3. \A t \in Task :
          Seen(t)' = IF t \in late THEN Left(t) ELSE Setting!Idle
    <3> SUFFICES ASSUME NEW t \in Task
                 PROVE  Seen(t)' = IF t \in late THEN Left(t)
                                   ELSE Setting!Idle
      OBVIOUS
    <3>1. CASE t \notin late
      <4>1. task'[t] = Idle
        BY <1>15, <3>1 DEF HelperEnds
      <4>2. Seen(t)' = [at |-> "idle", op |-> "ClearDns", todo |-> {},
                        reply |-> "none"]
        BY <1>12, <4>1
      <4> QED
        BY <3>1, <4>2 DEF Setting!Idle
    <3>2. CASE t \in late
      <4>1. /\ task'[t].at = "orphan" /\ task'[t].op = task[t].op
            /\ task'[t].todo = task[t].todo /\ task'[t].failed = task[t].failed
            /\ task'[t].reply = "none"
        BY <1>15, <3>2 DEF HelperEnds, InLoop, TypeOK, Request, LocalInv
      <4>2. task[t].at # "done"
        BY <3>2 DEF InLoop
      <4>3. Seen(t)' = [at |-> "late", op |-> task[t].op,
                        todo |-> task[t].todo \cup task[t].failed,
                        reply |-> "none"]
        BY <4>1, PhaseIs DEF Seen
      <4>4. /\ Seens[t].op = task[t].op
            /\ Seens[t].todo = task[t].todo \cup task[t].failed
        BY <4>2 DEF Seens, Seen
      <4> QED
        BY <3>2, <4>3, <4>4
    <3> QED
      BY <3>1, <3>2
  <2>4. Seens' = [t \in Task |-> IF t \in late THEN Left(t) ELSE Setting!Idle]
    BY <2>3 DEF Seens
  <2>5. Setting!HelperEnds
    BY <2>1, <2>2, <2>4 DEF Setting!HelperEnds, Seens, Seen
  <2> QED
    BY <2>5 DEF Setting!Next
<1>16. CASE UNCHANGED vars
  BY <1>1, <1>16 DEF vars, settings, Seens, Seen
<1> QED
  BY <1>3, <1>11, <1>13, <1>14, <1>15, <1>16 DEF Next

(* The requests of macOS implement DnsSetting: whatever runs besides it, a *)
(* request changes the services it has listed, each at most once, and      *)
(* succeeds only if it has changed them all.                               *)
THEOREM ImplementsSetting == Spec => SettingSpec
<1>1. Init => Setting!Init
  <2> SUFFICES ASSUME Init PROVE Setting!Init
    OBVIOUS
  <2>1. dns = [s \in Service |-> "dhcp"] /\ \A t \in Task : task[t] = Idle
    BY DEF Init
  <2>2. \A t \in Task : Seen(t) = Setting!Idle
    <3> SUFFICES ASSUME NEW t \in Task PROVE Seen(t) = Setting!Idle
      OBVIOUS
    <3>1. task[t] = Idle
      BY <2>1
    <3>2. Seen(t) = [at |-> "idle", op |-> "ClearDns", todo |-> {},
                     reply |-> "none"]
      BY <3>1, PhaseIs DEF Seen, Idle
    <3> QED
      BY <3>2 DEF Setting!Idle
  <2>3. Seens = [t \in Task |-> Setting!Idle]
    BY <2>2 DEF Seens
  <2> QED
    BY <2>1, <2>3 DEF Setting!Init, Seens, Seen
<1>2. Inv /\ [Next]_vars => [Setting!Next]_(Setting!vars)
  BY SettingStep
<1> QED
  BY <1>1, <1>2, InvHolds, PTL DEF Spec, SettingSpec, Setting!Spec
=============================================================================
