--------------------------- MODULE DnsLinuxProofs ---------------------------
(***************************************************************************)
(* The properties of DnsLinux that the code keeps, for every set of tasks  *)
(* and of interfaces.                                                      *)
(***************************************************************************)
EXTENDS DnsLinux, TLAPS

(* A change that is not flushed is one of a request that goes on to flush. *)
FlushInv ==
  stale /\ ~unflushed => \E t \in Task : task[t].at \in {"domain", "flush"}

(* Nobody runs beside a request that has run alone so far.                 *)
Alone(t) == task[t].at # "idle" /\ ~overlap[t]
AloneInv == \A t, u \in Task : Alone(t) /\ u # t => ~Active(u)

ReplyInv ==
  \A t \in Task :
    /\ task[t].at = "domain" => task[t].op = "SetDns"
    /\ task[t].at # "done" => task[t].reply = "none"
    /\ task[t].reply \in {"none", "Internal", Done[task[t].op]}

(* A request that has changed the settings: its changes are there.         *)
Changed(t) ==
  \/ task[t].at \in {"domain", "flush"}
  \/ task[t].reply \in {"DnsSet", "DnsCleared"}

EffectInv ==
  \A t \in Task : Alone(t) /\ Changed(t) /\ task[t].op = "SetDns"
    => task[t].iface \in servers

(* As long as the route stays, one interface is all that is ever changed.  *)
RouteInv ==
  ~moved => /\ Dirty \subseteq {route}
            /\ \A t \in Task : task[t].at \in {"apply", "domain", "flush"}
                                 => task[t].iface = route

ClearInv ==
  \A t \in Task : Alone(t) /\ Changed(t) /\ task[t].op = "ClearDns" /\ ~moved
    => Dirty = {}

Inv == /\ TypeOK /\ FlushInv /\ AloneInv /\ ReplyInv
       /\ EffectInv /\ RouteInv /\ ClearInv

-----------------------------------------------------------------------------
LEMMA InitInv == Init => Inv
<1> SUFFICES ASSUME Init PROVE Inv
  OBVIOUS
<1>1. TypeOK
  BY DEF Init, TypeOK, TaskState, Idle
<1>2. FlushInv /\ AloneInv /\ RouteInv
  BY DEF Init, FlushInv, AloneInv, RouteInv, Alone, Active, Dirty, Idle
<1>3. ReplyInv /\ EffectInv /\ ClearInv
  BY DEF Init, ReplyInv, EffectInv, ClearInv, Alone, Idle
<1> QED
  BY <1>1, <1>2, <1>3 DEF Inv

LEMMA FinishType ==
  ASSUME TypeOK, NEW t \in Task, NEW res \in {"DnsSet", "DnsCleared", "Internal"},
         Finish(t, res)
  PROVE  /\ task' \in [Task -> TaskState]
         /\ \A u \in Task : u # t => task'[u] = task[u]
         /\ task'[t].at = "done"
<1> USE DEF TypeOK, Finish
<1>1. task[t] \in TaskState
  OBVIOUS
<1>2. [task[t] EXCEPT !.at = "done", !.reply = res] \in TaskState
  BY <1>1 DEF TaskState
<1>3. task' = [task EXCEPT ![t] = [task[t] EXCEPT !.at = "done", !.reply = res]]
  OBVIOUS
<1>4. task' \in [Task -> TaskState]
  BY <1>2, <1>3
<1> QED
  BY <1>1, <1>3, <1>4 DEF TaskState

LEMMA TypeStep == TypeOK /\ [Next]_vars => TypeOK'
<1> SUFFICES ASSUME TypeOK, [Next]_vars PROVE TypeOK'
  OBVIOUS
<1> USE DnsLinuxAssumption DEF TypeOK, TaskState, Done, settings, history
<1>1. ASSUME NEW t \in Task, NEW o \in {"SetDns", "ClearDns"}, Call(t, o)
      PROVE  TypeOK'
  BY <1>1 DEF Call, Idle
<1>2. ASSUME NEW t \in Task, DefaultIface(t) \/ Refuse(t)
      PROVE  TypeOK'
  BY <1>2 DEF DefaultIface, Refuse, Goto, Finish
<1>3. ASSUME NEW t \in Task, SetServers(t) \/ SetDomain(t)
      PROVE  TypeOK'
  <2>1. CASE SetServers(t)
    BY <2>1 DEF SetServers, Goto
  <2>2. CASE SetDomain(t)
    <3>1. domain' \subseteq Iface /\ stale' \in BOOLEAN
      BY <2>2 DEF SetDomain
    <3> QED
      BY <2>2, <3>1 DEF SetDomain, Goto
  <2> QED
    BY <1>3, <2>1, <2>2
<1>4. ASSUME NEW t \in Task, Revert(t)
      PROVE  TypeOK'
  BY <1>4 DEF Revert, Goto
<1>5. ASSUME NEW t \in Task, FlushCache(t) \/ Unflushed(t)
      PROVE  TypeOK'
  <2>1. Done[task[t].op] \in {"DnsSet", "DnsCleared"}
    OBVIOUS
  <2>2. CASE FlushCache(t)
    BY <2>1, <2>2, FinishType DEF FlushCache
  <2>3. CASE Unflushed(t)
    <3>1. unflushed' \in BOOLEAN /\ UNCHANGED <<route, settings, overlap, moved>>
      BY <2>3 DEF Unflushed
    <3>2. PICK res \in {"DnsSet", "DnsCleared", "Internal"} : Finish(t, res)
      BY <2>1, <2>3 DEF Unflushed
    <3> QED
      BY <3>1, <3>2, FinishType
  <2> QED
    BY <1>5, <2>2, <2>3
<1>6. ASSUME NEW t \in Task, Forget(t)
      PROVE  TypeOK'
  BY <1>6 DEF Forget, Idle
<1>7. CASE RouteMoves
  BY <1>7 DEF RouteMoves
<1>8. CASE UNCHANGED vars
  BY <1>8 DEF vars
<1> QED
  BY <1>1, <1>2, <1>3, <1>4, <1>5, <1>6, <1>7, <1>8 DEF Next

LEMMA FlushStep == TypeOK /\ FlushInv /\ [Next]_vars => FlushInv'
<1> SUFFICES ASSUME TypeOK, FlushInv, [Next]_vars PROVE FlushInv'
  OBVIOUS
<1> USE DnsLinuxAssumption DEF TypeOK, TaskState, FlushInv, settings, history
<1>1. ASSUME NEW t \in Task, NEW o \in {"SetDns", "ClearDns"}, Call(t, o)
      PROVE  FlushInv'
  BY <1>1 DEF Call, Idle
<1>2. ASSUME NEW t \in Task, DefaultIface(t) \/ Refuse(t)
      PROVE  FlushInv'
  BY <1>2 DEF DefaultIface, Refuse, Goto, Finish
<1>3. ASSUME NEW t \in Task, SetServers(t) \/ SetDomain(t)
      PROVE  FlushInv'
  BY <1>3 DEF SetServers, SetDomain, Goto
<1>4. ASSUME NEW t \in Task, Revert(t)
      PROVE  FlushInv'
  BY <1>4 DEF Revert, Goto
<1>5. ASSUME NEW t \in Task, FlushCache(t) \/ Unflushed(t)
      PROVE  FlushInv'
  BY <1>5 DEF FlushCache, Unflushed, Finish
<1>6. ASSUME NEW t \in Task, Forget(t)
      PROVE  FlushInv'
  BY <1>6 DEF Forget, Idle
<1>7. CASE RouteMoves
  BY <1>7 DEF RouteMoves
<1>8. CASE UNCHANGED vars
  BY <1>8 DEF vars
<1> QED
  BY <1>1, <1>2, <1>3, <1>4, <1>5, <1>6, <1>7, <1>8 DEF Next

LEMMA AloneStep == TypeOK /\ AloneInv /\ [Next]_vars => AloneInv'
<1> SUFFICES ASSUME TypeOK, AloneInv, [Next]_vars PROVE AloneInv'
  OBVIOUS
<1> USE DnsLinuxAssumption DEF TypeOK, TaskState, AloneInv, Alone, Active, settings, history
<1>1. ASSUME NEW t \in Task, NEW o \in {"SetDns", "ClearDns"}, Call(t, o)
      PROVE  AloneInv'
  BY <1>1 DEF Call, Idle
<1>2. ASSUME NEW t \in Task, DefaultIface(t) \/ Refuse(t)
      PROVE  AloneInv'
  BY <1>2 DEF DefaultIface, Refuse, Goto, Finish
<1>3. ASSUME NEW t \in Task, SetServers(t) \/ SetDomain(t)
      PROVE  AloneInv'
  BY <1>3 DEF SetServers, SetDomain, Goto
<1>4. ASSUME NEW t \in Task, Revert(t)
      PROVE  AloneInv'
  BY <1>4 DEF Revert, Goto
<1>5. ASSUME NEW t \in Task, FlushCache(t) \/ Unflushed(t)
      PROVE  AloneInv'
  BY <1>5 DEF FlushCache, Unflushed, Finish
<1>6. ASSUME NEW t \in Task, Forget(t)
      PROVE  AloneInv'
  BY <1>6 DEF Forget, Idle
<1>7. CASE RouteMoves
  BY <1>7 DEF RouteMoves
<1>8. CASE UNCHANGED vars
  BY <1>8 DEF vars
<1> QED
  BY <1>1, <1>2, <1>3, <1>4, <1>5, <1>6, <1>7, <1>8 DEF Next

LEMMA ReplyStep == TypeOK /\ ReplyInv /\ [Next]_vars => ReplyInv'
<1> SUFFICES ASSUME TypeOK, ReplyInv, [Next]_vars PROVE ReplyInv'
  OBVIOUS
<1> USE DnsLinuxAssumption DEF TypeOK, TaskState, ReplyInv, Done, settings, history
<1>1. ASSUME NEW t \in Task, NEW o \in {"SetDns", "ClearDns"}, Call(t, o)
      PROVE  ReplyInv'
  BY <1>1 DEF Call, Idle
<1>2. ASSUME NEW t \in Task, DefaultIface(t) \/ Refuse(t)
      PROVE  ReplyInv'
  BY <1>2 DEF DefaultIface, Refuse, Goto, Finish
<1>3. ASSUME NEW t \in Task, SetServers(t) \/ SetDomain(t)
      PROVE  ReplyInv'
  BY <1>3 DEF SetServers, SetDomain, Goto
<1>4. ASSUME NEW t \in Task, Revert(t)
      PROVE  ReplyInv'
  BY <1>4 DEF Revert, Goto
<1>5. ASSUME NEW t \in Task, FlushCache(t) \/ Unflushed(t)
      PROVE  ReplyInv'
  BY <1>5 DEF FlushCache, Unflushed, Finish
<1>6. ASSUME NEW t \in Task, Forget(t)
      PROVE  ReplyInv'
  BY <1>6 DEF Forget, Idle
<1>7. CASE RouteMoves
  BY <1>7 DEF RouteMoves
<1>8. CASE UNCHANGED vars
  BY <1>8 DEF vars
<1> QED
  BY <1>1, <1>2, <1>3, <1>4, <1>5, <1>6, <1>7, <1>8 DEF Next

LEMMA EffectStep ==
  TypeOK /\ AloneInv /\ ReplyInv /\ EffectInv /\ [Next]_vars => EffectInv'
<1> SUFFICES ASSUME TypeOK, AloneInv, ReplyInv, EffectInv, [Next]_vars PROVE EffectInv'
  OBVIOUS
<1> USE DnsLinuxAssumption
    DEF TypeOK, TaskState, AloneInv, ReplyInv, EffectInv, Alone,
        Active, Changed, Done, settings, history
<1>1. ASSUME NEW t \in Task, NEW o \in {"SetDns", "ClearDns"}, Call(t, o)
      PROVE  EffectInv'
  BY <1>1 DEF Call, Idle
<1>2. ASSUME NEW t \in Task, DefaultIface(t) \/ Refuse(t)
      PROVE  EffectInv'
  BY <1>2 DEF DefaultIface, Refuse, Goto, Finish
<1>3. ASSUME NEW t \in Task, SetServers(t) \/ SetDomain(t)
      PROVE  EffectInv'
  BY <1>3 DEF SetServers, SetDomain, Goto
<1>4. ASSUME NEW t \in Task, Revert(t)
      PROVE  EffectInv'
  BY <1>4 DEF Revert, Goto
<1>5. ASSUME NEW t \in Task, FlushCache(t) \/ Unflushed(t)
      PROVE  EffectInv'
  BY <1>5 DEF FlushCache, Unflushed, Finish
<1>6. ASSUME NEW t \in Task, Forget(t)
      PROVE  EffectInv'
  BY <1>6 DEF Forget, Idle
<1>7. CASE RouteMoves
  BY <1>7 DEF RouteMoves
<1>8. CASE UNCHANGED vars
  BY <1>8 DEF vars
<1> QED
  BY <1>1, <1>2, <1>3, <1>4, <1>5, <1>6, <1>7, <1>8 DEF Next

LEMMA RouteStep == TypeOK /\ RouteInv /\ [Next]_vars => RouteInv'
<1> SUFFICES ASSUME TypeOK, RouteInv, [Next]_vars PROVE RouteInv'
  OBVIOUS
<1> USE DnsLinuxAssumption DEF TypeOK, TaskState, RouteInv, Dirty, Active, settings, history
<1>1. ASSUME NEW t \in Task, NEW o \in {"SetDns", "ClearDns"}, Call(t, o)
      PROVE  RouteInv'
  BY <1>1 DEF Call, Idle
<1>2. ASSUME NEW t \in Task, DefaultIface(t) \/ Refuse(t)
      PROVE  RouteInv'
  BY <1>2 DEF DefaultIface, Refuse, Goto, Finish
<1>3. ASSUME NEW t \in Task, SetServers(t) \/ SetDomain(t)
      PROVE  RouteInv'
  BY <1>3 DEF SetServers, SetDomain, Goto
<1>4. ASSUME NEW t \in Task, Revert(t)
      PROVE  RouteInv'
  BY <1>4 DEF Revert, Goto
<1>5. ASSUME NEW t \in Task, FlushCache(t) \/ Unflushed(t)
      PROVE  RouteInv'
  BY <1>5 DEF FlushCache, Unflushed, Finish
<1>6. ASSUME NEW t \in Task, Forget(t)
      PROVE  RouteInv'
  BY <1>6 DEF Forget, Idle
<1>7. CASE RouteMoves
  BY <1>7 DEF RouteMoves
<1>8. CASE UNCHANGED vars
  BY <1>8 DEF vars
<1> QED
  BY <1>1, <1>2, <1>3, <1>4, <1>5, <1>6, <1>7, <1>8 DEF Next

LEMMA ClearStep ==
  TypeOK /\ AloneInv /\ ReplyInv /\ RouteInv /\ ClearInv /\ [Next]_vars => ClearInv'
<1> SUFFICES ASSUME TypeOK, AloneInv, ReplyInv, RouteInv, ClearInv, [Next]_vars PROVE ClearInv'
  OBVIOUS
<1> USE DnsLinuxAssumption
    DEF TypeOK, TaskState, AloneInv, ReplyInv, RouteInv, ClearInv,
        Alone, Active, Changed, Dirty, Done, settings, history
<1>1. ASSUME NEW t \in Task, NEW o \in {"SetDns", "ClearDns"}, Call(t, o)
      PROVE  ClearInv'
  BY <1>1 DEF Call, Idle
<1>2. ASSUME NEW t \in Task, DefaultIface(t) \/ Refuse(t)
      PROVE  ClearInv'
  BY <1>2 DEF DefaultIface, Refuse, Goto, Finish
<1>3. ASSUME NEW t \in Task, SetServers(t) \/ SetDomain(t)
      PROVE  ClearInv'
  BY <1>3 DEF SetServers, SetDomain, Goto
<1>4. ASSUME NEW t \in Task, Revert(t)
      PROVE  ClearInv'
  BY <1>4 DEF Revert, Goto
<1>5. ASSUME NEW t \in Task, FlushCache(t) \/ Unflushed(t)
      PROVE  ClearInv'
  BY <1>5 DEF FlushCache, Unflushed, Finish
<1>6. ASSUME NEW t \in Task, Forget(t)
      PROVE  ClearInv'
  BY <1>6 DEF Forget, Idle
<1>7. CASE RouteMoves
  BY <1>7 DEF RouteMoves
<1>8. CASE UNCHANGED vars
  BY <1>8 DEF vars
<1> QED
  BY <1>1, <1>2, <1>3, <1>4, <1>5, <1>6, <1>7, <1>8 DEF Next

LEMMA InvHolds == Spec => []Inv
<1>1. Inv /\ [Next]_vars => Inv'
  BY TypeStep, FlushStep, AloneStep, ReplyStep, EffectStep, RouteStep, ClearStep
     DEF Inv
<1> QED
  BY <1>1, InitInv, PTL DEF Spec

-----------------------------------------------------------------------------
(* The state stays well-typed.                                             *)
THEOREM TypeCorrect == Spec => []TypeOK
BY InvHolds, PTL DEF Inv

(* The cache is fresh whenever no request runs, however many have run and  *)
(* in whatever order, unless a flush was missed.                           *)
THEOREM FreshWhenQuiet == Spec => []QuietMeansFresh
<1>1. Inv => QuietMeansFresh
  BY DEF Inv, FlushInv, QuietMeansFresh, Active
<1> QED
  BY <1>1, InvHolds, PTL

(* A SetDns that ran alone and says DnsSet has set the servers on the      *)
(* interface it found, and unless the route has moved under a request or a *)
(* setting, on the interface of the route and on no other.                 *)
THEOREM SetEffective == Spec => []SetTakesEffect
<1>1. Inv => SetTakesEffect
  <2> SUFFICES ASSUME Inv, NEW t \in Task,
                      task[t].reply = "DnsSet", ~overlap[t]
               PROVE  /\ task[t].iface \in servers
                      /\ ~moved => servers = {route}
    BY DEF SetTakesEffect
  <2>1. task[t].op = "SetDns" /\ task[t].at = "done"
    BY DEF Inv, TypeOK, TaskState, ReplyInv, Done
  <2>2. task[t].iface \in servers
    BY <2>1 DEF Inv, EffectInv, Alone, Changed
  <2>3. ~moved => servers \subseteq {route}
    BY DEF Inv, RouteInv, Dirty
  <2> QED
    BY <2>2, <2>3
<1> QED
  BY <1>1, InvHolds, PTL

(* A ClearDns that ran alone undoes every earlier request, whole or not,   *)
(* if the route has not moved.                                             *)
THEOREM ClearComplete == Spec => []ClearUndoesAll
<1>1. Inv => ClearUndoesAll
  BY DEF Inv, TypeOK, TaskState, ReplyInv, ClearInv, ClearUndoesAll, Alone, Changed, Done
<1> QED
  BY <1>1, InvHolds, PTL

-----------------------------------------------------------------------------
(* The refinement: every step is one of DnsSetting, or none.               *)

Resolver == [i \in Iface |-> IF i \in servers THEN "servers" ELSE "dhcp"]

Seen(t) ==
  [at |-> Phase(task[t].at), op |-> task[t].op, reply |-> task[t].reply,
   todo |-> IF task[t].at = "apply" THEN {task[t].iface} ELSE {}]

Seens == [t \in Task |-> Seen(t)]

LEMMA PhaseIs ==
  /\ Phase("idle") = "idle" /\ Phase("route") = "asked"
  /\ Phase("apply") = "changing" /\ Phase("domain") = "changing"
  /\ Phase("flush") = "changing" /\ Phase("done") = "done"
  BY DEF Phase

LEMMA SettingStep ==
  ASSUME Inv, [Next]_vars
  PROVE  [Setting!Next]_(Setting!vars)
<1> DEFINE P == [Setting!Next]_(Setting!vars)
<1> USE DEF Inv
<1>1. ASSUME Resolver' = Resolver, Seens' = Seens PROVE P
  BY <1>1 DEF Setting!vars, Resolver, Seens, Seen
<1>2. ASSUME servers' = servers PROVE Resolver' = Resolver
  BY <1>2 DEF Resolver
(* The next record of a task, with the abstract action it is due to.       *)
<1>3. ASSUME NEW t \in Task, \A u \in Task \ {t} : task'[u] = task[u]
      PROVE  Seens' = [Seens EXCEPT ![t] = Seen(t)'] /\ Seens[t] = Seen(t)
  <2>1. \A u \in Task \ {t} : Seen(u)' = Seen(u)
    BY <1>3 DEF Seen
  <2> QED
    BY <2>1 DEF Seens
<1>4. ASSUME NEW t \in Task, NEW place, NEW o, NEW places, NEW answer,
             \A u \in Task \ {t} : task'[u] = task[u],
             Seen(t)' = [at |-> place, op |-> o, todo |-> places,
                         reply |-> answer]
      PROVE  Setting!Become(t, place, o, places, answer) /\ Seens[t] = Seen(t)
  BY <1>3, <1>4 DEF Setting!Become, Seens, Seen
<1>5. ASSUME NEW t \in Task, NEW o \in {"SetDns", "ClearDns"}, Call(t, o)
      PROVE  P
  <2>1. /\ task'[t] = [Idle EXCEPT !.at = "route", !.op = o]
        /\ \A u \in Task \ {t} : task'[u] = task[u]
        /\ task[t].at = "idle" /\ Resolver' = Resolver
    BY <1>2, <1>5 DEF Call, TypeOK, settings
  <2>2. Seen(t)' = [at |-> "asked", op |-> o, todo |-> {}, reply |-> "none"]
    BY <2>1, PhaseIs DEF Seen, Idle
  <2>3. Setting!Become(t, "asked", o, {}, "none") /\ Seens[t] = Seen(t)
    BY <1>4, <2>1, <2>2
  <2>4. Seens[t].at = "idle"
    BY <2>1, PhaseIs DEF Seens, Seen
  <2>5. Setting!Call(t)
    BY <2>1, <2>3, <2>4 DEF Setting!Call, Resolver, Seens, Seen
  <2> QED
    BY <2>5 DEF Setting!Next
(* What remains the same of a record whose place is another.               *)
<1>6. ASSUME NEW t \in Task, NEW place, Goto(t, place)
      PROVE  /\ task'[t].at = place /\ task'[t].op = task[t].op
             /\ task'[t].reply = task[t].reply
             /\ task'[t].iface = task[t].iface
             /\ \A u \in Task \ {t} : task'[u] = task[u]
  BY <1>6 DEF Goto, TypeOK, TaskState
<1>7. ASSUME NEW t \in Task, DefaultIface(t) PROVE P
  <2>1. /\ task'[t] = [task[t] EXCEPT !.at = "apply", !.iface = route]
        /\ \A u \in Task \ {t} : task'[u] = task[u]
        /\ task[t].at = "route" /\ task[t].reply = "none" /\ route \in Iface
        /\ Resolver' = Resolver
    BY <1>2, <1>7 DEF DefaultIface, TypeOK, ReplyInv, settings
  <2>2. Seen(t)' = [at |-> "changing", op |-> task[t].op, todo |-> {route},
                    reply |-> "none"]
    BY <2>1, PhaseIs DEF Seen, TypeOK, TaskState
  <2>3. Seens[t].at = "asked" /\ Seens[t].op = task[t].op
    BY <2>1, PhaseIs DEF Seens, Seen
  <2>4. Setting!Become(t, "changing", Seens[t].op, {route}, "none")
    BY <1>4, <2>1, <2>2, <2>3
  <2>5. Setting!Choose(t)
    BY <2>1, <2>3, <2>4 DEF Setting!Choose, Resolver, Seens, Seen
  <2> QED
    BY <2>5 DEF Setting!Next
(* The one change: the interface that was found gets its servers, or loses *)
(* them.                                                                   *)
<1>8. ASSUME NEW t \in Task, task[t].at = "apply",
             NEW place \in {"domain", "flush"}, Goto(t, place),
             Resolver' = [Resolver EXCEPT ![task[t].iface] =
                            Setting!Target[task[t].op]]
      PROVE  P
  <2>1. task[t].reply = "none" /\ task[t].iface \in Iface
    BY <1>8 DEF ReplyInv, TypeOK
  <2>2. Seen(t)' = [at |-> "changing", op |-> task[t].op, todo |-> {},
                    reply |-> "none"]
    BY <1>6, <1>8, <2>1, PhaseIs DEF Seen
  <2>3. /\ Seens[t].at = "changing" /\ Seens[t].op = task[t].op
        /\ Seens[t].todo = {task[t].iface}
    BY <1>8, PhaseIs DEF Seens, Seen
  <2>4. Setting!Become(t, "changing", Seens[t].op,
                       Seens[t].todo \ {task[t].iface}, "none")
    BY <1>4, <1>6, <1>8, <2>2, <2>3
  <2>5. Setting!Apply(t, task[t].iface)
    BY <1>8, <2>3 DEF Setting!Apply, Resolver, Seens, Seen
  <2>6. Setting!Change(t, task[t].iface)
    BY <2>3, <2>4, <2>5 DEF Setting!Change, Resolver, Seens, Seen
  <2> QED
    BY <2>1, <2>6 DEF Setting!Next
<1>9. ASSUME NEW i \in Iface
       PROVE  /\ servers' = servers \cup {i}
                  => Resolver' = [Resolver EXCEPT ![i] = "servers"]
              /\ servers' = servers \ {i}
                  => Resolver' = [Resolver EXCEPT ![i] = "dhcp"]
  BY DEF Resolver
<1>10. ASSUME NEW t \in Task, SetServers(t) PROVE P
  <2>1. /\ task[t].at = "apply" /\ task[t].op = "SetDns" /\ Goto(t, "domain")
        /\ servers' = servers \cup {task[t].iface}
        /\ task[t].iface \in Iface
    BY <1>10 DEF SetServers, TypeOK
  <2>2. Setting!Target[task[t].op] = "servers"
    BY <2>1 DEF Setting!Target
  <2>3. Resolver' = [Resolver EXCEPT ![task[t].iface] = "servers"]
    BY <2>1, <1>9
  <2> QED
    BY <1>8, <2>1, <2>2, <2>3
<1>11. ASSUME NEW t \in Task, Revert(t) PROVE P
  <2>1. /\ task[t].at = "apply" /\ task[t].op = "ClearDns" /\ Goto(t, "flush")
        /\ servers' = servers \ {task[t].iface}
        /\ task[t].iface \in Iface
    BY <1>11 DEF Revert, TypeOK
  <2>2. Setting!Target[task[t].op] = "dhcp"
    BY <2>1 DEF Setting!Target
  <2>3. Resolver' = [Resolver EXCEPT ![task[t].iface] = "dhcp"]
    BY <2>1, <1>9
  <2> QED
    BY <1>8, <2>1, <2>2, <2>3
<1>12. ASSUME NEW t \in Task, SetDomain(t) PROVE P
  <2>1. task[t].at = "domain" /\ Goto(t, "flush") /\ Resolver' = Resolver
    BY <1>2, <1>12 DEF SetDomain
  <2>2. Seen(t)' = Seen(t)
    BY <1>6, <2>1, PhaseIs DEF Seen
  <2>3. Seens' = Seens
    BY <1>3, <1>6, <2>1, <2>2 DEF Seens
  <2> QED
    BY <1>1, <2>1, <2>3
<1>13. ASSUME NEW t \in Task, NEW res, Finish(t, res)
       PROVE  Setting!Become(t, "done", Seens[t].op, {}, res)
  <2>1. /\ task'[t].at = "done" /\ task'[t].op = task[t].op
        /\ task'[t].reply = res /\ \A u \in Task \ {t} : task'[u] = task[u]
    BY <1>13 DEF Finish, TypeOK, TaskState
  <2>2. Seen(t)' = [at |-> "done", op |-> task[t].op, todo |-> {},
                    reply |-> res]
    BY <2>1, PhaseIs DEF Seen
  <2>3. Seens[t].op = task[t].op
    BY DEF Seens, Seen
  <2> QED
    BY <1>4, <2>1, <2>2, <2>3
<1>14. ASSUME NEW t \in Task, Finish(t, "Internal"), servers' = servers,
              task[t].at \in {"route", "apply", "domain", "flush"}
       PROVE  P
  <2>1. Setting!Become(t, "done", Seens[t].op, {}, "Internal")
    BY <1>13, <1>14
  <2>2. Seens[t].at \in {"asked", "changing"}
    BY <1>14, PhaseIs DEF Seens, Seen
  <2>3. Setting!Fail(t)
    BY <1>2, <1>14, <2>1, <2>2 DEF Setting!Fail, Resolver, Seens, Seen
  <2> QED
    BY <2>3 DEF Setting!Next
<1>15. ASSUME NEW t \in Task, task[t].at = "flush",
              Finish(t, Done[task[t].op]), servers' = servers
       PROVE  P
  <2>1. /\ Seens[t].todo = {} /\ Seens[t].at = "changing"
        /\ Seens[t].op = task[t].op
    BY <1>15, PhaseIs DEF Seens, Seen
  <2>2. PICK res : res = Setting!Done[Seens[t].op]
    OBVIOUS
  <2>3. Setting!Become(t, "done", Seens[t].op, {}, res)
    <3>1. Finish(t, res)
      BY <1>15, <2>1, <2>2 DEF Done, Setting!Done
    <3> QED
      BY <1>13, <3>1
  <2>4. Setting!Become(t, "done", Seens[t].op, {}, Setting!Done[Seens[t].op])
    BY <2>2, <2>3 DEF Setting!Become
  <2>5. Setting!Succeed(t)
    BY <1>2, <1>15, <2>1, <2>4 DEF Setting!Succeed, Resolver, Seens, Seen
  <2> QED
    BY <2>5 DEF Setting!Next
<1>16. ASSUME NEW t \in Task, Refuse(t) \/ FlushCache(t) \/ Unflushed(t)
       PROVE  P
  BY <1>14, <1>15, <1>16 DEF Refuse, FlushCache, Unflushed, settings
<1>17. ASSUME NEW t \in Task, Forget(t) PROVE P
  <2>1. /\ task'[t] = Idle /\ task[t].at = "done" /\ servers' = servers
        /\ \A u \in Task \ {t} : task'[u] = task[u]
    BY <1>17 DEF Forget, TypeOK, settings
  <2>2. Seen(t)' = [at |-> "idle", op |-> "ClearDns", todo |-> {},
                    reply |-> "none"]
    BY <2>1, PhaseIs DEF Seen, Idle
  <2>3. Setting!Become(t, "idle", "ClearDns", {}, "none")
    BY <1>4, <2>1, <2>2
  <2>4. Seens[t].at = "done"
    BY <2>1, PhaseIs DEF Seens, Seen
  <2>5. Setting!Forget(t)
    BY <1>2, <2>1, <2>3, <2>4 DEF Setting!Forget, Resolver, Seens, Seen
  <2> QED
    BY <2>5 DEF Setting!Next
<1>18. CASE RouteMoves \/ UNCHANGED vars
  BY <1>1, <1>2, <1>18 DEF RouteMoves, vars, settings, Seens, Seen
<1> QED
  BY <1>5, <1>7, <1>10, <1>11, <1>12, <1>16, <1>17, <1>18 DEF Next

(* The requests of Linux implement DnsSetting: wherever the route goes, a  *)
(* request changes the one interface it has found, once, and succeeds only *)
(* if it has done so.                                                      *)
THEOREM ImplementsSetting == Spec => SettingSpec
<1>1. Init => Setting!Init
  <2> SUFFICES ASSUME Init PROVE Setting!Init
    OBVIOUS
  <2>1. servers = {} /\ \A t \in Task : task[t] = Idle
    BY DEF Init
  <2>2. \A t \in Task : Seen(t) = Setting!Idle
    <3> SUFFICES ASSUME NEW t \in Task PROVE Seen(t) = Setting!Idle
      OBVIOUS
    <3>1. task[t] = Idle
      BY <2>1
    <3>2. Seen(t) = [at |-> "idle", op |-> "ClearDns", todo |-> {},
                     reply |-> "none"]
      BY <3>1, PhaseIs DEF Seen, Idle
    <3> QED
      BY <3>2 DEF Setting!Idle
  <2>3. Seens = [t \in Task |-> Setting!Idle]
    BY <2>2 DEF Seens
  <2>4. Resolver = [i \in Iface |-> "dhcp"]
    BY <2>1 DEF Resolver
  <2> QED
    BY <2>3, <2>4 DEF Setting!Init, Resolver, Seens, Seen
<1>2. Inv /\ [Next]_vars => [Setting!Next]_(Setting!vars)
  BY SettingStep
<1> QED
  BY <1>1, <1>2, InvHolds, PTL DEF Spec, SettingSpec, Setting!Spec
=============================================================================
