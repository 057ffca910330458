------------------------------- MODULE Daemon -------------------------------
(***************************************************************************)
(* The sc-helper daemon: the accept loop and the connection tasks of       *)
(* src/src/service/server.rs and main() of src/src/bin/sc_helper.rs,       *)
(* composed with the supervisor and with the service manager that stops    *)
(* and restarts it.                                                        *)
(*                                                                         *)
(* The runtime is single-threaded (flavor = "current_thread"): what a task *)
(* does from one suspension to the next is one step.                       *)
(***************************************************************************)
EXTENDS Naturals, Sequences, FiniteSets

CONSTANTS
  Conn,           \* connections that may be open at the same time
  Main,           \* the main task
  Requests,       \* classes of frames that clients send
  MaxOpen,        \* connections the helper has descriptors for
  MaxFaults,      \* bound on crashes and failing start-up calls
  KeepAlive,      \* restart after any exit (launchd KeepAlive) or only after
                  \* a failure (systemd Restart=on-failure)
  MacOS,          \* the build target is macOS
  Pid, NoPid, Grace, TryWaitMayFail, GroupKill   \* see Supervisor

(* A frame is a command that passes both checks, a command with an old     *)
(* timestamp or a wrong HMAC, or a body that does not parse.               *)
ASSUME DaemonAssumption ==
  /\ Requests \subseteq {"Ping", "GetVersion", "StartMihomo", "StopMihomo",
                         "SetDns", "ClearDns", "Shutdown",
                         "Stale", "Forged", "Garbage"}
  /\ Main \notin Conn
  /\ MaxOpen \in Nat /\ MaxFaults \in Nat
  /\ KeepAlive \in BOOLEAN /\ MacOS \in BOOLEAN
  /\ NoPid \notin Pid /\ Grace \in Nat
  /\ TryWaitMayFail \in BOOLEAN /\ GroupKill \in BOOLEAN

VARIABLES
  main,     \* where main() is, or how the process ended
  sock,     \* the socket file
  sigterm,  \* the external_shutdown channel has fired
  trigger,  \* ShutdownTrigger still holds its Sender
  fired,    \* the ipc_shutdown channel has fired
  faults,   \* faults so far
  conn,     \* conn[c]: where connection c is
  req,      \* req[c]: the request its task works on
  reply,    \* reply[c]: the response written to c, or "eof"
  up, proc, child, mutex, pc, taken, waited, result   \* see Supervisor

Task == Conn \cup {Main}
Sup  == INSTANCE Supervisor

supVars == <<up, proc, child, mutex, pc, taken, waited, result>>
loopVars == <<main, sock, sigterm, trigger, fired, faults>>
connVars == <<conn, req, reply>>
vars == <<loopVars, connVars, supVars>>

Replies == {"Pong", "Version", "Started", "Stopped", "DnsSet", "DnsCleared",
            "ShuttingDown", "Replayed", "BadHmac", "AlreadyRunning",
            "SpawnFailed", "Internal", "eof"}

TypeOK ==
  /\ Sup!TypeOK
  /\ main \in {"start", "bind", "chmod", "serving", "draining",
               "exited", "failed"}
  /\ sock \in {"absent", "bound", "open", "stale"}
  /\ {sigterm, trigger, fired} \subseteq BOOLEAN
  /\ faults \in 0..MaxFaults
  /\ conn \in [Conn -> {"none", "backlog", "reading", "busy", "done"}]
  /\ req \in [Conn -> Requests \cup {"none"}]
  /\ reply \in [Conn -> Replies \cup {"none"}]

Init ==
  /\ Sup!Init
  /\ main = "start"
  /\ sock = "absent"
  /\ sigterm = FALSE /\ trigger = FALSE /\ fired = FALSE
  /\ faults = 0
  /\ conn = [c \in Conn |-> "none"]
  /\ req = [c \in Conn |-> "none"]
  /\ reply = [c \in Conn |-> "none"]

-----------------------------------------------------------------------------
(* Start-up: nothing suspends before the accept loop, so the task that     *)
(* handles SIGTERM has not run yet.                                        *)

StartUp(at, next, file) ==
  /\ main = at /\ main' = next
  /\ sock' = file
  /\ UNCHANGED <<sigterm, fired, faults, connVars, supVars>>

RemoveStaleSkipped == StartUp("start", "bind", sock) /\ UNCHANGED trigger
RemoveStale == StartUp("start", "bind", "absent") /\ UNCHANGED trigger
Bind == sock = "absent" /\ StartUp("bind", "chmod", "bound") /\ UNCHANGED trigger
Chmod == StartUp("chmod", "serving", "open") /\ trigger' = TRUE

-----------------------------------------------------------------------------
(* The end of the process, and its next start.                             *)

(* The runtime is dropped, every connection is closed; only leaving the    *)
(* accept loop removes the socket file.                                    *)
Ends(how) ==
  /\ Sup!Teardown
  /\ main' = how
  /\ sock' = IF sock \in {"bound", "open"} THEN "stale" ELSE sock
  /\ sigterm' = FALSE /\ trigger' = FALSE /\ fired' = FALSE
  /\ conn' = [c \in Conn |-> "none"]
  /\ req' = [c \in Conn |-> "none"]
  /\ reply' = [c \in Conn |-> "none"]

(* SIGTERM before its handler is registered: the default action.           *)
EarlySigterm ==
  /\ main \in {"start", "bind", "chmod"}
  /\ Ends("exited")
  /\ UNCHANGED faults

(* An error of a start-up call returned from main(), a SIGKILL, or a panic *)
(* in any task: the release build aborts, as with a clock before 1970.     *)
Crash ==
  /\ faults < MaxFaults
  /\ faults' = faults + 1
  /\ Ends("failed")

Sigterm ==
  /\ main = "serving"
  /\ sigterm' = TRUE
  /\ UNCHANGED <<main, sock, trigger, fired, faults, connVars, supVars>>

(* The select! sees one of the two channels; serve() removes the socket    *)
(* file (an error is ignored), the listener is dropped with its backlog,   *)
(* and main() goes on to stop mihomo.  Open connections stay.              *)
BeginDrain ==
  /\ main = "serving"
  /\ sigterm \/ fired
  /\ main' = "draining"
  /\ sock' \in {"absent", "stale"}
  /\ conn' = [c \in Conn |-> IF conn[c] = "backlog" THEN "none" ELSE conn[c]]
  /\ Sup!Call(Main, "stop")
  /\ UNCHANGED <<sigterm, trigger, fired, faults, req, reply>>

ExitInGrace ==
  /\ main = "draining"
  /\ pc[Main] \in {"grace", "done"}
  /\ Ends("exited")
  /\ UNCHANGED faults

ExitTryLock ==
  /\ main = "draining"
  /\ pc[Main] = "done" \/ (pc[Main] = "stop" /\ ~Sup!Holds(Main))
  /\ Ends("exited")
  /\ UNCHANGED faults

(* main() returns with the guard: whoever waits for the mutex never runs.  *)
Exit ==
  /\ main = "draining"
  /\ pc[Main] = "done"
  /\ Ends("exited")
  /\ UNCHANGED faults

(* The service manager starts the helper again; an administrator or a boot *)
(* may do so after a clean exit as well.                                   *)
Relaunch ==
  /\ Sup!Relaunch
  /\ main' = "start"
  /\ UNCHANGED <<sock, sigterm, trigger, fired, faults, connVars>>

Restarts == (KeepAlive \/ main = "failed") /\ Relaunch

-----------------------------------------------------------------------------
(* Connections.                                                            *)

Goes(c, to) == conn' = [conn EXCEPT ![c] = to]

ClientConnects(c) ==
  /\ sock = "open"
  /\ conn[c] = "none"
  /\ Goes(c, "backlog")
  /\ UNCHANGED <<loopVars, req, reply, supVars>>

(* Without a free descriptor accept() fails and the loop sleeps 200 ms.    *)
Accept(c) ==
  /\ main = "serving"
  /\ conn[c] = "backlog"
  /\ Cardinality({d \in Conn : conn[d] \in {"reading", "busy"}}) < MaxOpen
  /\ Goes(c, "reading")
  /\ UNCHANGED <<loopVars, req, reply, supVars>>

Reads(c, r) ==
  /\ conn[c] = "reading"
  /\ r \in Requests
  /\ req' = [req EXCEPT ![c] = r]

Answer(c, res) ==
  /\ Goes(c, "done")
  /\ reply' = [reply EXCEPT ![c] = res]

DnsCommands == {"SetDns", "ClearDns"}

(* What is answered without a suspension.  A frame that does not parse is  *)
(* an error of handle_connection: the connection closes with no response.  *)
Immediate ==
  [Stale  |-> "Replayed", Forged     |-> "BadHmac", Garbage |-> "eof",
   Ping   |-> "Pong",     GetVersion |-> "Version",
   SetDns |-> "DnsSet",   ClearDns   |-> "DnsCleared"]

AnswerNow(c) ==
  \E r \in DOMAIN Immediate \ (IF MacOS THEN DnsCommands ELSE {}) :
    /\ Reads(c, r)
    /\ Answer(c, Immediate[r])
    /\ UNCHANGED <<loopVars, supVars>>

ClientHangsUpLeaks(c) ==
  /\ conn[c] = "reading"
  /\ Goes(c, "busy")
  /\ UNCHANGED <<loopVars, req, reply, supVars>>

(* The stream ends before a whole frame has come.                          *)
ClientHangsUp(c) ==
  /\ conn[c] = "reading"
  /\ Answer(c, "eof")
  /\ UNCHANGED <<loopVars, req, supVars>>

ShutdownUnfired(c) ==
  /\ Reads(c, "Shutdown")
  /\ trigger' = FALSE
  /\ Answer(c, "ShuttingDown")
  /\ UNCHANGED <<main, sock, sigterm, fired, faults, supVars>>

(* The first Shutdown takes the Sender and fires it; all are answered.     *)
Shutdown(c) ==
  /\ Reads(c, "Shutdown")
  /\ trigger' = FALSE
  /\ fired' = (fired \/ trigger)
  /\ Answer(c, "ShuttingDown")
  /\ UNCHANGED <<main, sock, sigterm, faults, supVars>>

CallSupervisor(c) ==
  /\ \E r \in {"StartMihomo", "StopMihomo"} :
       /\ Reads(c, r)
       /\ Sup!Call(c, IF r = "StopMihomo" THEN "stop" ELSE "start")
  /\ Goes(c, "busy")
  /\ UNCHANGED <<loopVars, reply>>

CallDns(c) ==
  /\ MacOS
  /\ \E r \in DnsCommands : Reads(c, r)
  /\ Goes(c, "busy")
  /\ UNCHANGED <<loopVars, reply, supVars>>

DnsReply(c) ==
  /\ conn[c] = "busy" /\ req[c] \in DnsCommands
  /\ \E res \in {Immediate[req[c]], "Internal"} : Answer(c, res)
  /\ UNCHANGED <<loopVars, req, supVars>>


ReplyNotRunning(c) ==
  /\ Sup!Release(c)
  /\ Answer(c, IF req[c] = "StopMihomo" THEN "NotRunning" ELSE result[c])
  /\ UNCHANGED <<loopVars, req>>

(* The guard is dropped and the response written in the same poll.  The    *)
(* handler finds AlreadyRunning in the text of the error.                  *)
Reply(c) ==
  /\ Sup!Release(c)
  /\ Answer(c, result[c])
  /\ UNCHANGED <<loopVars, req>>

Forget(c) ==
  /\ conn[c] = "done"
  /\ Goes(c, "none")
  /\ req' = [req EXCEPT ![c] = "none"]
  /\ reply' = [reply EXCEPT ![c] = "none"]
  /\ UNCHANGED <<loopVars, supVars>>

-----------------------------------------------------------------------------
(* The supervisor calls under way, and the processes.                      *)

Works(t) == Sup!Step(t) /\ UNCHANGED <<loopVars, connVars>>

MihomoExits(p)  == Sup!MihomoExits(p)  /\ UNCHANGED <<loopVars, connVars>>
OrphanReaped(p) == Sup!OrphanReaped(p) /\ UNCHANGED <<loopVars, connVars>>
GroupKilled(p)  == Sup!GroupKilled(p)  /\ UNCHANGED <<loopVars, connVars>>

Process(p) == MihomoExits(p) \/ OrphanReaped(p) \/ GroupKilled(p)

Client(c) == ClientConnects(c) \/ ClientHangsUp(c) \/ AnswerNow(c)
               \/ Shutdown(c) \/ CallSupervisor(c) \/ CallDns(c) \/ Forget(c)

Loop == RemoveStale \/ Bind \/ Chmod \/ BeginDrain \/ Exit

Next ==
  \/ Loop \/ Relaunch \/ EarlySigterm \/ Crash \/ Sigterm
  \/ \E c \in Conn : Client(c) \/ Accept(c) \/ DnsReply(c) \/ Reply(c)
  \/ \E t \in Task : Works(t)
  \/ \E p \in Pid : Process(p)

Spec == Init /\ [][Next]_vars

(* Every woken task is polled; select! polls its branches in random order, *)
(* so a stream of clients does not keep the loop from seeing a shutdown;   *)
(* SIGKILL is obeyed; the service manager restarts what it must.  The      *)
(* kernel keeps the backlog in order, so a client there gets its turn once *)
(* accept() succeeds again and again.  Nothing is assumed of clients,      *)
(* mihomo may ignore SIGTERM, and a DNS command may hang for ever:         *)
(* networksetup is run with no timeout (dns_macos.rs:82).                  *)
Fairness ==
  /\ WF_vars(Loop) /\ WF_vars(Restarts)
  /\ \A c \in Conn : WF_vars(Reply(c)) /\ SF_vars(Accept(c))
  /\ \A t \in Task : WF_vars(Works(t))
  /\ \A p \in Pid : /\ WF_vars(GroupKilled(p))
                    /\ WF_vars(proc[p] = "kill" /\ MihomoExits(p))

FairSpec == Spec /\ Fairness

-----------------------------------------------------------------------------
(* Properties.                                                             *)

(* At most one mihomo, across crashes and restarts of the helper.          *)
AtMostOneMihomo == Sup!AtMostOneMihomo

(* A helper that exits by itself leaves no mihomo behind (sc_helper.rs:108 *)
(* "stop any mihomo we spawned"), whatever requests raced the shutdown.    *)
CleanExitLeavesNoMihomo == main = "exited" => Sup!LivePids = {}

(* A clean exit cuts off no start or stop that has taken effect: the only  *)
(* requests it drops still wait for the mutex.                             *)
ExitOwesNoReply ==
  [][main = "draining" /\ main' = "exited"
       => \A c \in Conn : pc[c] \in {"idle", "start", "stop"}]_vars

(* A Shutdown that was answered, and a SIGTERM, end the process, although  *)
(* idle clients stay connected and mihomo may ignore its SIGTERM.          *)
ShutdownHonoured ==
  (sigterm \/ \E c \in Conn : reply[c] = "ShuttingDown")
    ~> main \in {"exited", "failed"}

(* After a crash the helper serves again (or was told to go), although the *)
(* crash left its socket file and maybe a mihomo.                          *)
RecoversFromCrash == main = "failed" ~> main \in {"serving", "exited"}

InDnsCommand(c) == conn[c] = "busy" /\ req[c] \in DnsCommands


(* A client in the backlog is accepted, or refused by a shutdown, although *)
(* descriptors are few and starts and stops slow, as long as no connection *)
(* keeps its descriptor for ever: neither a client that sends nothing nor  *)
(* a DNS command that hangs.                                               *)
ConnectionsAccepted ==
  (\A c \in Conn : []<>(conn[c] # "reading" /\ ~InDnsCommand(c)))
    => \A c \in Conn : conn[c] = "backlog" ~> conn[c] # "backlog"

(* Connections and main() are answered as by the one-slot service of       *)
(* MihomoSlot, although the handlers, the drain and crashes are in between *)
(* (core.rs:7 "don't double-spawn").                                       *)
SlotSpec == Sup!SlotSpec

(* A frame that does not parse is answered BadRequest (ipc.rs:102).        *)
GarbageIsBadRequest ==
  \A c \in Conn : conn[c] = "done" /\ req[c] = "Garbage"
                    => reply[c] = "BadRequest"
=============================================================================
