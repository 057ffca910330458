------------------------------ MODULE Exchange ------------------------------
(***************************************************************************)
(* One request and its response, byte by byte: the frames of ipc.rs on a   *)
(* stream that delivers them in pieces, the two checks of                  *)
(* handle_request(), and the tool sc-helper-ping that turns the response   *)
(* into an exit code.  Either end may go away; the wall clock, which both  *)
(* ends read, may be set at any time; the helper may be out of descriptors.*)
(*                                                                         *)
(* The model is of the release build, where a panic aborts the process     *)
(* that panics (Cargo.toml:94).                                            *)
(***************************************************************************)
EXTENDS Integers, Sequences

CONSTANTS
  Base,          \* values of a byte; a length takes two of them (there four)
  Cap,           \* MAX_FRAME_BYTES
  ClockMod,      \* 2^64: timestamps are u64
  Window,        \* REPLAY_WINDOW_NANOS
  Secret,        \* secrets that releases are built with
  HelperSecret,  \* IPC_SECRET of this helper
  RequestSize, ResponseSize  \* bytes of the two JSON bodies

ASSUME ExchangeAssumption ==
  /\ Base \in Nat \ {0, 1} /\ Cap \in Nat
  /\ ClockMod \in Nat /\ Window \in 0..(ClockMod - 1)
  /\ HelperSecret \in Secret
  /\ RequestSize \in 1..Cap /\ ResponseSize \in 1..Cap /\ Cap < Base * Base

VARIABLES
  clock,    \* the wall clock; a negative one predates 1970
  tool,     \* the client is sc-helper-ping, not another program
  at,       \* at["client"], at["helper"]: where each end is
  request,  \* what the tool has put into its frame
  pipe,     \* pipe[e]: bytes on their way to e
  buf,      \* buf[e]: bytes read_frame() has taken
  code,     \* the tool's exit code
  full,     \* the helper has no free descriptor
  judged,   \* the clock when the helper checked the request (history)
  mishap    \* the helper has ended, or was full when the tool connected, or
            \* the tool read a clock before 1970 (history)

vars == <<clock, tool, at, request, pipe, buf, code, full, judged, mishap>>

End   == {"client", "helper"}
Clock == -1..(ClockMod - 1)
None  == -2
Place == {"start", "connect", "backlog", "write", "read", "parse", "closed"}

\* what a shell shows of a process that SIGABRT has ended
Aborted == 134
NoRequest == [kind |-> "none", ts |-> 0, mac |-> <<>>, cmd |-> "Ping"]

(* A byte is a pair: what it belongs to, and its value in a length.        *)
Encode(m) ==
  [i \in 1..(IF m.kind = "request" THEN RequestSize ELSE ResponseSize) |-> <<m, 1>>]

DigitsLittleEndian(n) == <<n % Base, n \div Base>>

(* to_be_bytes() and, in Length, from_be_bytes()                           *)
Digits(n) == <<n \div Base, n % Base>>

Frame(n, body) ==
  [i \in 1..2 |-> <<[kind |-> "length"], Digits(n)[i]>>] \o body

(* serde_json::from_slice: exactly the bytes of a message of this kind.    *)
Parses(body, kind) ==
  body # <<>> /\ body[1][1].kind = kind /\ body = Encode(body[1][1])

Junk == <<[kind |-> "junk"], 1>>

TypeOK ==
  /\ clock \in Clock /\ tool \in BOOLEAN
  /\ at \in [End -> Place]
  /\ request.ts \in 0..(ClockMod - 1)
  /\ \A e \in End : Len(buf[e]) <= 2 + Cap
  /\ code \in {None, 0, 1, 2, 3, Aborted}
  /\ judged \in Clock \cup {None} /\ {full, mishap} \subseteq BOOLEAN

Init ==
  /\ clock \in Clock /\ tool \in BOOLEAN
  /\ at = [client |-> "start", helper |-> "start"]
  /\ request = NoRequest
  /\ pipe = [e \in End |-> <<>>] /\ buf = [e \in End |-> <<>>]
  /\ code = None /\ full = FALSE /\ judged = None /\ mishap = FALSE

-----------------------------------------------------------------------------
(* read_frame(), the same at both ends.                                    *)
Peer(e) == IF e = "client" THEN "helper" ELSE "client"
Goto(e, place) == at' = [at EXCEPT ![e] = place]

Length(b) == b[1][2] * Base + b[2][2]
Missing(e) ==
  IF Len(buf[e]) < 2 THEN 2 - Len(buf[e]) ELSE 2 + Length(buf[e]) - Len(buf[e])
TooLargeIgnored(e) == FALSE
TooLarge(e) == Len(buf[e]) = 2 /\ Length(buf[e]) > Cap

Least(m, n) == IF m < n THEN m ELSE n

(* read_exact() takes what has arrived and goes on until it has enough.    *)
ReadSome(e) ==
  /\ at[e] = "read" /\ ~TooLarge(e)
  /\ \E n \in 1..Least(Missing(e), Len(pipe[e])) :
       /\ buf'  = [buf EXCEPT ![e] = @ \o SubSeq(pipe[e], 1, n)]
       /\ pipe' = [pipe EXCEPT ![e] = SubSeq(@, n + 1, Len(@))]
  /\ UNCHANGED <<clock, tool, at, request, code, full, judged, mishap>>

HasFrame(e) == Len(buf[e]) >= 2 /\ ~TooLarge(e) /\ Missing(e) = 0
Body(e) == SubSeq(buf[e], 3, Len(buf[e]))

FrameRead(e) ==
  /\ at[e] = "read" /\ HasFrame(e)
  /\ Goto(e, "parse")
  /\ UNCHANGED <<clock, tool, request, pipe, buf, code, full, judged, mishap>>

ReadErrorNoEof(e) ==
  /\ at[e] = "read"
  /\ TooLarge(e)

ReadErrorAtClose(e) ==
  /\ at[e] = "read"
  /\ TooLarge(e) \/ (Missing(e) > 0 /\ at[Peer(e)] = "closed")

(* An oversized length, or a stream that ends too early.                   *)
ReadError(e) ==
  /\ at[e] = "read"
  /\ \/ TooLarge(e)
     \/ Missing(e) > 0 /\ pipe[e] = <<>> /\ at[Peer(e)] = "closed"

(* write_frame(): the bytes go out, or the peer is gone.                   *)
Write(e, f) == pipe' = [pipe EXCEPT ![Peer(e)] = @ \o f]

-----------------------------------------------------------------------------
(* sc-helper-ping                                                          *)
Exit(n) == Goto("client", "closed") /\ code' = n

(* now_nanos() panics on a clock before 1970, and the tool aborts.         *)
Start ==
  /\ tool /\ at["client"] = "start"
  /\ IF clock < 0
     THEN Exit(Aborted) /\ UNCHANGED request
     ELSE /\ \E key \in Secret, cmd \in {"Ping", "GetVersion"} :
               request' = [kind |-> "request", ts |-> clock, cmd |-> cmd,
                           mac |-> <<key, clock, cmd>>]
          /\ Goto("client", "connect") /\ UNCHANGED code
  /\ mishap' = (mishap \/ clock < 0)
  /\ UNCHANGED <<clock, tool, pipe, buf, full, judged>>

(* connect() is done once the kernel has queued the connection.  It fails  *)
(* when nobody listens, and when the queue is full too because the helper  *)
(* accepts nothing.                                                        *)
Connect ==
  /\ at["client"] = "connect"
  /\ \/ (at["helper"] = "closed" \/ full) /\ Exit(1)
     \/ /\ at["helper"] # "closed"
        /\ at' = [client |-> "write", helper |-> "backlog"] /\ UNCHANGED code
  /\ UNCHANGED <<clock, tool, request, pipe, buf, full, judged, mishap>>

Send ==
  /\ tool /\ at["client"] = "write"
  /\ IF at["helper"] = "closed" THEN Exit(1) /\ UNCHANGED pipe
     ELSE /\ Write("client", Frame(RequestSize, Encode(request)))
          /\ Goto("client", "read") /\ UNCHANGED code
  /\ UNCHANGED <<clock, tool, request, buf, full, judged, mishap>>

ExitCode(reply) ==
  CASE reply \in {"Pong", "Version"}     -> 0
    [] reply \in {"Replayed", "BadHmac"} -> 2
    [] OTHER                             -> 3

Receive ==
  /\ tool
  /\ \/ at["client"] = "parse" /\ Parses(Body("client"), "response")
        /\ Exit(ExitCode(Body("client")[1][1].reply))
     \/ at["client"] = "parse" /\ ~Parses(Body("client"), "response") /\ Exit(1)
     \/ ReadError("client") /\ Exit(1)
  /\ UNCHANGED <<clock, tool, request, pipe, buf, full, judged, mishap>>

(* Another client, perhaps confused: any length before any body, and it    *)
(* may hang up or wait.                                                    *)
OtherClient ==
  /\ ~tool
  /\ \/ /\ at["client"] = "start" /\ at["helper"] = "start"
        /\ at' = [client |-> "write", helper |-> "backlog"]
        /\ UNCHANGED pipe
     \/ /\ at["client"] = "write" /\ at["helper"] # "closed"
        /\ \E n \in 0..(Base * Base - 1), sent \in {0, RequestSize, Cap + 1} :
             Write("client", Frame(n, [i \in 1..sent |-> Junk]))
        /\ Goto("client", "read")
     \/ at["client"] # "closed" /\ Goto("client", "closed") /\ UNCHANGED pipe
  /\ UNCHANGED <<clock, tool, request, buf, code, full, judged, mishap>>

-----------------------------------------------------------------------------
(* The helper: the accept loop, handle_connection() and the checks of      *)
(* handle_request().                                                       *)

(* Without a free descriptor accept() fails, and the loop tries again      *)
(* after 200 ms.                                                           *)
Accept ==
  /\ at["helper"] = "backlog" /\ ~full
  /\ Goto("helper", "read")
  /\ UNCHANGED <<clock, tool, request, pipe, buf, code, full, judged, mishap>>

FreshUnsigned(ts, now) == (now - ts) % ClockMod <= Window

(* timestamp_fresh(), on u64.                                              *)
Fresh(ts, now) ==
  IF now > ts THEN (now - ts) % ClockMod <= Window
  ELSE (ts - now) % ClockMod <= Window

VerifyHmac(r) == r.mac = <<HelperSecret, r.ts, r.cmd>>

Reply(r) ==
  IF ~Fresh(r.ts, clock) THEN "Replayed"
  ELSE IF ~VerifyHmac(r) THEN "BadHmac"
  ELSE [Ping |-> "Pong", GetVersion |-> "Version"][r.cmd]

(* The response is written, unless the client has gone.                    *)
Respond ==
  /\ at["helper"] = "parse"
  /\ Parses(Body("helper"), "request")
  /\ clock >= 0
  /\ IF at["client"] = "closed" THEN UNCHANGED pipe
     ELSE Write("helper", Frame(ResponseSize,
            Encode([kind |-> "response", reply |-> Reply(Body("helper")[1][1])])))
  /\ judged' = clock
  /\ Goto("helper", "closed")
  /\ UNCHANGED <<clock, tool, request, buf, code, full, mishap>>

(* The connection is closed without a response: a broken frame, or a body  *)
(* that does not parse.                                                    *)
Drop ==
  /\ \/ ReadError("helper")
     \/ at["helper"] = "parse" /\ ~Parses(Body("helper"), "request")
  /\ Goto("helper", "closed")
  /\ UNCHANGED <<clock, tool, request, pipe, buf, code, full, judged, mishap>>

(* The process ends, or has left the accept loop and drops its backlog.    *)
HelperGoes ==
  /\ Goto("helper", "closed")
  /\ mishap' = TRUE
  /\ UNCHANGED <<clock, tool, request, pipe, buf, code, full, judged>>

(* timestamp_fresh() panics on a clock before 1970, and the helper aborts  *)
(* with all of its connections.                                            *)
HelperAborts ==
  /\ at["helper"] = "parse" /\ Parses(Body("helper"), "request")
  /\ clock < 0
  /\ HelperGoes

(* A stop, a crash, or an abort over another client's request.             *)
HelperEnds == at["helper"] # "closed" /\ HelperGoes

(* Other clients take the last descriptor, or give one back.               *)
OthersCome ==
  /\ ~full /\ full' = TRUE
  /\ mishap' = (mishap \/ at["client"] \in {"start", "connect"})
  /\ UNCHANGED <<clock, tool, at, request, pipe, buf, code, judged>>

OthersGo ==
  /\ full /\ full' = FALSE
  /\ UNCHANGED <<clock, tool, at, request, pipe, buf, code, judged, mishap>>

SetClock ==
  /\ clock' \in Clock \ {clock}
  /\ UNCHANGED <<tool, at, request, pipe, buf, code, full, judged, mishap>>

ClientStep == \/ ReadSome("client") \/ FrameRead("client")
              \/ Start \/ Connect \/ Send \/ Receive
HelperStep == \/ Accept \/ ReadSome("helper") \/ FrameRead("helper")
              \/ Respond \/ Drop \/ HelperAborts

Next == \/ ClientStep \/ HelperStep \/ OtherClient \/ HelperEnds
        \/ OthersCome \/ OthersGo \/ SetClock

Spec == Init /\ [][Next]_vars

(* Both ends are polled when bytes or the end of the stream arrive, and    *)
(* the accept loop when a connection is queued.  Nothing is assumed of the *)
(* other clients: they may keep every descriptor for ever, or leave one    *)
(* free only between two tries of the loop.                                *)
FairSpec == Spec /\ WF_vars(ClientStep) /\ WF_vars(HelperStep)

-----------------------------------------------------------------------------
(* Properties.                                                             *)

(* However the bytes are cut up and the clock is set, the exit code says   *)
(* what happened: 0 if the helper found the request signed with its secret *)
(* and no older or newer than the window, 2 if it did not, and 1 or an     *)
(* abort only after a mishap; 3 never (ping.rs:42-61: Pong and Version     *)
(* exit with 0, an error of the helper with 2).                            *)
Acceptable == /\ request.mac[1] = HelperSecret
              /\ judged - request.ts <= Window /\ request.ts - judged <= Window

ExitCodeTells ==
  /\ code = 0 => judged # None /\ Acceptable
  /\ code = 2 => judged # None /\ ~Acceptable
  /\ code \in {1, Aborted} => mishap
  /\ code # 3

Talk == INSTANCE Conversation WITH
  asked <- [at |-> IF request.kind = "none" THEN None ELSE request.ts,
            genuine |-> VerifyHmac(request)]

(* Whatever the frames go through, the helper judges the request that was  *)
(* sent and no other, at most once and while the tool waits; a judgement   *)
(* always reaches the tool, and only a mishap before it makes the tool     *)
(* fail (ping.rs:4, server.rs:36-61).                                      *)
ConversationSpec == Talk!Spec

(* The tool, which has no timeout (ping.rs:80), does not hang as long as   *)
(* the helper does not stay out of descriptors: every exchange comes to an *)
(* exit code, even if the helper goes away in the middle of it.            *)
ToolExits == <>[]~full => (tool ~> code # None)

(* A client that has hung up costs the helper no connection for long,      *)
(* whatever part of a frame it has sent.                                   *)
ConnectionReleased ==
  at["client"] = "closed" ~> at["helper"] \notin {"read", "parse"}
=============================================================================
