--------------------------- MODULE ExchangeProofs ---------------------------
(***************************************************************************)
(* The safety properties of Exchange, for frames of any size cut up in any *)
(* way, any clock, window and cap, and any set of secrets.                 *)
(***************************************************************************)
EXTENDS Exchange, SequenceTheorems, TLAPS

-----------------------------------------------------------------------------
(* What travels.                                                           *)
Stamp    == 0..(ClockMod - 1)
Commands == {"Ping", "GetVersion"}
Verdicts == {"Pong", "Version", "Replayed", "BadHmac"}

Requests  == [kind : {"request"}, ts : Stamp, cmd : Commands,
              mac : Secret \X Stamp \X Commands]
Responses == [kind : {"response"}, reply : Verdicts]
Message   == [kind : {"length", "junk"}] \cup Requests \cup Responses
Byte      == Message \X Int

(* All that has been sent to e so far: what it has read and what it has    *)
(* not.                                                                    *)
Stream(e) == buf[e] \o pipe[e]

(* What read_frame() returns of the bytes it has taken.                    *)
Payload(b) == SubSeq(b, 3, Len(b))

RequestFrame == Frame(RequestSize, Encode(request))
ResponseFrame(v) ==
  Frame(ResponseSize, Encode([kind |-> "response", reply |-> v]))

(* What the helper answers to the tool's request when it reads the clock   *)
(* at this moment.                                                         *)
Verdict(now) ==
  IF ~Fresh(request.ts, now) THEN "Replayed"
  ELSE IF ~VerifyHmac(request) THEN "BadHmac"
  ELSE [Ping |-> "Pong", GetVersion |-> "Version"][request.cmd]

Signed == request.mac = <<request.mac[1], request.ts, request.cmd>>

-----------------------------------------------------------------------------
(* The invariant.                                                          *)
StateType ==
  /\ clock \in Clock /\ tool \in BOOLEAN
  /\ at \in [End -> Place]
  /\ request \in Requests \cup {NoRequest}
  /\ pipe \in [End -> Seq(Byte)] /\ buf \in [End -> Seq(Byte)]
  /\ code \in {None, 0, 1, 2, 3, Aborted}
  /\ judged \in Stamp \cup {None} /\ full \in BOOLEAN /\ mishap \in BOOLEAN

(* A frame is read no further than its length says, and that is not above  *)
(* the cap; it is parsed when it is complete.                              *)
ReadInv(e) ==
  /\ Len(buf[e]) > 2 =>
       Length(buf[e]) <= Cap /\ Len(buf[e]) <= 2 + Length(buf[e])
  /\ at[e] = "parse" => HasFrame(e)

(* Before the tool sends, the helper has nothing; afterwards, as long as   *)
(* somebody reads, the request and no more.                                *)
ToHelper ==
  /\ at["client"] \in {"start", "connect", "write"} => Stream("helper") = <<>>
  /\ at["client"] \in {"connect", "write", "read", "parse"} =>
       request \in Requests /\ Signed
  /\ at["client"] \in {"read", "parse"} => Stream("helper") = RequestFrame

(* Before the helper judges, the tool has nothing; afterwards the verdict. *)
ToClient ==
  /\ judged = None => Stream("client") = <<>>
  /\ judged # None /\ at["client"] # "closed" =>
       /\ at["client"] \in {"read", "parse"}
       /\ Stream("client") = ResponseFrame(Verdict(judged))

(* Who waits for whom: a tool that has left was not waited for, and a      *)
(* helper that left without a judgement met with a mishap, as did a tool   *)
(* that cannot be queued.                                                  *)
Ends ==
  /\ at["client"] # "closed" => code = None
  /\ at["client"] # "backlog"
  /\ at["client"] \in {"start", "connect", "closed"} =>
       at["helper"] \in {"start", "closed"}
  /\ judged # None => at["helper"] = "closed"
  /\ at["helper"] = "closed" /\ judged = None => mishap
  /\ at["client"] \in {"start", "connect"} /\ full => mishap

ToolInv == tool => ToHelper /\ ToClient /\ Ends

OtherInv == ~tool => code = None /\ at["client"] # "connect"

Inv == /\ StateType /\ \A e \in End : ReadInv(e)
       /\ ToolInv /\ OtherInv /\ ExitCodeTells

-----------------------------------------------------------------------------
(* Frames.                                                                 *)

LEMMA ConstantSeq ==
  ASSUME NEW S, NEW n \in Nat, NEW x \in S
  PROVE  /\ [i \in 1..n |-> x] \in Seq(S)
         /\ Len([i \in 1..n |-> x]) = n
<1>1. [i \in 1..n |-> x] \in [1..n -> S]
  OBVIOUS
<1> QED
  BY <1>1, SeqDef

(* The two digits of a length are its value.                               *)
LEMMA DigitsValue ==
  ASSUME NEW n \in Nat
  PROVE  /\ Digits(n)[1] \in Int /\ Digits(n)[2] \in Int
         /\ Digits(n)[1] * Base + Digits(n)[2] = n
<1>1. Base \in Nat /\ Base > 0
  BY ExchangeAssumption
<1>2. n \div Base \in Int /\ n % Base \in Int
  BY <1>1
<1>3. n = Base * (n \div Base) + (n % Base)
  BY <1>1
<1> QED
  BY <1>1, <1>2, <1>3 DEF Digits

LEMMA FrameIs ==
  ASSUME NEW n \in Nat, NEW body \in Seq(Byte)
  PROVE  /\ Frame(n, body) \in Seq(Byte)
         /\ Len(Frame(n, body)) = 2 + Len(body)
         /\ Length(Frame(n, body)) = n
         /\ \A i \in 1..Len(body) : Frame(n, body)[i + 2] = body[i]
<1> DEFINE h == [i \in 1..2 |-> <<[kind |-> "length"], Digits(n)[i]>>]
<1>1. /\ h[1] = <<[kind |-> "length"], Digits(n)[1]>>
      /\ h[2] = <<[kind |-> "length"], Digits(n)[2]>>
  OBVIOUS
<1>2. h \in [1..2 -> Byte]
  <2>1. [kind |-> "length"] \in Message
    BY DEF Message
  <2>2. \A i \in 1..2 : Digits(n)[i] \in Int
    BY DigitsValue
  <2> QED
    BY <2>1, <2>2 DEF Byte
<1>3. h \in Seq(Byte) /\ Len(h) = 2
  BY <1>2, SeqDef
<1>4. Frame(n, body) = h \o body
  BY DEF Frame
<1> HIDE DEF h
<1>5. /\ Frame(n, body) \in Seq(Byte)
      /\ Len(Frame(n, body)) = 2 + Len(body)
      /\ \A i \in 1..(2 + Len(body)) :
           Frame(n, body)[i] = IF i <= 2 THEN h[i] ELSE body[i - 2]
  <2>1. /\ h \o body \in Seq(Byte)
        /\ Len(h \o body) = Len(h) + Len(body)
        /\ \A i \in 1..(Len(h) + Len(body)) :
             (h \o body)[i] = IF i <= Len(h) THEN h[i] ELSE body[i - Len(h)]
    BY <1>3, ConcatProperties
  <2> QED
    BY <1>3, <1>4, <2>1
<1>6. Len(body) \in Nat
  BY LenProperties
<1>7. Frame(n, body)[1] = h[1] /\ Frame(n, body)[2] = h[2]
  BY <1>5, <1>6
<1>8. Length(Frame(n, body)) = n
  BY <1>1, <1>7, DigitsValue DEF Length
<1>9. \A i \in 1..Len(body) : Frame(n, body)[i + 2] = body[i]
  BY <1>5, <1>6
<1> QED
  BY <1>5, <1>8, <1>9

LEMMA EncodeRequest ==
  ASSUME NEW m \in Requests
  PROVE  /\ Encode(m) \in Seq(Byte) /\ Len(Encode(m)) = RequestSize
         /\ Encode(m)[1] = <<m, 1>> /\ Encode(m) # <<>>
<1>1. m.kind = "request" /\ m \in Message
  BY DEF Requests, Message
<1>2. Encode(m) = [i \in 1..RequestSize |-> <<m, 1>>]
  BY <1>1 DEF Encode
<1>3. <<m, 1>> \in Byte /\ RequestSize \in Nat /\ RequestSize >= 1
  BY <1>1, ExchangeAssumption DEF Byte
<1>4. Encode(m) \in Seq(Byte) /\ Len(Encode(m)) = RequestSize
  BY <1>2, <1>3, ConstantSeq
<1>5. Encode(m)[1] = <<m, 1>>
  BY <1>2, <1>3
<1> QED
  BY <1>3, <1>4, <1>5, EmptySeq

LEMMA EncodeResponse ==
  ASSUME NEW m \in Responses
  PROVE  /\ Encode(m) \in Seq(Byte) /\ Len(Encode(m)) = ResponseSize
         /\ Encode(m)[1] = <<m, 1>> /\ Encode(m) # <<>>
<1>1. m.kind = "response" /\ m \in Message
  BY DEF Responses, Message
<1>2. Encode(m) = [i \in 1..ResponseSize |-> <<m, 1>>]
  BY <1>1 DEF Encode
<1>3. <<m, 1>> \in Byte /\ ResponseSize \in Nat /\ ResponseSize >= 1
  BY <1>1, ExchangeAssumption DEF Byte
<1>4. Encode(m) \in Seq(Byte) /\ Len(Encode(m)) = ResponseSize
  BY <1>2, <1>3, ConstantSeq
<1>5. Encode(m)[1] = <<m, 1>>
  BY <1>2, <1>3
<1> QED
  BY <1>3, <1>4, <1>5, EmptySeq

-----------------------------------------------------------------------------
(* Reading.                                                                *)

LEMMA LengthInt ==
  ASSUME NEW b \in Seq(Byte), Len(b) >= 2
  PROVE  Length(b) \in Int
<1>1. b[1] \in Byte /\ b[2] \in Byte
  BY LenProperties, ElementOfSeq
<1>2. b[1][2] \in Int /\ b[2][2] \in Int /\ Base \in Int
  BY <1>1, ExchangeAssumption DEF Byte
<1> QED
  BY <1>2 DEF Length

LEMMA PayloadType ==
  ASSUME NEW b \in Seq(Byte)
  PROVE  Payload(b) \in Seq(Byte)
<1>1. Len(b) \in Nat
  BY LenProperties
<1>2. \A i \in 3..Len(b) : b[i] \in Byte
  BY <1>1, ElementOfSeq
<1> QED
  BY <1>1, <1>2, SubSeqProperties DEF Payload

(* However a stream is cut, a reader of a whole frame sees its length as   *)
(* soon as it has two bytes, and its body once nothing is missing.         *)
Readable(b, p, n, body) ==
  /\ Len(b) + Len(p) = 2 + n
  /\ Len(b) >= 2 => Length(b) = n
  /\ Len(b) = 2 + n => p = <<>> /\ Payload(b) = body

LEMMA Prefix ==
  ASSUME NEW b \in Seq(Byte), NEW p \in Seq(Byte),
         NEW n \in Nat, NEW body \in Seq(Byte), Len(body) = n,
         b \o p = Frame(n, body)
  PROVE  Readable(b, p, n, body)
<1>1. Len(b) \in Nat /\ Len(p) \in Nat
  BY LenProperties
<1>2. /\ Len(b) + Len(p) = 2 + n
      /\ \A i \in 1..(Len(b) + Len(p)) :
           Frame(n, body)[i] = IF i <= Len(b) THEN b[i] ELSE p[i - Len(b)]
  <2>1. /\ Len(b \o p) = Len(b) + Len(p)
        /\ \A i \in 1..(Len(b) + Len(p)) :
             (b \o p)[i] = IF i <= Len(b) THEN b[i] ELSE p[i - Len(b)]
    BY ConcatProperties
  <2>2. Len(Frame(n, body)) = 2 + n
    BY FrameIs
  <2> QED
    BY <2>1, <2>2
<1>3. \A i \in 1..Len(b) : b[i] = Frame(n, body)[i]
  BY <1>1, <1>2
<1>4. ASSUME Len(b) >= 2 PROVE Length(b) = n
  <2>1. b[1] = Frame(n, body)[1] /\ b[2] = Frame(n, body)[2]
    BY <1>1, <1>3, <1>4
  <2>2. Length(b) = Length(Frame(n, body))
    BY <2>1 DEF Length
  <2> QED
    BY <2>2, FrameIs
<1>5. ASSUME Len(b) = 2 + n PROVE p = <<>> /\ Payload(b) = body
  <2>1. Len(p) = 0
    BY <1>1, <1>2, <1>5
  <2>2. p = <<>>
    BY <2>1, EmptySeq
  <2>3. \A i \in 3..Len(b) : b[i] \in Byte
    BY <1>1, ElementOfSeq
  <2>4. /\ SubSeq(b, 3, Len(b)) \in Seq(Byte)
        /\ Len(SubSeq(b, 3, Len(b))) = n
        /\ \A i \in 1..n : SubSeq(b, 3, Len(b))[i] = b[i + 2]
    BY <1>1, <1>5, <2>3, SubSeqProperties
  <2>5. \A i \in 1..n : SubSeq(b, 3, Len(b))[i] = body[i]
    <3> SUFFICES ASSUME NEW i \in 1..n PROVE SubSeq(b, 3, Len(b))[i] = body[i]
      OBVIOUS
    <3>1. SubSeq(b, 3, Len(b))[i] = b[i + 2]
      BY <2>4
    <3>2. b[i + 2] = Frame(n, body)[i + 2]
      BY <1>1, <1>3, <1>5
    <3>3. Frame(n, body)[i + 2] = body[i]
      BY FrameIs
    <3> QED
      BY <3>1, <3>2, <3>3
  <2> QED
    BY <2>2, <2>4, <2>5, SeqEqual DEF Payload
<1> QED
  BY <1>2, <1>4, <1>5 DEF Readable

LEMMA Associative ==
  \A b, p, f \in Seq(Byte) : (b \o p) \o f = b \o (p \o f)
  BY ConcatAssociative

(* Taking bytes off a stream changes neither the stream nor what has been  *)
(* taken before.                                                           *)
LEMMA Moved ==
  ASSUME NEW b \in Seq(Byte), NEW p \in Seq(Byte), NEW n \in 1..Len(p)
  PROVE  LET c == b \o SubSeq(p, 1, n)
             q == SubSeq(p, n + 1, Len(p))
         IN  /\ c \in Seq(Byte) /\ q \in Seq(Byte)
             /\ Len(c) = Len(b) + n
             /\ Len(b) >= 2 => Length(c) = Length(b)
             /\ c \o q = b \o p
<1> DEFINE s == SubSeq(p, 1, n)
           q == SubSeq(p, n + 1, Len(p))
<1>1. Len(p) \in Nat /\ Len(b) \in Nat /\ n \in Nat /\ n <= Len(p)
  BY LenProperties
<1>2. \A i \in 1..Len(p) : p[i] \in Byte
  BY ElementOfSeq
<1>3. s \in Seq(Byte) /\ Len(s) = n
  BY <1>1, <1>2, SubSeqProperties
<1>4. q \in Seq(Byte)
  BY <1>1, <1>2, SubSeqProperties
<1>5. s \o q = p
  BY <1>1, ConcatAdjacentSubSeq, SubSeqFull
<1> HIDE DEF s, q
<1>6. /\ b \o s \in Seq(Byte) /\ Len(b \o s) = Len(b) + n
      /\ \A i \in 1..(Len(b) + n) :
           (b \o s)[i] = IF i <= Len(b) THEN b[i] ELSE s[i - Len(b)]
  BY <1>3, ConcatProperties
<1>7. Len(b) >= 2 => (b \o s)[1] = b[1] /\ (b \o s)[2] = b[2]
  BY <1>1, <1>6
<1>8. (b \o s) \o q = b \o p
  <2>1. (b \o s) \o q = b \o (s \o q)
    BY <1>3, <1>4, Associative, ZenonT(60)
  <2> QED
    BY <2>1, <1>5
<1> QED
  BY <1>4, <1>6, <1>7, <1>8 DEF Length, s, q
-----------------------------------------------------------------------------
(* Judging.                                                                *)

LEMMA RequestByte ==
  ASSUME NEW m \in Message, m.kind = "request"
  PROVE  m \in Requests
  BY DEF Message, Responses

(* Differences of two u64 do not wrap.                                     *)
LEMMA FreshIs ==
  ASSUME NEW ts \in Stamp, NEW now \in Stamp
  PROVE  Fresh(ts, now) <=> now - ts <= Window /\ ts - now <= Window
<1>1. ClockMod \in Nat /\ Window \in Nat
  BY ExchangeAssumption
<1>2. \A d \in 0..(ClockMod - 1) : d % ClockMod = d
  BY <1>1
<1>3. CASE now > ts
  <2>1. (now - ts) % ClockMod = now - ts
    BY <1>1, <1>2, <1>3 DEF Stamp
  <2> QED
    BY <1>1, <1>3, <2>1 DEF Fresh, Stamp
<1>4. CASE ~(now > ts)
  <2>1. (ts - now) % ClockMod = ts - now
    BY <1>1, <1>2, <1>4 DEF Stamp
  <2> QED
    BY <1>1, <1>4, <2>1 DEF Fresh, Stamp
<1> QED
  BY <1>3, <1>4

LEMMA ReplyType ==
  ASSUME NEW r \in Requests
  PROVE  Reply(r) \in Verdicts
<1>1. r.cmd \in Commands
  BY DEF Requests
<1>2. [Ping |-> "Pong", GetVersion |-> "Version"][r.cmd] \in Verdicts
  BY <1>1 DEF Commands, Verdicts
<1> QED
  BY <1>2 DEF Reply, Verdicts

LEMMA ExitCodeIs ==
  /\ ExitCode("Pong") = 0 /\ ExitCode("Version") = 0
  /\ ExitCode("Replayed") = 2 /\ ExitCode("BadHmac") = 2
<1>1. \A v \in {"Pong", "Version"} : ExitCode(v) = 0
  BY Zenon DEF ExitCode
<1>2. \A v \in {"Replayed", "BadHmac"} :
        v \notin {"Pong", "Version"} => ExitCode(v) = 2
  BY Zenon DEF ExitCode
<1> QED
  BY <1>1, <1>2

(* The exit code of a verdict on the tool's own request.                   *)
LEMMA VerdictCode ==
  ASSUME request \in Requests, Signed, NEW now \in Stamp
  PROVE  /\ Verdict(now) \in Verdicts
         /\ LET good == /\ request.mac[1] = HelperSecret
                        /\ now - request.ts <= Window
                        /\ request.ts - now <= Window
            IN  ExitCode(Verdict(now)) = IF good THEN 0 ELSE 2
<1>1. request.ts \in Stamp /\ request.cmd \in Commands
  BY DEF Requests
<1>2. Fresh(request.ts, now) <=>
        now - request.ts <= Window /\ request.ts - now <= Window
  BY <1>1, FreshIs
<1>3. VerifyHmac(request) <=> request.mac[1] = HelperSecret
  BY DEF Signed, VerifyHmac
<1>4. [Ping |-> "Pong", GetVersion |-> "Version"][request.cmd]
        \in {"Pong", "Version"}
  BY <1>1 DEF Commands
<1> QED
  BY <1>2, <1>3, <1>4, ExitCodeIs DEF Verdict, Verdicts

-----------------------------------------------------------------------------
(* What an end knows from what it has read.                                *)

(* Of a whole frame on its way, cut up in any way: the reader finds no      *)
(* fault with its length, and has its body when it has all of it.          *)
LEMMA ReaderOf ==
  ASSUME NEW b \in Seq(Byte), NEW p \in Seq(Byte), NEW n \in Nat, n <= Cap,
         NEW body \in Seq(Byte), Len(body) = n, b \o p = Frame(n, body)
  PROVE  /\ ~(Len(b) = 2 /\ Length(b) > Cap)
         /\ Len(b) >= 2 /\ 2 + Length(b) - Len(b) = 0 => Payload(b) = body
         /\ p = <<>> => Len(b) >= 2 /\ 2 + Length(b) - Len(b) = 0
<1>1. Cap \in Nat
  BY ExchangeAssumption
<1>2. Len(b) \in Nat /\ Len(p) \in Nat
  BY LenProperties
<1>3. /\ Len(b) + Len(p) = 2 + n
      /\ Len(b) >= 2 => Length(b) = n
      /\ Len(b) = 2 + n => Payload(b) = body
  <2>1. Readable(b, p, n, body)
    BY Prefix
  <2> QED
    BY <2>1 DEF Readable
<1>4. Len(b) = 2 => ~(Length(b) > Cap)
  BY <1>1, <1>3
<1>5. Len(b) >= 2 /\ 2 + Length(b) - Len(b) = 0 => Payload(b) = body
  BY <1>1, <1>2, <1>3
<1>6. p = <<>> => Len(b) >= 2 /\ 2 + Length(b) - Len(b) = 0
  <2> SUFFICES ASSUME p = <<>> PROVE Len(b) >= 2 /\ 2 + Length(b) - Len(b) = 0
    OBVIOUS
  <2>1. Len(p) = 0
    BY EmptySeq
  <2> QED
    BY <1>1, <1>2, <1>3, <2>1
<1> QED
  BY <1>4, <1>5, <1>6

LEMMA Reader ==
  ASSUME StateType, NEW e \in End, NEW n \in 1..Cap,
         NEW body \in Seq(Byte), Len(body) = n, Stream(e) = Frame(n, body)
  PROVE  /\ ~TooLarge(e)
         /\ HasFrame(e) => Body(e) = body
         /\ pipe[e] = <<>> => Missing(e) = 0
<1>1. PICK b \in Seq(Byte) : b = buf[e]
  BY DEF StateType
<1>2. PICK p \in Seq(Byte) : p = pipe[e]
  BY DEF StateType
<1>3. /\ ~(Len(b) = 2 /\ Length(b) > Cap)
      /\ Len(b) >= 2 /\ 2 + Length(b) - Len(b) = 0 => Payload(b) = body
      /\ p = <<>> => Len(b) >= 2 /\ 2 + Length(b) - Len(b) = 0
  <2>1. b \o p = Frame(n, body)
    BY <1>1, <1>2 DEF Stream
  <2> QED
    BY <2>1, ReaderOf, SMTT(30)
<1>4. Len(b) \in Nat
  BY LenProperties
<1>5. TooLarge(e) <=> Len(b) = 2 /\ Length(b) > Cap
  BY <1>1 DEF TooLarge
<1>6. Missing(e) =
        IF Len(b) < 2 THEN 2 - Len(b) ELSE 2 + Length(b) - Len(b)
  BY <1>1 DEF Missing
<1>7. HasFrame(e) <=> Len(b) >= 2 /\ ~TooLarge(e) /\ Missing(e) = 0
  BY <1>1 DEF HasFrame
<1>8. Body(e) = Payload(b)
  BY <1>1 DEF Body, Payload
<1> QED
  BY <1>2, <1>3, <1>4, <1>5, <1>6, <1>7, <1>8

(* An end to which nothing has been sent has read nothing.                 *)
LEMMA NothingSent ==
  ASSUME StateType, NEW e \in End, Stream(e) = <<>>
  PROVE  ~TooLarge(e) /\ ~HasFrame(e)
<1>1. buf[e] \in Seq(Byte) /\ pipe[e] \in Seq(Byte)
  BY DEF StateType
<1>2. buf[e] = <<>>
  BY <1>1, ConcatEqualIffEmpty DEF Stream
<1>3. Len(buf[e]) = 0
  BY <1>2, EmptySeq
<1> QED
  BY <1>3 DEF TooLarge, HasFrame

LEMMA HelperSees ==
  ASSUME StateType, ReadInv("helper"), ToHelper, Ends,
         at["helper"] \in {"read", "parse"}
  PROVE  /\ at["client"] \in {"write", "read", "parse"}
         /\ ~TooLarge("helper")
         /\ at["helper"] = "parse" =>
              /\ at["client"] \in {"read", "parse"} /\ request \in Requests
              /\ Body("helper") = Encode(request)
<1>1. at["client"] \in {"write", "read", "parse"}
  BY DEF StateType, Place, Ends, End
<1>2. at["helper"] = "parse" => HasFrame("helper")
  BY DEF ReadInv
<1>3. CASE at["client"] = "write"
  <2>1. ~TooLarge("helper") /\ ~HasFrame("helper")
    BY <1>3, NothingSent DEF ToHelper, End
  <2> QED
    BY <1>1, <1>2, <2>1
<1>4. CASE at["client"] \in {"read", "parse"}
  <2>1. request \in Requests /\ Stream("helper") = RequestFrame
    BY <1>4 DEF ToHelper
  <2>2. ~TooLarge("helper") /\ (HasFrame("helper") => Body("helper") = Encode(request))
    BY <2>1, EncodeRequest, ExchangeAssumption, Reader DEF RequestFrame, End
  <2> QED
    BY <1>1, <1>2, <1>4, <2>1, <2>2
<1> QED
  BY <1>1, <1>3, <1>4

LEMMA ClientSees ==
  ASSUME StateType, ReadInv("client"), ToHelper, ToClient,
         at["client"] \in {"read", "parse"}
  PROVE  /\ ~TooLarge("client")
         /\ at["client"] = "parse" =>
              /\ judged # None
              /\ Body("client") =
                   Encode([kind |-> "response", reply |-> Verdict(judged)])
         /\ judged # None /\ pipe["client"] = <<>> => Missing("client") = 0
<1>1. at["client"] = "parse" => HasFrame("client")
  BY DEF ReadInv
<1>2. CASE judged = None
  <2>1. ~TooLarge("client") /\ ~HasFrame("client")
    BY <1>2, NothingSent DEF ToClient, End
  <2> QED
    BY <1>1, <1>2, <2>1
<1>3. CASE judged # None
  <2> DEFINE m == [kind |-> "response", reply |-> Verdict(judged)]
  <2>1. /\ request \in Requests /\ Signed /\ judged \in Stamp
        /\ Stream("client") = Frame(ResponseSize, Encode(m))
    BY <1>3 DEF ToHelper, ToClient, ResponseFrame, StateType
  <2>2. m \in Responses
    BY <2>1, VerdictCode DEF Responses
  <2> HIDE DEF m
  <2>3. /\ ~TooLarge("client")
        /\ HasFrame("client") => Body("client") = Encode(m)
        /\ pipe["client"] = <<>> => Missing("client") = 0
    BY <2>1, <2>2, EncodeResponse, ExchangeAssumption, Reader DEF End
  <2> QED
    BY <1>1, <1>3, <2>3 DEF m
<1> QED
  BY <1>2, <1>3

-----------------------------------------------------------------------------
(* Each step keeps the invariant.                                          *)

LEMMA InitInv == Init => Inv
<1> SUFFICES ASSUME Init PROVE Inv
  OBVIOUS
<1>1. <<>> \in Seq(Byte) /\ Len(<<>>) = 0
  BY EmptySeq
<1>2. StateType
  <2>1. /\ clock \in Clock /\ tool \in BOOLEAN /\ request = NoRequest
        /\ code = None /\ judged = None /\ full \in BOOLEAN /\ mishap \in BOOLEAN
    BY DEF Init
  <2>3. at \in [End -> Place]
    BY DEF Init, End, Place
  <2>2. pipe \in [End -> Seq(Byte)] /\ buf \in [End -> Seq(Byte)]
    BY <1>1 DEF Init
  <2> QED
    BY <2>1, <2>2, <2>3 DEF StateType
<1>3. \A e \in End : ReadInv(e)
  <2> SUFFICES ASSUME NEW e \in End PROVE ReadInv(e)
    OBVIOUS
  <2>1. buf[e] = <<>> /\ at[e] = "start"
    BY DEF Init, End
  <2> QED
    BY <1>1, <2>1 DEF ReadInv
<1>4. \A e \in End : Stream(e) = <<>>
  <2> SUFFICES ASSUME NEW e \in End PROVE Stream(e) = <<>>
    OBVIOUS
  <2>1. buf[e] = <<>> /\ pipe[e] = <<>>
    BY DEF Init
  <2> QED
    BY <1>1, <2>1, ConcatEmptySeq DEF Stream
<1>5. ToHelper /\ ToClient /\ Ends
  BY <1>4 DEF Init, ToHelper, ToClient, Ends, End, None
<1>6. OtherInv /\ ExitCodeTells
  BY DEF Init, OtherInv, ExitCodeTells, None, Aborted
<1> QED
  BY <1>2, <1>3, <1>5, <1>6 DEF Inv, ToolInv

(* What holds of an end's bytes holds while they are left alone.           *)
LEMMA SameBytes ==
  ASSUME NEW e \in End, ReadInv(e), buf'[e] = buf[e],
         at'[e] = "parse" => at[e] = "parse"
  PROVE  ReadInv(e)'
  BY DEF ReadInv, HasFrame, TooLarge, Missing, Length

LEMMA SameStream ==
  ASSUME NEW e \in End, buf'[e] = buf[e], pipe'[e] = pipe[e]
  PROVE  Stream(e)' = Stream(e)
  BY DEF Stream

LEMMA ReadSomeInv ==
  ASSUME Inv, NEW e \in End, ReadSome(e)
  PROVE  Inv' /\ \A d \in End : Stream(d)' = Stream(d)
<1> USE DEF Inv
<1>1. PICK n \in 1..Least(Missing(e), Len(pipe[e])) :
        /\ buf'  = [buf EXCEPT ![e] = @ \o SubSeq(pipe[e], 1, n)]
        /\ pipe' = [pipe EXCEPT ![e] = SubSeq(@, n + 1, Len(@))]
  BY DEF ReadSome
<1>2. PICK b \in Seq(Byte) : b = buf[e]
  BY DEF StateType
<1>3. PICK p \in Seq(Byte) : p = pipe[e]
  BY DEF StateType
<1> DEFINE c == b \o SubSeq(p, 1, n)
           q == SubSeq(p, n + 1, Len(p))
<1>4. Len(b) \in Nat /\ Len(p) \in Nat
  BY LenProperties
<1>5. /\ Len(b) > 2 => Length(b) <= Cap /\ Len(b) <= 2 + Length(b)
      /\ ~(Len(b) = 2 /\ Length(b) > Cap)
  BY <1>2 DEF ReadSome, ReadInv, TooLarge
<1>6. Missing(e) = IF Len(b) < 2 THEN 2 - Len(b) ELSE 2 + Length(b) - Len(b)
  BY <1>2 DEF Missing
<1>7. n \in 1..Len(p) /\ n <= Missing(e)
  <2>1. Missing(e) \in Int
    BY <1>4, <1>6, LengthInt
  <2> QED
    BY <1>3, <1>4, <2>1 DEF Least
<1>8. /\ c \in Seq(Byte) /\ q \in Seq(Byte)
      /\ Len(c) = Len(b) + n
      /\ Len(b) >= 2 => Length(c) = Length(b)
      /\ c \o q = b \o p
  BY <1>7, Moved
<1>9. buf' = [buf EXCEPT ![e] = c] /\ pipe' = [pipe EXCEPT ![e] = q]
  BY <1>1, <1>2, <1>3
<1> HIDE DEF c, q
<1>10. UNCHANGED <<clock, tool, at, request, code, full, judged, mishap>>
  BY DEF ReadSome
<1>11. StateType'
  BY <1>8, <1>9, <1>10 DEF StateType
<1>12. \A d \in End : ReadInv(d)'
  <2> SUFFICES ASSUME NEW d \in End PROVE ReadInv(d)'
    OBVIOUS
  <2>1. CASE d = e
    <3>1. buf'[e] = c /\ at'[e] # "parse"
      BY <1>9, <1>10 DEF StateType, ReadSome
    <3>2. Len(c) > 2 => Length(c) <= Cap /\ Len(c) <= 2 + Length(c)
      <4> SUFFICES ASSUME Len(c) > 2 PROVE Length(c) <= Cap /\ Len(c) <= 2 + Length(c)
        OBVIOUS
      <4>1. Len(b) >= 2
        BY <1>4, <1>6, <1>7, <1>8
      <4>2. Length(b) \in Int /\ Cap \in Nat
        BY <4>1, LengthInt, ExchangeAssumption
      <4>3. Length(b) <= Cap
        <5>1. \A k \in Int : ~(k > Cap) => k <= Cap
          BY <4>2
        <5>2. Len(b) = 2 => ~(Length(b) > Cap)
          BY <1>5
        <5>3. \A k \in Nat : k >= 2 => k = 2 \/ k > 2
          OBVIOUS
        <5>4. Len(b) = 2 \/ Len(b) > 2
          BY <1>4, <4>1, <5>3
        <5> QED
          BY <1>5, <4>2, <5>1, <5>2, <5>4
      <4> QED
        BY <1>4, <1>6, <1>7, <1>8, <4>1, <4>2, <4>3
    <3> QED
      BY <2>1, <3>1, <3>2 DEF ReadInv, Length
  <2>2. CASE d # e
    <3>1. buf'[d] = buf[d] /\ at' = at
      BY <1>9, <1>10, <2>2 DEF StateType
    <3> QED
      BY <3>1, SameBytes
  <2> QED
    BY <2>1, <2>2
<1>13. \A d \in End : Stream(d)' = Stream(d)
  <2> SUFFICES ASSUME NEW d \in End PROVE Stream(d)' = Stream(d)
    OBVIOUS
  <2>1. CASE d = e
    <3>1. buf'[e] = c /\ pipe'[e] = q
      BY <1>9 DEF StateType
    <3> QED
      BY <1>2, <1>3, <1>8, <2>1, <3>1 DEF Stream
  <2>2. CASE d # e
    BY <1>9, <2>2, SameStream DEF StateType
  <2> QED
    BY <2>1, <2>2
<1>14. ToolInv'
  BY <1>10, <1>13 DEF ToolInv, ToHelper, ToClient, Ends, End, RequestFrame,
     ResponseFrame, Verdict, Signed
<1>15. OtherInv' /\ ExitCodeTells'
  BY <1>10 DEF OtherInv, ExitCodeTells, Acceptable, Aborted
<1> QED
  BY <1>11, <1>12, <1>13, <1>14, <1>15

LEMMA FrameReadInv ==
  ASSUME Inv, NEW e \in End, FrameRead(e)
  PROVE  Inv'
<1> USE DEF Inv
<1>1. /\ at[e] = "read" /\ HasFrame(e) /\ at' = [at EXCEPT ![e] = "parse"]
      /\ UNCHANGED <<clock, tool, request, pipe, buf, code, full, judged, mishap>>
  BY DEF FrameRead, Goto
<1>2. StateType'
  BY <1>1 DEF StateType, Place, Aborted
<1>3. \A d \in End : ReadInv(d)'
  <2> SUFFICES ASSUME NEW d \in End PROVE ReadInv(d)'
    OBVIOUS
  <2>1. CASE d = e
    BY <1>1, <2>1 DEF ReadInv, HasFrame, TooLarge, Missing, Length
  <2>2. CASE d # e
    BY <1>1, <2>2, SameBytes DEF StateType
  <2> QED
    BY <2>1, <2>2
<1>4. \A d \in End : Stream(d)' = Stream(d)
  BY <1>1 DEF Stream
<1>5. ToolInv'
  <2> SUFFICES ASSUME tool PROVE (ToHelper /\ ToClient /\ Ends)'
    BY <1>1 DEF ToolInv
  <2>1. ToHelper /\ ToClient /\ Ends
    BY DEF ToolInv
  <2>2. e = "client" => at'["client"] = "parse" /\ at'["helper"] = at["helper"]
    BY <1>1 DEF StateType, End
  <2>3. e = "helper" => at'["helper"] = "parse" /\ at'["client"] = at["client"]
    BY <1>1 DEF StateType, End
  <2>4. ToHelper'
    BY <1>1, <1>4, <2>1, <2>2, <2>3 DEF ToHelper, End, RequestFrame, Signed
  <2>5. ToClient'
    BY <1>1, <1>4, <2>1, <2>2, <2>3
    DEF ToClient, End, ResponseFrame, Verdict
  <2>6. Ends'
    BY <1>1, <2>1, <2>2, <2>3 DEF Ends, End
  <2> QED
    BY <2>4, <2>5, <2>6
<1>6. OtherInv' /\ ExitCodeTells'
  BY <1>1 DEF OtherInv, ExitCodeTells, Acceptable, StateType, End
<1> QED
  BY <1>2, <1>3, <1>5, <1>6

LEMMA StartInv ==
  ASSUME Inv, Start
  PROVE  Inv'
<1> USE DEF Inv
<1>1. /\ tool /\ at["client"] = "start"
      /\ mishap' = (mishap \/ clock < 0)
      /\ UNCHANGED <<clock, tool, pipe, buf, full, judged>>
      /\ ToHelper /\ ToClient /\ Ends
  BY DEF Start, ToolInv
<1>2. /\ judged = None /\ code = None /\ at["helper"] \in {"start", "closed"}
      /\ Stream("helper") = <<>> /\ Stream("client") = <<>>
  BY <1>1 DEF ToHelper, ToClient, Ends
<1>3. Stream("helper")' = <<>> /\ Stream("client")' = <<>>
  BY <1>1, <1>2 DEF Stream
<1>4. CASE clock < 0
  <2>1. /\ at' = [at EXCEPT !["client"] = "closed"] /\ code' = Aborted
        /\ request' = request /\ mishap'
    BY <1>1, <1>4 DEF Start, Exit, Goto
  <2>2. at'["client"] = "closed" /\ at'["helper"] = at["helper"]
    BY <2>1 DEF StateType, End
  <2>3. StateType'
    BY <1>1, <2>1 DEF StateType, Place, Aborted
  <2>4. \A e \in End : ReadInv(e)'
    BY <1>1, <2>2, SameBytes DEF End
  <2>5. (ToHelper /\ ToClient /\ Ends)'
    BY <1>1, <1>2, <1>3, <2>1, <2>2 DEF ToHelper, ToClient, Ends
  <2>6. OtherInv' /\ ExitCodeTells'
    BY <1>1, <2>1 DEF OtherInv, ExitCodeTells, Aborted
  <2> QED
    BY <2>3, <2>4, <2>5, <2>6 DEF ToolInv
<1>5. CASE ~(clock < 0)
  <2>1. PICK key \in Secret, cmd \in Commands :
          request' = [kind |-> "request", ts |-> clock, cmd |-> cmd,
                      mac |-> <<key, clock, cmd>>]
    BY <1>5 DEF Start, Commands
  <2>2. at' = [at EXCEPT !["client"] = "connect"] /\ code' = code
    BY <1>5 DEF Start, Goto
  <2>3. clock \in Stamp
    BY <1>5, ExchangeAssumption DEF StateType, Clock, Stamp
  <2>4. request' \in Requests /\ Signed'
    BY <2>1, <2>3 DEF Requests, Signed
  <2>5. at'["client"] = "connect" /\ at'["helper"] = at["helper"]
    BY <2>2 DEF StateType, End
  <2>6. StateType'
    BY <1>1, <2>2, <2>4 DEF StateType, Place, Aborted
  <2>7. \A e \in End : ReadInv(e)'
    BY <1>1, <2>5, SameBytes DEF End
  <2>8. (ToHelper /\ ToClient /\ Ends)'
    BY <1>1, <1>2, <1>3, <2>2, <2>4, <2>5 DEF ToHelper, ToClient, Ends
  <2>9. OtherInv' /\ ExitCodeTells'
    BY <1>1, <1>2, <2>2 DEF OtherInv, ExitCodeTells, None, Aborted
  <2> QED
    BY <2>6, <2>7, <2>8, <2>9 DEF ToolInv
<1> QED
  BY <1>4, <1>5

(* The tool leaves with code 1 after a mishap.                             *)
LEMMA LeavesInv ==
  ASSUME Inv, tool, Exit(1), mishap,
         at["helper"] \in {"start", "closed"},
         UNCHANGED <<clock, tool, request, pipe, buf, full, judged, mishap>>
  PROVE  Inv'
<1> USE DEF Inv
<1>1. at' = [at EXCEPT !["client"] = "closed"] /\ code' = 1
  BY DEF Exit, Goto
<1>2. at'["client"] = "closed" /\ at'["helper"] = at["helper"]
  BY <1>1 DEF StateType, End
<1>3. StateType'
  BY <1>1 DEF StateType, Place, Aborted
<1>4. \A e \in End : ReadInv(e)'
  BY <1>2, SameBytes DEF End
<1>5. Stream("client")' = Stream("client")
  BY DEF Stream
<1>6. (ToHelper /\ ToClient /\ Ends)'
  BY <1>1, <1>2, <1>5 DEF ToolInv, ToHelper, ToClient, Ends
<1>7. OtherInv' /\ ExitCodeTells'
  BY <1>1 DEF OtherInv, ExitCodeTells, Aborted
<1> QED
  BY <1>3, <1>4, <1>6, <1>7 DEF ToolInv

LEMMA ConnectInv ==
  ASSUME Inv, Connect
  PROVE  Inv'
<1> USE DEF Inv
<1>1. /\ at["client"] = "connect" /\ tool
      /\ UNCHANGED <<clock, tool, request, pipe, buf, full, judged, mishap>>
      /\ ToHelper /\ ToClient /\ Ends
  BY DEF Connect, ToolInv, OtherInv
<1>2. judged = None /\ code = None /\ at["helper"] \in {"start", "closed"}
  BY <1>1 DEF ToClient, Ends
<1>3. CASE (at["helper"] = "closed" \/ full) /\ Exit(1)
  <2>1. mishap
    BY <1>1, <1>2, <1>3 DEF Ends
  <2> QED
    BY <1>1, <1>2, <1>3, <2>1, LeavesInv
<1>4. CASE /\ at["helper"] # "closed" /\ code' = code
           /\ at' = [client |-> "write", helper |-> "backlog"]
  <2>1. at'["client"] = "write" /\ at'["helper"] = "backlog"
    BY <1>4
  <2>2. at' \in [End -> Place]
    BY <1>4 DEF End, Place
  <2>3. StateType'
    BY <1>1, <1>4, <2>2 DEF StateType
  <2>4. \A e \in End : ReadInv(e)'
    BY <1>1, <2>1, SameBytes DEF End
  <2>5. \A e \in End : Stream(e)' = Stream(e)
    BY <1>1 DEF Stream
  <2>6. (ToHelper /\ ToClient /\ Ends)'
    BY <1>1, <1>2, <1>4, <2>1, <2>5
    DEF ToHelper, ToClient, Ends, End, Signed
  <2>7. OtherInv' /\ ExitCodeTells'
    BY <1>1, <1>2, <1>4 DEF OtherInv, ExitCodeTells, None, Aborted
  <2> QED
    BY <2>3, <2>4, <2>6, <2>7 DEF ToolInv
<1> QED
  BY <1>3, <1>4 DEF Connect

(* Writing to an end adds to what it will have been sent.                  *)
LEMMA Written ==
  ASSUME StateType, NEW e \in End, NEW f \in Seq(Byte), buf' = buf,
         pipe' = [pipe EXCEPT ![e] = @ \o f]
  PROVE  /\ pipe' \in [End -> Seq(Byte)]
         /\ Stream(e)' = Stream(e) \o f
         /\ \A d \in End : d # e => Stream(d)' = Stream(d)
<1>1. PICK b \in Seq(Byte) : b = buf[e]
  BY DEF StateType
<1>2. PICK p \in Seq(Byte) : p = pipe[e]
  BY DEF StateType
<1>3. PICK g \in Seq(Byte) : g = p \o f
  BY ConcatProperties
<1>4. pipe' = [pipe EXCEPT ![e] = g]
  BY <1>2, <1>3
<1>5. pipe' \in [End -> Seq(Byte)] /\ pipe'[e] = g
  BY <1>4 DEF StateType
<1>6. (b \o p) \o f = b \o (p \o f)
  BY Associative, ZenonT(60)
<1>7. Stream(e)' = Stream(e) \o f
  BY <1>1, <1>2, <1>3, <1>5, <1>6 DEF Stream
<1>8. \A d \in End : d # e => Stream(d)' = Stream(d)
  BY <1>4 DEF Stream, StateType
<1> QED
  BY <1>5, <1>7, <1>8

LEMMA SendInv ==
  ASSUME Inv, Send
  PROVE  Inv'
<1> USE DEF Inv
<1>1. /\ at["client"] = "write" /\ tool
      /\ UNCHANGED <<clock, tool, request, buf, full, judged, mishap>>
      /\ ToHelper /\ ToClient /\ Ends
  BY DEF Send, ToolInv
<1>2. /\ judged = None /\ code = None
      /\ request \in Requests /\ Stream("helper") = <<>>
  BY <1>1 DEF ToHelper, ToClient, Ends
<1>3. CASE at["helper"] = "closed"
  <2>1. mishap
    BY <1>1, <1>2, <1>3 DEF Ends
  <2> QED
    BY <1>1, <1>3, <2>1, LeavesInv DEF Send
<1>4. CASE at["helper"] # "closed"
  <2>1. /\ at' = [at EXCEPT !["client"] = "read"] /\ code' = code
        /\ pipe' = [pipe EXCEPT !["helper"] = @ \o RequestFrame]
    BY <1>4 DEF Send, Goto, Write, Peer, RequestFrame
  <2>2. at'["client"] = "read" /\ at'["helper"] = at["helper"]
    BY <2>1 DEF StateType, End
  <2>3. RequestFrame \in Seq(Byte)
    BY <1>2, EncodeRequest, FrameIs, ExchangeAssumption DEF RequestFrame
  <2>4. /\ pipe' \in [End -> Seq(Byte)]
        /\ Stream("helper")' = Stream("helper") \o RequestFrame
        /\ Stream("client")' = Stream("client")
    BY <1>1, <2>1, <2>3, Written DEF End
  <2>5. Stream("helper")' = RequestFrame
    BY <1>2, <2>3, <2>4, ConcatEmptySeq
  <2>6. StateType'
    BY <1>1, <2>1, <2>4 DEF StateType, Place, Aborted
  <2>7. \A e \in End : ReadInv(e)'
    BY <1>1, <2>2, SameBytes DEF End
  <2>8. RequestFrame' = RequestFrame
    BY <1>1 DEF RequestFrame
  <2>9. (ToHelper /\ ToClient /\ Ends)'
    BY <1>1, <1>2, <2>1, <2>2, <2>4, <2>5, <2>8
    DEF ToHelper, ToClient, Ends, Signed
  <2>10. OtherInv' /\ ExitCodeTells'
    BY <1>1, <1>2, <2>1 DEF OtherInv, ExitCodeTells, None, Aborted
  <2> QED
    BY <2>6, <2>7, <2>9, <2>10 DEF ToolInv
<1> QED
  BY <1>3, <1>4

(* The tool reads a whole response, which is the verdict on its request,   *)
(* or it finds the stream ended, which a helper that judged never does     *)
(* before the whole response.                                              *)
LEMMA ReceiveInv ==
  ASSUME Inv, Receive
  PROVE  /\ Inv'
         /\ \/ judged = None /\ mishap /\ code' = 1
            \/ judged # None /\ code' = IF Acceptable THEN 0 ELSE 2
<1> USE DEF Inv
<1>1. /\ tool /\ at["client"] \in {"read", "parse"}
      /\ UNCHANGED <<clock, tool, request, pipe, buf, full, judged, mishap>>
      /\ ToHelper /\ ToClient /\ Ends
  BY DEF Receive, ReadError, ToolInv
<1>2. /\ ~TooLarge("client")
      /\ at["client"] = "parse" =>
           /\ judged # None
           /\ Body("client") =
                Encode([kind |-> "response", reply |-> Verdict(judged)])
      /\ judged # None /\ pipe["client"] = <<>> => Missing("client") = 0
  BY <1>1, ClientSees DEF End
<1>3. CASE at["client"] = "parse"
  <2> DEFINE m == [kind |-> "response", reply |-> Verdict(judged)]
  <2>1. request \in Requests /\ Signed /\ judged \in Stamp /\ judged # None
    BY <1>1, <1>2, <1>3 DEF ToHelper, StateType
  <2>2. m \in Responses
    BY <2>1, VerdictCode DEF Responses
  <2>3. m.kind = "response" /\ m.reply = Verdict(judged)
    OBVIOUS
  <2> HIDE DEF m
  <2>4. Body("client") = Encode(m)
    BY <1>2, <1>3 DEF m
  <2>5. Body("client") # <<>> /\ Body("client")[1] = <<m, 1>>
    BY <2>2, <2>4, EncodeResponse
  <2>6. Body("client")[1][1] = m
    BY <2>5
  <2>7. Parses(Body("client"), "response")
    BY <2>3, <2>4, <2>5, <2>6 DEF Parses
  <2>8. Exit(ExitCode(Verdict(judged)))
    BY <1>3, <2>3, <2>6, <2>7 DEF Receive, ReadError
  <2>9. /\ at' = [at EXCEPT !["client"] = "closed"]
        /\ code' = ExitCode(Verdict(judged))
    BY <2>8 DEF Exit, Goto
  <2>10. ExitCode(Verdict(judged)) = IF Acceptable THEN 0 ELSE 2
    BY <2>1, VerdictCode DEF Acceptable
  <2>11. at'["client"] = "closed" /\ at'["helper"] = at["helper"]
    BY <2>9 DEF StateType, End
  <2>12. at["helper"] = "closed"
    BY <1>1, <2>1 DEF Ends
  <2>13. StateType'
    BY <1>1, <2>9, <2>10 DEF StateType, Place, Aborted
  <2>14. \A e \in End : ReadInv(e)'
    BY <1>1, <2>11, SameBytes DEF End
  <2>15. (ToHelper /\ ToClient /\ Ends)'
    BY <1>1, <2>1, <2>11, <2>12 DEF ToHelper, ToClient, Ends
  <2>16. OtherInv' /\ ExitCodeTells'
    BY <1>1, <2>1, <2>9, <2>10 DEF OtherInv, ExitCodeTells, Acceptable, Aborted
  <2> QED
    BY <2>1, <2>9, <2>10, <2>13, <2>14, <2>15, <2>16 DEF ToolInv
<1>4. CASE at["client"] = "read"
  <2>1. /\ Exit(1) /\ Missing("client") > 0 /\ pipe["client"] = <<>>
        /\ at["helper"] = "closed"
    BY <1>2, <1>4 DEF Receive, ReadError, Peer
  <2>2. judged = None
    BY <1>2, <2>1
  <2>3. mishap /\ code' = 1
    BY <1>1, <2>1, <2>2 DEF Ends, Exit
  <2> QED
    BY <1>1, <2>1, <2>2, <2>3, LeavesInv
<1> QED
  BY <1>1, <1>3, <1>4

(* Another client: only the types of the bytes matter.                     *)
LEMMA OtherClientInv ==
  ASSUME Inv, OtherClient
  PROVE  Inv'
<1> USE DEF Inv
<1>1. /\ ~tool /\ code = None /\ at["client"] # "connect"
      /\ UNCHANGED <<clock, tool, request, buf, code, full, judged, mishap>>
  BY DEF OtherClient, OtherInv
<1>2. /\ at' \in [End -> Place]
      /\ at'["client"] \in {"write", "read", "closed"}
      /\ at'["helper"] \in {"backlog", at["helper"]}
  BY DEF OtherClient, Goto, StateType, End, Place
<1>3. pipe' \in [End -> Seq(Byte)]
  <2>1. CASE UNCHANGED pipe
    BY <2>1 DEF StateType
  <2>2. CASE \E n \in 0..(Base * Base - 1), sent \in {0, RequestSize, Cap + 1} :
               Write("client", Frame(n, [i \in 1..sent |-> Junk]))
    <3>1. PICK n \in 0..(Base * Base - 1), sent \in {0, RequestSize, Cap + 1} :
            Write("client", Frame(n, [i \in 1..sent |-> Junk]))
      BY <2>2
    <3> DEFINE body == [i \in 1..sent |-> Junk]
    <3>2. n \in Nat /\ sent \in Nat
      BY ExchangeAssumption
    <3>3. Junk \in Byte
      BY DEF Junk, Byte, Message
    <3>4. body \in Seq(Byte)
      BY <3>2, <3>3, ConstantSeq
    <3> HIDE DEF body
    <3>5. PICK f \in Seq(Byte) : f = Frame(n, body)
      BY <3>2, <3>4, FrameIs
    <3>6. pipe' = [pipe EXCEPT !["helper"] = @ \o f]
      BY <3>1, <3>5 DEF Write, Peer, body
    <3> QED
      BY <1>1, <3>6, Written DEF End
  <2> QED
    BY <2>1, <2>2 DEF OtherClient
<1>4. StateType'
  BY <1>1, <1>2, <1>3 DEF StateType
<1>5. \A e \in End : ReadInv(e)'
  BY <1>1, <1>2, SameBytes DEF End
<1>6. ToolInv' /\ OtherInv' /\ ExitCodeTells'
  BY <1>1, <1>2 DEF ToolInv, OtherInv, ExitCodeTells, None
<1> QED
  BY <1>4, <1>5, <1>6

LEMMA RespondInv ==
  ASSUME Inv, Respond
  PROVE  Inv'
<1> USE DEF Inv
<1>1. /\ at["helper"] = "parse" /\ Parses(Body("helper"), "request")
      /\ clock >= 0 /\ judged' = clock
      /\ at' = [at EXCEPT !["helper"] = "closed"]
      /\ UNCHANGED <<clock, tool, request, buf, code, full, mishap>>
  BY DEF Respond, Goto
<1>2. at'["helper"] = "closed" /\ at'["client"] = at["client"]
  BY <1>1 DEF StateType, End
<1> DEFINE r == Body("helper")[1][1]
           m == [kind |-> "response", reply |-> Reply(r)]
           f == Frame(ResponseSize, Encode(m))
<1>3. r \in Requests
  <2>1. buf["helper"] \in Seq(Byte) /\ HasFrame("helper")
    BY <1>1 DEF StateType, ReadInv, End
  <2>2. Body("helper") \in Seq(Byte)
    BY <2>1, PayloadType DEF Body, Payload
  <2>3. Body("helper") # <<>> /\ r.kind = "request"
    BY <1>1 DEF Parses
  <2>4. Body("helper")[1] \in Byte
    BY <2>2, <2>3, EmptySeq, ElementOfSeq
  <2>5. r \in Message
    BY <2>4 DEF Byte
  <2> QED
    BY <2>3, <2>5, RequestByte
<1>4. clock \in Stamp
  BY <1>1, ExchangeAssumption DEF StateType, Clock, Stamp
<1>5. m \in Responses
  BY <1>3, ReplyType DEF Responses
<1> HIDE DEF m
<1>6. f \in Seq(Byte)
  BY <1>5, EncodeResponse, FrameIs, ExchangeAssumption
<1>7. IF at["client"] = "closed" THEN pipe' = pipe
      ELSE pipe' = [pipe EXCEPT !["client"] = @ \o f]
  BY DEF Respond, Write, Peer, m
<1> HIDE DEF f, r
<1>8. /\ pipe' \in [End -> Seq(Byte)]
      /\ Stream("helper")' = Stream("helper")
      /\ at["client"] # "closed" =>
           Stream("client")' = Stream("client") \o f
  <2>1. CASE at["client"] = "closed"
    BY <1>1, <1>7, <2>1 DEF StateType, Stream
  <2>2. CASE at["client"] # "closed"
    BY <1>1, <1>6, <1>7, <2>2, Written DEF End
  <2> QED
    BY <2>1, <2>2
<1>9. StateType'
  BY <1>1, <1>4, <1>8 DEF StateType, Place, Aborted
<1>10. \A e \in End : ReadInv(e)'
  BY <1>1, <1>2, SameBytes DEF End
<1>11. ToolInv'
  <2> SUFFICES ASSUME tool PROVE (ToHelper /\ ToClient /\ Ends)'
    BY <1>1 DEF ToolInv
  <2>1. ToHelper /\ ToClient /\ Ends
    BY DEF ToolInv
  <2>2. /\ at["client"] \in {"read", "parse"} /\ request \in Requests
        /\ Body("helper") = Encode(request)
    BY <1>1, <2>1, HelperSees DEF End
  <2>3. r = request
    <3>1. Body("helper")[1] = <<request, 1>>
      BY <2>2, EncodeRequest
    <3> QED
      BY <3>1 DEF r
  <2>4. Reply(r) = Verdict(clock)
    BY <2>3 DEF Reply, Verdict
  <2>5. Verdict(clock)' = Verdict(clock) /\ Verdict(judged)' = Verdict(clock)
    BY <1>1 DEF Verdict
  <2>6. f = ResponseFrame(Verdict(judged))'
    BY <2>4, <2>5 DEF f, m, ResponseFrame
  <2>7. judged = None /\ Stream("client") = <<>>
    BY <1>1, <2>1 DEF ToClient, Ends
  <2>8. Stream("client")' = f
    BY <1>6, <1>8, <2>2, <2>7, ConcatEmptySeq
  <2>9. ToHelper'
    BY <1>1, <1>2, <1>8, <2>1 DEF ToHelper, RequestFrame, Signed
  <2>10. ToClient'
    <3>1. judged' # None
      BY <1>1, <1>4 DEF Stamp, None
    <3> QED
      BY <1>2, <2>2, <2>6, <2>8, <3>1 DEF ToClient
  <2>11. Ends'
    <3>1. judged' # None
      BY <1>1, <1>4 DEF Stamp, None
    <3> QED
      BY <1>1, <1>2, <2>1, <2>2, <3>1 DEF Ends
  <2> QED
    BY <2>9, <2>10, <2>11
<1>12. OtherInv'
  BY <1>1, <1>2 DEF OtherInv
<1>13. ExitCodeTells'
  <2>1. code = None
    BY <1>1 DEF ToolInv, OtherInv, Ends
  <2> QED
    BY <1>1, <2>1 DEF ExitCodeTells, None, Aborted
<1> QED
  BY <1>9, <1>10, <1>11, <1>12, <1>13

(* The helper leaves without a judgement: if the client is the tool, it     *)
(* does so only after a mishap.                                            *)
LEMMA HelperLeavesInv ==
  ASSUME Inv, at["helper"] # "closed", Goto("helper", "closed"),
         mishap' \in BOOLEAN, mishap => mishap', tool => mishap',
         UNCHANGED <<clock, tool, request, pipe, buf, code, full, judged>>
  PROVE  Inv'
<1> USE DEF Inv
<1>1. at' = [at EXCEPT !["helper"] = "closed"]
  BY DEF Goto
<1>2. at'["helper"] = "closed" /\ at'["client"] = at["client"]
  BY <1>1 DEF StateType, End
<1>3. StateType'
  BY <1>1 DEF StateType, Place, Aborted
<1>4. \A e \in End : ReadInv(e)'
  BY <1>2, SameBytes DEF End
<1>5. \A e \in End : Stream(e)' = Stream(e)
  BY DEF Stream
<1>6. ToolInv'
  BY <1>2, <1>5 DEF ToolInv, ToHelper, ToClient, Ends, End, RequestFrame,
     ResponseFrame, Verdict, Signed
<1>7. OtherInv' /\ ExitCodeTells'
  BY <1>2 DEF OtherInv, ExitCodeTells, Acceptable, Aborted
<1> QED
  BY <1>3, <1>4, <1>6, <1>7

(* The tool's request has a length below the cap, arrives whole while the  *)
(* tool waits for the answer, and parses: only others are dropped.         *)
LEMMA DropInv ==
  ASSUME Inv, Drop
  PROVE  Inv'
<1> USE DEF Inv
<1>1. /\ at["helper"] \in {"read", "parse"} /\ Goto("helper", "closed")
      /\ UNCHANGED <<clock, tool, request, pipe, buf, code, full, judged, mishap>>
  BY DEF Drop, ReadError
<1>2. mishap' \in BOOLEAN /\ (mishap => mishap')
  BY <1>1 DEF StateType
<1>3. ~tool
  <2> SUFFICES ASSUME tool PROVE FALSE
    OBVIOUS
  <2>1. ToHelper /\ ToClient /\ Ends
    BY DEF ToolInv
  <2>2. /\ at["client"] \in {"write", "read", "parse"}
        /\ ~TooLarge("helper")
        /\ at["helper"] = "parse" =>
             /\ at["client"] \in {"read", "parse"} /\ request \in Requests
             /\ Body("helper") = Encode(request)
    BY <1>1, <2>1, HelperSees DEF End
  <2>3. ~ReadError("helper")
    BY <2>2 DEF ReadError, Peer
  <2>4. at["helper"] = "parse"
    BY <2>3 DEF Drop
  <2>5. Parses(Body("helper"), "request")
    <3>1. /\ Body("helper") # <<>> /\ Body("helper")[1] = <<request, 1>>
          /\ request.kind = "request"
      BY <2>2, <2>4, EncodeRequest DEF Requests
    <3> QED
      BY <2>2, <2>4, <3>1 DEF Parses
  <2> QED
    BY <2>3, <2>5 DEF Drop
<1> QED
  BY <1>1, <1>2, <1>3, HelperLeavesInv

LEMMA HelperEndsInv ==
  ASSUME Inv, HelperEnds \/ HelperAborts
  PROVE  Inv'
  BY HelperLeavesInv DEF HelperEnds, HelperAborts, HelperGoes

(* A step that leaves the bytes, the request and the judgement alone, and  *)
(* moves the helper at most from the backlog to reading.                   *)
LEMMA AsideInv ==
  ASSUME Inv, clock' \in Clock, full' \in BOOLEAN, mishap' \in BOOLEAN,
         at' \in [End -> Place], at'["client"] = at["client"],
         \/ at' = at
         \/ at["helper"] = "backlog" /\ at'["helper"] = "read",
         mishap => mishap',
         tool /\ at["client"] \in {"start", "connect"} /\ full' => mishap',
         UNCHANGED <<tool, request, pipe, buf, code, judged>>
  PROVE  Inv'
<1> USE DEF Inv
<1>1. StateType'
  BY DEF StateType
<1>2. \A e \in End : ReadInv(e)'
  BY SameBytes DEF End
<1>3. \A e \in End : Stream(e)' = Stream(e)
  BY DEF Stream
<1>4. ToolInv'
  BY <1>3 DEF ToolInv, ToHelper, ToClient, Ends, End, RequestFrame,
     ResponseFrame, Verdict, Signed
<1>5. OtherInv' /\ ExitCodeTells'
  BY DEF OtherInv, ExitCodeTells, Acceptable
<1> QED
  BY <1>1, <1>2, <1>4, <1>5

LEMMA AcceptInv ==
  ASSUME Inv, Accept
  PROVE  Inv'
<1>1. /\ at["helper"] = "backlog" /\ at' = [at EXCEPT !["helper"] = "read"]
      /\ UNCHANGED <<clock, tool, request, pipe, buf, code, full, judged, mishap>>
  BY DEF Accept, Goto
<1>2. StateType /\ (tool => Ends)
  BY DEF Inv, ToolInv
<1>3. /\ at' \in [End -> Place] /\ at'["client"] = at["client"]
      /\ at'["helper"] = "read"
  BY <1>1, <1>2 DEF StateType, End, Place
<1> QED
  BY <1>1, <1>2, <1>3, AsideInv DEF StateType, Ends

LEMMA OthersInv ==
  ASSUME Inv, OthersCome \/ OthersGo
  PROVE  Inv'
<1>1. StateType /\ (tool => Ends)
  BY DEF Inv, ToolInv
<1> QED
  BY <1>1, AsideInv DEF OthersCome, OthersGo, StateType, Ends

(* The verdict does not depend on what the clock says now.                 *)
LEMMA SetClockInv ==
  ASSUME Inv, clock' \in Clock,
         UNCHANGED <<tool, at, request, pipe, buf, code, full, judged, mishap>>
  PROVE  Inv'
  BY AsideInv DEF Inv, ToolInv, Ends, StateType

LEMMA NextInv == Inv /\ [Next]_vars => Inv'
<1> SUFFICES ASSUME Inv, [Next]_vars PROVE Inv'
  OBVIOUS
<1>1. CASE ClientStep
  <2>1. "client" \in End
    BY DEF End
  <2> QED
    BY <1>1, <2>1, ReadSomeInv, FrameReadInv, StartInv, ConnectInv, SendInv,
       ReceiveInv DEF ClientStep
<1>2. CASE HelperStep
  <2>1. "helper" \in End
    BY DEF End
  <2> QED
    BY <1>2, <2>1, AcceptInv, ReadSomeInv, FrameReadInv, RespondInv, DropInv,
       HelperEndsInv DEF HelperStep
<1>3. CASE OtherClient
  BY <1>3, OtherClientInv
<1>4. CASE HelperEnds
  BY <1>4, HelperEndsInv
<1>5. CASE OthersCome \/ OthersGo
  BY <1>5, OthersInv
<1>6. CASE SetClock
  BY <1>6, SetClockInv DEF SetClock
<1>7. CASE UNCHANGED vars
  <2>1. clock' \in Clock
    BY <1>7 DEF vars, Inv, StateType
  <2> QED
    BY <1>7, <2>1, SetClockInv DEF vars
<1> QED
  BY <1>1, <1>2, <1>3, <1>4, <1>5, <1>6, <1>7 DEF Next

LEMMA Invariance == Spec => []Inv
  BY InitInv, NextInv, PTL DEF Spec

-----------------------------------------------------------------------------
(* The theorems.                                                           *)

(* Every variable keeps its type, and neither end ever holds more bytes    *)
(* than a frame at the cap has, whatever length a client announces         *)
(* (read_frame()).                                                         *)
THEOREM TypeCorrect == Spec => []TypeOK
<1>1. Inv => TypeOK
  <2> SUFFICES ASSUME Inv PROVE TypeOK
    OBVIOUS
  <2>1. StateType /\ \A e \in End : ReadInv(e)
    BY DEF Inv
  <2>2. request.ts \in 0..(ClockMod - 1)
    <3>1. CASE request \in Requests
      BY <3>1 DEF Requests, Stamp
    <3>2. CASE request = NoRequest
      BY <3>2, ExchangeAssumption DEF NoRequest
    <3> QED
      BY <2>1, <3>1, <3>2 DEF StateType
  <2>3. \A e \in End : Len(buf[e]) <= 2 + Cap
    <3> SUFFICES ASSUME NEW e \in End PROVE Len(buf[e]) <= 2 + Cap
      OBVIOUS
    <3>1. PICK n \in Nat : n = Len(buf[e])
      BY <2>1, LenProperties DEF StateType
    <3>2. n > 2 => n <= 2 + Cap
      <4>1. ASSUME n > 2 PROVE Length(buf[e]) \in Int
        BY <2>1, <3>1, <4>1, LengthInt DEF StateType
      <4> DEFINE k == Length(buf[e])
      <4>2. ASSUME n > 2 PROVE k \in Int /\ k <= Cap /\ n <= 2 + k
        BY <2>1, <3>1, <4>1, <4>2 DEF ReadInv
      <4> HIDE DEF k
      <4> QED
        BY <4>2, ExchangeAssumption
    <3> QED
      BY <3>1, <3>2, ExchangeAssumption
  <2> QED
    BY <2>1, <2>2, <2>3, ExchangeAssumption
    DEF StateType, TypeOK, Stamp, Clock
<1> QED
  BY <1>1, Invariance, PTL

(* However the bytes are cut up, the clock is set and the helper ends, the *)
(* exit code of sc-helper-ping is true: 0 only if the helper found the     *)
(* request signed with its secret and within the window, 2 only if it did  *)
(* not, 1 and an abort only after a mishap, and 3 never.                   *)
THEOREM ExitCodeIsTrue == Spec => []ExitCodeTells
<1>1. Inv => ExitCodeTells
  BY DEF Inv
<1> QED
  BY <1>1, Invariance, PTL

-----------------------------------------------------------------------------
(* The refinement: an exchange is a conversation.                          *)

(* What a client that is not the tool can send: nothing that is part of a  *)
(* request.                                                                *)
Noise == {x \in Byte : x[1].kind # "request"}

NoiseInv ==
  ~tool => /\ judged = None /\ request.kind = "none"
           /\ Stream("helper") \in Seq(Noise)

LEMMA NoiseFrame ==
  ASSUME NEW n \in Nat, NEW body \in Seq(Noise)
  PROVE  Frame(n, body) \in Seq(Noise)
<1> DEFINE h == [i \in 1..2 |-> <<[kind |-> "length"], Digits(n)[i]>>]
<1>1. h \in [1..2 -> Noise]
  <2>1. \A i \in 1..2 : Digits(n)[i] \in Int
    BY DigitsValue
  <2> QED
    BY <2>1 DEF Noise, Byte, Message
<1>2. h \in Seq(Noise)
  BY <1>1, SeqDef
<1>3. Frame(n, body) = h \o body
  BY DEF Frame
<1> HIDE DEF h
<1> QED
  BY <1>2, <1>3, ConcatProperties

(* Such a client is never judged.                                          *)
LEMMA NotJudged ==
  ASSUME Inv, NoiseInv, Respond
  PROVE  tool
<1> SUFFICES ASSUME ~tool PROVE FALSE
  OBVIOUS
<1>1. PICK b \in Seq(Byte) : b = buf["helper"]
  BY DEF Inv, StateType, End
<1>2. PICK p \in Seq(Byte) : p = pipe["helper"]
  BY DEF Inv, StateType, End
<1>3. b \o p \in Seq(Noise)
  BY <1>1, <1>2 DEF NoiseInv, Stream
<1>4. Len(b) \in Nat /\ Len(p) \in Nat
  BY LenProperties
<1>5. Payload(b) # <<>> /\ Payload(b)[1][1].kind = "request"
  BY <1>1 DEF Respond, Parses, Body, Payload
<1>6. \A i \in 3..Len(b) : b[i] \in Byte
  BY <1>4, ElementOfSeq
<1>7. Len(b) >= 3
  <2> SUFFICES ASSUME ~(Len(b) >= 3) PROVE FALSE
    OBVIOUS
  <2>1. SubSeq(b, 3, Len(b)) = <<>>
    BY <1>4, SubSeqEmpty
  <2> QED
    BY <1>5, <2>1 DEF Payload
<1>8. Payload(b)[1] = b[3]
  BY <1>4, <1>6, <1>7, SubSeqProperties DEF Payload
<1>9. (b \o p)[3] = b[3] /\ Len(b \o p) >= 3
  BY <1>4, <1>7, ConcatProperties
<1>10. (b \o p)[3] \in Noise
  BY <1>3, <1>9, ElementOfSeq, LenProperties
<1> QED
  BY <1>5, <1>8, <1>9, <1>10 DEF Noise

LEMMA NoiseStep ==
  ASSUME Inv, NoiseInv, [Next]_vars
  PROVE  NoiseInv'
<1> SUFFICES ASSUME ~tool' PROVE NoiseInv'
  BY DEF NoiseInv
<1>1. tool' = tool
  BY DEF Next, ClientStep, HelperStep, OtherClient, HelperEnds, HelperAborts,
     HelperGoes, OthersCome, OthersGo, SetClock, Accept, ReadSome, FrameRead,
     Start, Connect, Send, Receive, Respond, Drop, vars
<1>2. judged = None /\ request.kind = "none" /\ Stream("helper") \in Seq(Noise)
  BY <1>1 DEF NoiseInv
<1>3. "helper" \in End /\ "client" \in End
  BY DEF End
<1>4. ASSUME UNCHANGED <<judged, request>>,
             Stream("helper")' = Stream("helper")
      PROVE  NoiseInv'
  BY <1>2, <1>4 DEF NoiseInv
<1>5. ASSUME NEW e \in End, ReadSome(e) PROVE NoiseInv'
  BY <1>3, <1>4, <1>5, ReadSomeInv DEF ReadSome
<1>6. ASSUME UNCHANGED <<judged, request, pipe, buf>> PROVE NoiseInv'
  BY <1>3, <1>4, <1>6, SameStream
<1>7. CASE ClientStep
  <2>1. ~Connect
    BY <1>1 DEF Connect, Inv, OtherInv
  <2> QED
    BY <1>1, <1>3, <1>5, <1>6, <1>7, <2>1
    DEF ClientStep, FrameRead, Start, Send, Receive
<1>8. CASE HelperStep
  BY <1>1, <1>3, <1>5, <1>6, <1>8, NotJudged
  DEF HelperStep, Accept, FrameRead, Drop, HelperAborts, HelperGoes
<1>9. CASE OtherClient
  <2>1. CASE UNCHANGED pipe
    BY <1>6, <1>9, <2>1 DEF OtherClient
  <2>2. CASE \E n \in 0..(Base * Base - 1), sent \in {0, RequestSize, Cap + 1} :
               Write("client", Frame(n, [i \in 1..sent |-> Junk]))
    <3>1. PICK n \in 0..(Base * Base - 1), sent \in {0, RequestSize, Cap + 1} :
            Write("client", Frame(n, [i \in 1..sent |-> Junk]))
      BY <2>2
    <3> DEFINE body == [i \in 1..sent |-> Junk]
    <3>2. n \in Nat /\ sent \in Nat
      BY ExchangeAssumption
    <3>3. Junk \in Noise
      BY DEF Junk, Noise, Byte, Message
    <3>4. body \in Seq(Noise) /\ body \in Seq(Byte)
      BY <3>2, <3>3, ConstantSeq DEF Noise
    <3> HIDE DEF body
    <3>5. Frame(n, body) \in Seq(Noise) /\ Frame(n, body) \in Seq(Byte)
      BY <3>2, <3>4, NoiseFrame, FrameIs
    <3>6. PICK f \in Seq(Byte) : f = Frame(n, body)
      BY <3>5
    <3>7. pipe' = [pipe EXCEPT !["helper"] = @ \o f]
      BY <3>1, <3>6 DEF Write, Peer, body
    <3>8. Stream("helper")' = Stream("helper") \o f
      BY <1>3, <1>9, <3>7, Written DEF Inv, OtherClient
    <3>9. Stream("helper")' \in Seq(Noise)
      BY <1>2, <3>5, <3>6, <3>8, ConcatProperties
    <3> QED
      BY <1>2, <1>9, <3>9 DEF NoiseInv, OtherClient
  <2> QED
    BY <1>9, <2>1, <2>2 DEF OtherClient
<1>10. CASE HelperEnds \/ OthersCome \/ OthersGo \/ SetClock \/ UNCHANGED vars
  BY <1>6, <1>10 DEF HelperEnds, HelperGoes, OthersCome, OthersGo, SetClock, vars
<1> QED
  BY <1>7, <1>8, <1>9, <1>10 DEF Next

(* The request is made once, by the first step of the tool.                *)
FirstInv == at["client"] = "start" => request.kind = "none"

LEMMA FirstStep ==
  ASSUME Inv, FirstInv, [Next]_vars
  PROVE  FirstInv'
<1> SUFFICES ASSUME at'["client"] = "start"
             PROVE  at["client"] = "start" /\ request' = request
  BY DEF FirstInv
<1>1. at \in [End -> Place]
  BY DEF Inv, StateType
<1>2. "client" \in End /\ "helper" \in End
  BY DEF End
<1>3. ~Start /\ ~Connect /\ ~Send /\ ~Receive
  BY <1>1, <1>2 DEF Start, Connect, Send, Receive, Exit, Goto
<1>4. ~OtherClient \/ UNCHANGED <<at, request>>
  BY <1>1, <1>2 DEF OtherClient, Goto
<1>5. ASSUME NEW e \in End, ReadSome(e) \/ FrameRead(e)
      PROVE  at["client"] = "start" /\ request' = request
  BY <1>1, <1>2, <1>5 DEF ReadSome, FrameRead, Goto
<1>6. CASE Accept \/ Respond \/ Drop \/ HelperAborts \/ HelperEnds
  BY <1>1, <1>2, <1>6
  DEF Accept, Respond, Drop, HelperAborts, HelperEnds, HelperGoes, Goto, End
<1>7. CASE OthersCome \/ OthersGo \/ SetClock \/ UNCHANGED vars
  BY <1>7 DEF OthersCome, OthersGo, SetClock, vars
<1> QED
  BY <1>2, <1>3, <1>4, <1>5, <1>6, <1>7 DEF Next, ClientStep, HelperStep

Asked == [at |-> IF request.kind = "none" THEN None ELSE request.ts,
          genuine |-> VerifyHmac(request)]

LEMMA ConversationStep ==
  ASSUME Inv, NoiseInv, FirstInv, [Next]_vars
  PROVE  [Talk!Next]_(Talk!vars)
<1> DEFINE P == [Talk!Next]_(Talk!vars)
<1>1. ASSUME UNCHANGED <<clock, request, judged, code, mishap>> PROVE P
  BY <1>1 DEF Talk!vars, VerifyHmac
<1>2. tool => ToHelper /\ ToClient /\ Ends
  BY DEF Inv, ToolInv
<1>3. request \in Requests => Asked.at = request.ts /\ Asked.at # None
  BY ExchangeAssumption DEF Asked, Requests, Stamp, None
<1>4. UNCHANGED request => UNCHANGED Asked
  BY DEF Asked, VerifyHmac
<1>5. CASE Start
  <2>1. /\ tool /\ at["client"] = "start"
        /\ mishap' = (mishap \/ clock < 0) /\ UNCHANGED <<clock, judged>>
    BY <1>5 DEF Start
  <2>2. code = None /\ Asked.at = None
    BY <1>2, <2>1 DEF Ends, FirstInv, Asked
  <2>3. CASE clock < 0
    <3>1. code' = 134 /\ request' = request /\ mishap' = TRUE
      BY <1>5, <2>1, <2>3 DEF Start, Exit, Aborted
    <3>2. Talk!Panic
      BY <1>4, <2>1, <2>2, <2>3, <3>1 DEF Talk!Panic, Asked
    <3> QED
      BY <3>2 DEF Talk!Next
  <2>4. CASE ~(clock < 0)
    <3>1. PICK key \in Secret, cmd \in Commands :
            request' = [kind |-> "request", ts |-> clock, cmd |-> cmd,
                        mac |-> <<key, clock, cmd>>]
      BY <1>5, <2>4 DEF Start, Commands
    <3>2. code' = code /\ mishap' = mishap /\ clock >= 0
      BY <1>5, <2>1, <2>4, ExchangeAssumption DEF Start, Inv, StateType, Clock
    <3>3. PICK genuine \in BOOLEAN : genuine = VerifyHmac(request')
      BY DEF VerifyHmac
    <3>4. Asked' = [at |-> clock, genuine |-> genuine]
      BY <3>1, <3>3 DEF Asked
    <3>5. Talk!Ask
      BY <2>1, <2>2, <3>2, <3>4 DEF Talk!Ask, Asked
    <3> QED
      BY <3>5 DEF Talk!Next
  <2> QED
    BY <2>3, <2>4
(* The tool fails only after a mishap that came before any judgement.      *)
<1>6. ASSUME UNCHANGED <<clock, request, judged, mishap>>, code' = 1,
             mishap, judged = None, code = None
      PROVE  P
  <2>1. Talk!GiveUp
    BY <1>4, <1>6 DEF Talk!GiveUp, Asked
  <2> QED
    BY <2>1 DEF Talk!Next
<1>7. CASE Connect \/ Send
  <2>1. /\ tool /\ at["client"] \in {"connect", "write"}
        /\ UNCHANGED <<clock, request, judged, mishap>>
    BY <1>7 DEF Connect, Send, Inv, OtherInv
  <2>2. judged = None /\ code = None
    BY <1>2, <2>1 DEF ToClient, Ends
  <2>3. code' = code \/ (mishap /\ code' = 1)
    <3>1. CASE Connect
      BY <1>2, <2>1, <2>2, <3>1 DEF Ends, Connect, Exit
    <3>2. CASE Send
      BY <1>2, <2>1, <2>2, <3>2 DEF Ends, Send, Exit
    <3> QED
      BY <1>7, <3>1, <3>2
  <2> QED
    BY <1>1, <1>6, <2>1, <2>2, <2>3
<1>8. CASE Receive
  <2>1. /\ tool /\ at["client"] \in {"read", "parse"}
        /\ UNCHANGED <<clock, request, judged, mishap>>
    BY <1>8 DEF Receive, ReadError
  <2>2. code = None /\ request \in Requests /\ Signed
    BY <1>2, <2>1 DEF ToHelper, Ends
  <2>3. CASE judged = None /\ mishap /\ code' = 1
    BY <1>6, <2>1, <2>2, <2>3
  <2>4. CASE judged # None /\ code' = IF Acceptable THEN 0 ELSE 2
    <3>1. Asked.genuine <=> request.mac[1] = HelperSecret
      <4>1. VerifyHmac(request) <=> request.mac[1] = HelperSecret
        BY <2>2 DEF Signed, VerifyHmac
      <4>2. Asked.genuine = VerifyHmac(request)
        BY DEF Asked
      <4> QED
        BY <4>1, <4>2
    <3>2. Talk!Acceptable <=> Acceptable
      BY <1>3, <2>2, <3>1 DEF Talk!Acceptable, Acceptable, Asked
    <3>3. Talk!Conclude
      BY <1>4, <2>1, <2>2, <2>4, <3>2 DEF Talk!Conclude, Asked
    <3> QED
      BY <3>3 DEF Talk!Next
  <2> QED
    BY <1>8, <2>3, <2>4, ReceiveInv
<1>9. CASE Respond
  <2>1. tool
    BY <1>9, NotJudged
  <2>2. /\ at["helper"] = "parse" /\ clock >= 0 /\ judged' = clock
        /\ UNCHANGED <<clock, request, code, mishap>>
    BY <1>9 DEF Respond
  <2>3. at["client"] \in {"read", "parse"} /\ request \in Requests
    BY <1>2, <2>1, <2>2, HelperSees DEF Inv, End
  <2>4. judged = None /\ code = None
    BY <1>2, <2>1, <2>2, <2>3 DEF Ends
  <2>5. Talk!Judge
    BY <1>3, <1>4, <2>2, <2>3, <2>4 DEF Talk!Judge, Asked
  <2> QED
    BY <2>5 DEF Talk!Next
<1>10. CASE HelperAborts \/ HelperEnds \/ OthersCome
  <2>1. /\ UNCHANGED <<clock, request, code, judged>>
        /\ mishap' = mishap \/ mishap' = TRUE
        /\ \/ at["helper"] # "closed" \/ mishap' = mishap
           \/ at["client"] \in {"start", "connect"}
    BY <1>10 DEF HelperAborts, HelperEnds, HelperGoes, OthersCome, Inv, StateType
  <2>2. judged = None \/ mishap' = mishap
    BY <1>2, <2>1 DEF ToClient, Ends, NoiseInv, Inv, StateType
  <2>3. CASE mishap' = mishap
    BY <1>1, <2>1, <2>3
  <2>4. CASE mishap' = TRUE /\ judged = None
    <3>1. Talk!Mishap
      BY <1>4, <2>1, <2>4 DEF Talk!Mishap, Asked
    <3> QED
      BY <3>1 DEF Talk!Next
  <2> QED
    BY <2>1, <2>2, <2>3, <2>4
<1>11. CASE SetClock
  <2>1. Talk!SetClock
    BY <1>4, <1>11 DEF SetClock, Talk!SetClock, Asked
  <2> QED
    BY <2>1 DEF Talk!Next
<1>12. ASSUME NEW e \in End, ReadSome(e) \/ FrameRead(e) PROVE P
  BY <1>1, <1>12 DEF ReadSome, FrameRead
<1>13. CASE Accept \/ Drop \/ OtherClient \/ OthersGo \/ UNCHANGED vars
  BY <1>1, <1>13 DEF Accept, Drop, OtherClient, OthersGo, vars
<1> QED
  <2>1. "client" \in End /\ "helper" \in End
    BY DEF End
  <2> QED
    BY <1>5, <1>7, <1>8, <1>9, <1>10, <1>11, <1>12, <1>13, <2>1
    DEF Next, ClientStep, HelperStep

(* However frames are cut, the exchange of the tool and the helper is the  *)
(* one of Conversation: the request that was sent is judged once, while    *)
(* the tool waits, and the tool exits with that judgement.                 *)
THEOREM ImplementsConversation == Spec => ConversationSpec
<1>1. Init => NoiseInv /\ FirstInv /\ Talk!Init
  <2> SUFFICES ASSUME Init PROVE NoiseInv /\ FirstInv /\ Talk!Init
    OBVIOUS
  <2>1. request = NoRequest /\ request.kind = "none" /\ judged = None
    BY DEF Init, NoRequest
  <2>2. NoiseInv /\ FirstInv
    <3>1. Stream("helper") = <<>>
      <4>1. <<>> \o <<>> = <<>>
        BY EmptySeq, ConcatEmptySeq
      <4> QED
        BY <4>1 DEF Init, Stream, End
    <3>2. <<>> \in Seq(Noise)
      BY EmptySeq
    <3> QED
      BY <2>1, <3>1, <3>2 DEF NoiseInv, FirstInv
  <2>3. VerifyHmac(request) = FALSE
    <3>1. <<>> # <<HelperSecret, 0, "Ping">>
      OBVIOUS
    <3> QED
      BY <2>1, <3>1 DEF VerifyHmac, NoRequest
  <2>4. Asked = [at |-> None, genuine |-> FALSE]
    BY <2>1, <2>3, Zenon DEF Asked
  <2> QED
    BY <2>2, <2>4 DEF Init, Talk!Init, Asked
<1>2. Inv /\ NoiseInv /\ FirstInv /\ [Next]_vars => NoiseInv' /\ FirstInv'
  BY NoiseStep, FirstStep
<1>3. Inv /\ NoiseInv /\ FirstInv /\ [Next]_vars => [Talk!Next]_(Talk!vars)
  BY ConversationStep
<1> QED
  BY <1>1, <1>2, <1>3, Invariance, PTL DEF Spec, ConversationSpec, Talk!Spec
=============================================================================
