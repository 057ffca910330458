---------------------------- MODULE Conversation ----------------------------
(***************************************************************************)
(* What one request of sc-helper-ping comes to when frames, bytes and      *)
(* connections are left out: the tool asks once; the helper judges that    *)
(* request once, by the clock at that moment and while the tool waits; and *)
(* the tool exits with that judgement, which nothing can undo, or with an  *)
(* error if something went wrong before the helper judged.                 *)
(*                                                                         *)
(* Exchange implements this specification (ConversationSpec there).        *)
(***************************************************************************)
EXTENDS Integers

CONSTANTS
  Clock,   \* readings of the wall clock; those below 0 predate 1970
  Window,  \* how far a timestamp may be from the clock
  None     \* what a clock never shows

VARIABLES
  clock,   \* the wall clock
  asked,   \* the request: when it was stamped, and whether by the right secret
  judged,  \* the clock when the helper judged it
  code,    \* the tool's exit code
  mishap   \* something has gone wrong

vars == <<clock, asked, judged, code, mishap>>

Init ==
  /\ clock \in Clock
  /\ asked = [at |-> None, genuine |-> FALSE]
  /\ judged = None /\ code = None /\ mishap = FALSE

Ask ==
  /\ asked.at = None /\ code = None /\ clock >= 0
  /\ \E genuine \in BOOLEAN : asked' = [at |-> clock, genuine |-> genuine]
  /\ UNCHANGED <<clock, judged, code, mishap>>

Judge ==
  /\ asked.at # None /\ judged = None /\ code = None /\ clock >= 0
  /\ judged' = clock
  /\ UNCHANGED <<clock, asked, code, mishap>>

Acceptable ==
  /\ asked.genuine
  /\ judged - asked.at <= Window /\ asked.at - judged <= Window

Conclude ==
  /\ judged # None /\ code = None
  /\ code' = IF Acceptable THEN 0 ELSE 2
  /\ UNCHANGED <<clock, asked, judged, mishap>>

GiveUp ==
  /\ mishap /\ judged = None /\ code = None
  /\ code' = 1
  /\ UNCHANGED <<clock, asked, judged, mishap>>

(* The tool's own clock predates 1970: SIGABRT ends it.                    *)
Panic ==
  /\ asked.at = None /\ code = None /\ clock < 0
  /\ code' = 134 /\ mishap' = TRUE
  /\ UNCHANGED <<clock, asked, judged>>

Mishap ==
  /\ judged = None
  /\ mishap' = TRUE
  /\ UNCHANGED <<clock, asked, judged, code>>

SetClock ==
  /\ clock' \in Clock
  /\ UNCHANGED <<asked, judged, code, mishap>>

Next == Ask \/ Judge \/ Conclude \/ GiveUp \/ Panic \/ Mishap \/ SetClock

Spec == Init /\ [][Next]_vars
=============================================================================
