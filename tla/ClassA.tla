------------------------------- MODULE ClassA -------------------------------
(***************************************************************************)
(* What a class A device promises the network, whatever its MAC engine     *)
(* looks like inside: an uplink (a join request or a data frame) is        *)
(* followed by a first receive window and, unless that one brought the     *)
(* answer, by a second one; only then may the next uplink go on air. After *)
(* a data frame nobody answered the device also waits for a while, so that *)
(* it does not transmit over a late answer.                                *)
(***************************************************************************)
VARIABLES
  phase,  \* where the device is in the exchange
  kind,   \* of the uplink, "join" when idle
  heard   \* what the open or last window brought

vars == <<phase, kind, heard>>

Phases == {"idle", "tx", "wait1", "rx1", "wait2", "rx2", "grace"}
Kinds  == {"join", "data"}
Heard  == {"nothing", "junk", "answer"}

TypeOK == phase \in Phases /\ kind \in Kinds /\ heard \in Heard

Init == phase = "idle" /\ kind = "join" /\ heard = "nothing"

Starts == phase' = "tx" /\ kind' \in Kinds /\ heard' = "nothing"
Rests  == phase' = "idle" /\ kind' = "join" /\ heard' = "nothing"

Move(from, to) == phase = from /\ phase' = to /\ heard' = "nothing" /\ UNCHANGED kind

Uplink    == phase = "idle" /\ Starts
Sent      == Move("tx", "wait1")
OpenFirst == Move("wait1", "rx1")

Receive == phase \in {"rx1", "rx2"} /\ heard = "nothing"
             /\ heard' \in {"junk", "answer"} /\ UNCHANGED <<phase, kind>>

NoAnswer   == heard # "answer" /\ Move("rx1", "wait2")
OpenSecond == Move("wait2", "rx2")

Silence == kind = "data" /\ heard = "nothing" /\ Move("rx2", "grace")

\* The exchange is over; the next uplink may follow at once.
Finish ==
  /\ \/ phase = "rx1" /\ heard = "answer"
     \/ phase = "rx2" /\ (kind = "data" => heard # "nothing")
     \/ phase = "grace"
  /\ Starts \/ Rests

Next ==
  \/ Uplink \/ Sent \/ OpenFirst \/ Receive \/ NoAnswer \/ OpenSecond
  \/ Silence \/ Finish

Spec == Init /\ [][Next]_vars
=============================================================================
