---------------------------- MODULE Transceiver ----------------------------
(***************************************************************************)
(* What src/lmic/radio.c promises the MAC: an operation that was started   *)
(* ends with one callback that says what happened on air, or by RADIO_RST. *)
(***************************************************************************)
VARIABLES
  op,   \* the operation in progress: "none", "tx", "rx" or "scan"
  air,  \* how it ended on air, before the MAC knows
  out   \* what the MAC is told in this step, else "none"

vars == <<op, air, out>>

Outcomes ==
  [tx |-> {"sent"}, rx |-> {"frame", "nothing"}, scan |-> {"frame"}, none |-> {}]

Init == op = "none" /\ air = "none" /\ out = "none"

Start ==
  /\ op = "none" /\ op' \in {"tx", "rx", "scan"}
  /\ air' = "none" /\ out' = "none"

Finish ==
  /\ air = "none" /\ air' \in Outcomes[op] /\ out' = "none" /\ UNCHANGED op

\* An operation that had ended on air when it was aborted may be reported.
Report == air # "none" /\ out' = air /\ op' = "none" /\ air' = "none"

Abort == op' = "none" /\ air' \in {air, "none"} /\ out' = "none"

Quiet == out' = "none" /\ UNCHANGED <<op, air>>

Next == Start \/ Finish \/ Report \/ Abort \/ Quiet

\* A scan may hear nothing for ever.
Spec == /\ Init /\ [][Next]_vars
        /\ WF_vars(Report) /\ WF_vars(op # "scan" /\ Finish)
=============================================================================
