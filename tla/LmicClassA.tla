----------------------------- MODULE LmicClassA -----------------------------
(***************************************************************************)
(* The MAC engine implements the class A exchange. The phase is read off   *)
(* OP_TXRXPEND and the function osjob is to run next; "heard" is what the  *)
(* radio left in LMIC.frame since the window was opened.                   *)
(***************************************************************************)
EXTENDS Lmic

Phase ==
  IF ~Has(mac, "TXRXPEND") THEN "idle"
  ELSE CASE mac.func \in {"jreqDone", "updataDone"}             -> "tx"
         [] mac.func \in {"setupRx1Jacc", "setupRx1DnData"}     -> "wait1"
         [] mac.func \in {"processRx1Jacc", "processRx1DnData"} -> "rx1"
         [] mac.func \in {"setupRx2Jacc", "setupRx2DnData"}     -> "wait2"
         [] mac.func \in {"processRx2Jacc", "processRx2DnData"} -> "rx2"
         [] mac.func = "processRx2DnDataDelay"                  -> "grace"
         [] OTHER                                               -> "idle"

Kind == IF Phase # "idle" /\ mac.func \in DataJobs THEN "data" ELSE "join"

Answer == mac.frame.kind = IF Kind = "join" THEN "jacc" ELSE "dn"

HeardSoFar ==
  IF Phase \notin {"rx1", "rx2"} \/ ~mac.data THEN "nothing"
  ELSE IF Answer THEN "answer" ELSE "junk"

Exchange == INSTANCE ClassA WITH phase <- Phase, kind <- Kind, heard <- HeardSoFar

\* Every behaviour of the engine is one of the class A exchange: no uplink
\* while a window is owed, no second window after an answer, none skipped
\* without one (txDone, setupRx1, schedRx2, processRx2DnData).
ClassAExchange == Exchange!Spec
=============================================================================
