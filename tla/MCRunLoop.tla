----------------------------- MODULE MCRunLoop -----------------------------
(***************************************************************************)
(* Small instance of the run loop: LMIC.osjob and a second job such as     *)
(* reportjob or initjob of src/main.cpp; a unit of time is 10 ms, and the  *)
(* clock wraps around after 26 of them.                                    *)
(***************************************************************************)
EXTENDS RunLoop, TLC
=============================================================================
