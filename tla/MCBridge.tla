------------------------------ MODULE MCBridge ------------------------------
(***************************************************************************)
(* Small instance of the start of the program: every configuration file,   *)
(* with one key or none on the command line, and three messages.           *)
(***************************************************************************)
EXTENDS Bridge, TLC

MCInputs == {i \in InputSet : i.cli \in {{}, {"DEVKEY"}} /\ Cardinality(i.bad) <= 1}
=============================================================================
