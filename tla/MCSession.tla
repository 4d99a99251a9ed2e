----------------------------- MODULE MCSession -----------------------------
(***************************************************************************)
(* Small instances of the session between device and network.              *)
(***************************************************************************)
EXTENDS Session, TLC

Symmetry == Permutations(Messages)
=============================================================================
