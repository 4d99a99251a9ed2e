------------------------------- MODULE MCLmic -------------------------------
(***************************************************************************)
(* Small instances of the MAC engine.                                      *)
(***************************************************************************)
EXTENDS LmicClassA, TLC

Plain == [kind |-> "dn", conf |-> FALSE, more |-> FALSE, ack |-> TRUE, port |-> TRUE,
          cmds |-> {}, off |-> FALSE, bcni |-> FALSE, roll |-> FALSE, dr |-> 0]

\* A confirmed downlink with every command that the device answers.
Asks  == [Plain EXCEPT !.conf = TRUE, !.ack = FALSE, !.cmds = MacCmds]

Symmetry == Permutations(Messages)

MCPayloadLen == [m \in Messages |-> 20]

MCLinkCheckInit == -1
MCLinkCheckOff  == -2

MCAnswer    == {Jacc, Plain}
MCDownlinks == {Jacc, Junk, Plain, Asks}

\* A MCMD_BCNI_ANS besides.
MCBeacon == MCDownlinks \cup {[Plain EXCEPT !.bcni = TRUE]}

\* A command that asks for the slowest data rate.
MCSlow == {Jacc, [Plain EXCEPT !.cmds = {"LADR"}]}

\* MAC commands, a duty cycle cap of 0xFF and a sequence number near its end.
MCCommands ==
  {Jacc, Asks,
   [Plain EXCEPT !.cmds = {"DCAP"}, !.off = TRUE],
   [Plain EXCEPT !.roll = TRUE, !.port = FALSE]}
=============================================================================
