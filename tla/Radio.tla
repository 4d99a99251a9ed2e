-------------------------------- MODULE Radio --------------------------------
(***************************************************************************)
(* The radio driver src/lmic/radio.c, the part of hal_sleep in             *)
(* src/lora_gps_hat/hal.c that looks for interrupts on the three DIO       *)
(* lines, and, as an external part, the SX1276: its mode, its interrupt    *)
(* flags and what the lines show.                                          *)
(*                                                                         *)
(* Of the chip the model takes what the driver says of it: a done or       *)
(* timed out single operation leaves it in standby (radio.c:663, 755), a   *)
(* masked LoRa flag is not raised, LoRa flags stay until they are written  *)
(* and FSK flags until the operation's mode is left, since no code clears  *)
(* those. LMIC.osjob and its function, clock and threads are the business  *)
(* of Lmic and RunLoop; settings like frequency and power are left out.    *)
(***************************************************************************)
EXTENDS Integers

CONSTANT RandLen   \* 16, length of randbuf

ASSUME RadioAssumption == RandLen \in Nat /\ RandLen > 1

VARIABLES
  chip,   \* mode, modem, flags and enabled flags, and what raises which line
  edge,   \* lines with a rising edge that poll has not seen
  pc,     \* where the run loop is
  lines,  \* lines hal_sleep has still to serve
  got,    \* what radio_irq_handler read from the flags
  rand,   \* randbuf[0]
  op,     \* the operation the MAC waits for
  air,    \* how it ended on air
  out     \* what the handler tells the MAC in this step

vars == <<chip, edge, pc, lines, got, rand, op, air, out>>
loop == <<pc, lines, got, rand>>

Lines     == 0 .. 2
LoraFlags == {"TXDONE", "RXDONE", "RXTOUT"}
FskFlags  == {"PACKETSENT", "PAYLOADREADY", "TIMEOUT"}

\* What the DIO mapping makes the lines 0, 1 and 2 show.
Map(a, b, c) == [i \in Lines |-> IF i = 0 THEN a ELSE IF i = 1 THEN b ELSE c]

High(c) == {i \in Lines : c.dio[i] \cap c.flags # {}}

Asleep == chip.mode = "sleep"

-----------------------------------------------------------------------------
(***************************************************************************)
(* The driver.                                                             *)
(***************************************************************************)
\* FSK flags fall with the mode, LoRa flags only when they are written.
opmode(c, mode) == [c EXCEPT !.mode = mode, !.flags = @ \cap LoraFlags]

Lora(c, mode, flags, dio) ==
  [modem |-> "lora", mode |-> mode, flags |-> {}, enabled |-> flags, dio |-> dio]
Fsk(c, mode, dio) ==
  [modem |-> "fsk", mode |-> mode, flags |-> {}, enabled |-> c.enabled, dio |-> dio]

txlora(c) == Lora(c, "tx", {"TXDONE"}, Map({"TXDONE"}, {}, {}))
txfsk(c)  == Fsk(c, "tx", Map({"PACKETSENT", "PAYLOADREADY"}, {}, {}))

rxlorairqmask_NoTimeout == [SINGLE |-> {"RXDONE"}, SCAN |-> {"RXDONE"}, RSSI |-> {}]
rxlorairqmask_AllDone   == [SINGLE |-> {"RXDONE", "RXTOUT"}, SCAN |-> {"RXDONE"}, RSSI |-> {"RXDONE"}]

rxlorairqmask == [SINGLE |-> {"RXDONE", "RXTOUT"}, SCAN |-> {"RXDONE"}, RSSI |-> {}]

rxlora(c, rxmode) ==
  Lora(c, IF rxmode = "SINGLE" THEN "rxsingle" ELSE "rx", rxlorairqmask[rxmode],
       Map({"RXDONE"}, {"RXTOUT"}, {}))

rxfsk(c) == Fsk(c, "rx", Map({"PACKETSENT", "PAYLOADREADY"}, {}, {"TIMEOUT"}))

\* os_radio is called by jobs, for one operation at a time. engineUpdate may
\* also transmit for the MQTT thread, while the loop is in hal_sleep.
Start(o, c) ==
  /\ pc = "loop" \/ (o = "tx" /\ pc \in {"poll", "spin"})
  /\ op = "none" /\ op' = o /\ air' = "none" /\ out' = "none"
  /\ IF Asleep THEN chip' = c /\ UNCHANGED pc ELSE pc' = "assert" /\ UNCHANGED chip
  /\ UNCHANGED <<edge, lines, got, rand>>

RADIO_TX   == Start("tx", txlora(chip)) \/ Start("tx", txfsk(chip))
RADIO_RX   == Start("rx", rxlora(chip, "SINGLE")) \/ Start("rx", rxfsk(chip))
RADIO_RXON == Start("scan", rxlora(chip, "SCAN"))

\* The flags are not cleared, so that a line that is high stays high in LoRa.
RADIO_RST ==
  /\ pc = "loop" /\ op' = "none" /\ out' = "none"
  /\ chip' = opmode(chip, "sleep")
  /\ air' = IF High(chip') = {} THEN "none" ELSE air
  /\ UNCHANGED edge /\ UNCHANGED loop

\* radio_init collects the random seed from noise, in continuous reception.
SeedFromNoise ==
  /\ pc = "init" /\ pc' = "noise" /\ chip' = rxlora(chip, "RSSI") /\ out' = "none"
  /\ UNCHANGED <<edge, lines, got, rand, op, air>>
Seeded ==
  /\ pc = "noise" /\ pc' = "loop" /\ chip' = opmode(chip, "sleep")
  /\ rand' = RandLen /\ out' = "none"
  /\ UNCHANGED <<edge, lines, got, op, air>>

radio_rand1_Late ==
  /\ pc = "loop" /\ out' = "none"
  /\ IF rand = 0 THEN pc' = "assert" /\ UNCHANGED rand
     ELSE rand' = (IF rand > RandLen THEN 0 ELSE rand) + 1 /\ UNCHANGED pc
  /\ UNCHANGED <<chip, edge, lines, got, op, air>>

\* The buffer is encrypted once its last byte was returned.
radio_rand1 ==
  /\ pc = "loop" /\ out' = "none"
  /\ IF rand = 0 THEN pc' = "assert" /\ UNCHANGED rand
     ELSE rand' = (IF rand = RandLen THEN 0 ELSE rand) + 1 /\ UNCHANGED pc
  /\ UNCHANGED <<chip, edge, lines, got, op, air>>

-----------------------------------------------------------------------------
(***************************************************************************)
(* hal_sleep and the interrupt handler.                                    *)
(***************************************************************************)
unchangedRadio == UNCHANGED <<chip, rand, op, air>>

\* Without an interval to sleep the level of every line is read in turn.
Spin ==
  /\ pc = "loop" /\ pc' = "spin" /\ lines' = Lines /\ out' = "none"
  /\ UNCHANGED <<edge, got>> /\ unchangedRadio

\* gpioWaitForInterrupt forgets the edges it finds, waits for a new one and
\* returns all lines that have one.
BeginPoll ==
  /\ pc = "loop" /\ pc' = "poll" /\ edge' = {} /\ out' = "none"
  /\ UNCHANGED <<lines, got>> /\ unchangedRadio
PollIrq ==
  /\ pc = "poll" /\ edge # {} /\ pc' = "serve" /\ lines' = edge /\ out' = "none"
  /\ UNCHANGED <<edge, got>> /\ unchangedRadio

\* hal_checkTimer lets the loop spin for the last 20 ms.
PollTimeout ==
  /\ pc = "poll" /\ edge = {} /\ pc' = "spin" /\ lines' = Lines /\ out' = "none"
  /\ UNCHANGED <<edge, got>> /\ unchangedRadio

First == CHOOSE i \in lines : \A j \in lines : i <= j

ReadLow ==
  /\ pc = "spin" /\ lines # {} /\ First \notin High(chip)
  /\ lines' = lines \ {First} /\ out' = "none"
  /\ UNCHANGED <<edge, pc, got>> /\ unchangedRadio

\* radio_irq_handler, to where it has read the flags and the frame.
ReadFlags ==
  LET f == chip.flags
      has == [sent    |-> {"TXDONE", "PACKETSENT"} \cap f # {},
              frame   |-> {"RXDONE", "PAYLOADREADY"} \cap f # {},
              nothing |-> {"RXTOUT", "TIMEOUT"} \cap f # {}]
  IN  /\ got' = IF has.sent THEN "sent" ELSE IF has.frame THEN "frame"
                ELSE IF has.nothing THEN "nothing" ELSE "no flag"
      /\ pc' = IF got' = "no flag" /\ chip.modem = "fsk" THEN "hang"
               ELSE IF pc = "spin" THEN "irq in spin" ELSE "irq"

IrqBegins ==
  /\ \/ pc = "spin" /\ lines # {} /\ First \in High(chip)
     \/ pc = "serve" /\ lines # {}
  /\ ReadFlags /\ out' = "none"
  /\ UNCHANGED <<edge, lines>> /\ unchangedRadio

Cleared_NotFlags(c) == [c EXCEPT !.enabled = {}]

\* All LoRa interrupts are masked and their flags cleared.
Cleared(c) == IF c.modem = "lora" THEN [c EXCEPT !.enabled = {}, !.flags = {}] ELSE c

IrqEnds_Awake ==
  /\ pc \in {"irq", "irq in spin"} /\ pc' = IF pc = "irq" THEN "serve" ELSE "spin"
  /\ chip' = Cleared(chip)
  /\ out' = got /\ got' = "none" /\ op' = "none" /\ air' = "none"
  /\ lines' = lines \ {First} /\ UNCHANGED <<edge, rand>>

\* The rest of the handler: the radio to sleep and osjob into the run queue.
IrqEnds ==
  /\ pc \in {"irq", "irq in spin"} /\ pc' = IF pc = "irq" THEN "serve" ELSE "spin"
  /\ chip' = opmode(Cleared(chip), "sleep")
  /\ out' = got /\ got' = "none" /\ op' = "none" /\ air' = "none"
  /\ lines' = lines \ {First} /\ UNCHANGED <<edge, rand>>

Served ==
  /\ pc \in {"spin", "serve"} /\ lines = {} /\ pc' = "loop" /\ out' = "none"
  /\ UNCHANGED <<edge, lines, got>> /\ unchangedRadio

-----------------------------------------------------------------------------
(***************************************************************************)
(* The chip.                                                               *)
(***************************************************************************)
\* A flag is raised, and the chip goes to standby unless it receives LoRa
\* continuously.
Raise(flag, end) ==
  LET on == chip.modem = "fsk" \/ flag \in chip.enabled
  IN  /\ chip' = [chip EXCEPT
                    !.mode  = IF @ = "rx" /\ chip.modem = "lora" THEN @ ELSE "standby",
                    !.flags = IF on THEN @ \cup {flag} ELSE @]
      /\ edge' = edge \cup (High(chip') \ High(chip))
      /\ air' = IF op = "none" THEN air ELSE end
      /\ out' = "none" /\ UNCHANGED op /\ UNCHANGED loop

Receiving == chip.mode \in {"rx", "rxsingle"}

TxDone ==
  chip.mode = "tx" /\ Raise(IF chip.modem = "lora" THEN "TXDONE" ELSE "PACKETSENT", "sent")
RxDone ==
  Receiving /\ Raise(IF chip.modem = "lora" THEN "RXDONE" ELSE "PAYLOADREADY", "frame")
RxTimeout ==
  /\ chip.mode = "rxsingle" \/ (chip.mode = "rx" /\ chip.modem = "fsk")
  /\ Raise(IF chip.modem = "lora" THEN "RXTOUT" ELSE "TIMEOUT", "nothing")

-----------------------------------------------------------------------------
Init ==
  /\ chip = [modem |-> "fsk", mode |-> "sleep", flags |-> {}, enabled |-> {},
             dio |-> Map({}, {}, {})]
  /\ edge = {} /\ pc = "init" /\ lines = {} /\ got = "none" /\ rand = 0
  /\ op = "none" /\ air = "none" /\ out = "none"

Mac == RADIO_TX \/ RADIO_RX \/ RADIO_RXON \/ RADIO_RST \/ radio_rand1

HalSleep ==
  \/ Spin \/ BeginPoll \/ PollIrq \/ PollTimeout \/ ReadLow
  \/ IrqBegins \/ IrqEnds \/ Served

Chip == TxDone \/ RxDone \/ RxTimeout

Next == SeedFromNoise \/ Seeded \/ Mac \/ HalSleep \/ Chip

\* The loop goes on and sleeps, and what is transmitted or received ends.
Spec == Init /\ [][Next]_vars /\ WF_vars(HalSleep)
          /\ WF_vars(TxDone) /\ WF_vars(RxTimeout \/ (op = "rx" /\ RxDone))

-----------------------------------------------------------------------------
(***************************************************************************)
(* Properties.                                                             *)
(***************************************************************************)
TypeOK ==
  /\ chip \in [modem : {"lora", "fsk"},
               mode : {"sleep", "standby", "tx", "rx", "rxsingle"},
               flags : SUBSET (LoraFlags \cup FskFlags), enabled : SUBSET LoraFlags,
               dio : [Lines -> SUBSET (LoraFlags \cup FskFlags)]]
  /\ edge \subseteq Lines /\ lines \subseteq Lines /\ rand \in 0 .. RandLen
  /\ pc \in {"init", "noise", "loop", "spin", "poll", "serve", "irq", "irq in spin",
             "assert", "hang"}
  /\ got \in {"none", "sent", "frame", "nothing", "no flag"}

\* starttx and startrx find the radio asleep, random bytes are not drawn
\* without a seed, and radio_irq_handler does not meet an FSK interrupt
\* without its flag, for which it loops for ever.
NeverStuck == pc \notin {"assert", "hang"}

\* Whatever line the interrupt shows on, and whether poll or the reading of
\* the levels finds it, each operation of the radio is reported once and as
\* it ended on air; after RADIO_RST at most what had ended before it is.
Promise == INSTANCE Transceiver

Reported == Promise!Spec
=============================================================================
