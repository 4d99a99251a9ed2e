---------------------------- MODULE RadioProofs ----------------------------
(***************************************************************************)
(* Proofs about Radio: its types, that the driver never gets stuck, and    *)
(* that each of its steps is a step of the abstract Transceiver.           *)
(*                                                                         *)
(* The inductive invariant IInv says how the parts of the radio agree.     *)
(* Setting is the chip: what its mode says about the operation, and that   *)
(* it has one flag at most, which shows on the one line it is mapped to.   *)
(* Told says that this flag is how the operation ended on air. Serving is  *)
(* hal_sleep: a line it is going to serve without a further look at it,    *)
(* because poll reported it, is still high.                                *)
(***************************************************************************)
EXTENDS Radio, TLAPS

Flags == LoraFlags \cup FskFlags

LineOf(f) == IF f = "TIMEOUT" THEN 2 ELSE IF f = "RXTOUT" THEN 1 ELSE 0

Meaning(f) ==
  IF f \in {"TXDONE", "PACKETSENT"} THEN "sent"
  ELSE IF f \in {"RXDONE", "PAYLOADREADY"} THEN "frame" ELSE "nothing"

\* What an operation needs of the chip's settings to be reported.
Enables(c, f) == (c.modem = "lora" => f \in c.enabled) /\ f \in c.dio[LineOf(f)]

OneFlag(c) ==
  /\ c.flags \subseteq IF c.modem = "lora" THEN LoraFlags ELSE FskFlags
  /\ \A f, g \in c.flags : f = g
  /\ \A i \in Lines : \A f \in c.dio[i] : LineOf(f) = i
  /\ \A f \in c.flags : f \in c.dio[LineOf(f)]

InMode(c, o, noise) ==
  /\ c.mode = "tx" => /\ o = "tx" /\ c.flags = {}
                      /\ Enables(c, IF c.modem = "lora" THEN "TXDONE" ELSE "PACKETSENT")
  /\ c.mode = "rxsingle" => /\ c.modem = "lora" /\ o = "rx" /\ c.flags = {}
                            /\ Enables(c, "RXDONE") /\ Enables(c, "RXTOUT")
  /\ c.mode = "rx" /\ c.modem = "fsk" => /\ o = "rx" /\ c.flags = {}
                                         /\ Enables(c, "PAYLOADREADY") /\ Enables(c, "TIMEOUT")
  /\ c.mode = "rx" /\ c.modem = "lora" =>
       \/ noise /\ c.flags = {} /\ c.enabled = {}
       \/ o = "scan" /\ c.flags \subseteq {"RXDONE"} /\ Enables(c, "RXDONE")
  /\ o = "none" /\ ~noise => c.mode = "sleep"

Setting ==
  /\ OneFlag(chip) /\ InMode(chip, op, pc = "noise")
  /\ pc \in {"init", "noise"} => op = "none" /\ chip.flags = {}
  /\ pc \notin {"init", "noise"} => rand # 0

Told ==
  /\ op \in {"none", "tx", "rx", "scan"}
  /\ chip.flags = {} => air = "none"
  /\ \A f \in chip.flags : air = Meaning(f)

Serving ==
  /\ pc = "poll" => edge \subseteq High(chip) /\ (op = "none" => edge = {})
  /\ pc \in {"serve", "irq"} => lines \subseteq High(chip)
  /\ pc \in {"irq", "irq in spin"} => lines # {} /\ chip.flags # {} /\ got = air

IInv == TypeOK /\ NeverStuck /\ Setting /\ Told /\ Serving

-----------------------------------------------------------------------------
(* What the lines show. *)
LEMMA NoFlagNoLine ==
  ASSUME NEW c, c.flags = {} PROVE High(c) = {}
  BY DEF High

LEMMA LineRange == ASSUME NEW f PROVE LineOf(f) \in Lines
  BY DEF LineOf, Lines

LEMMA OneLine ==
  ASSUME NEW c, OneFlag(c), NEW f \in c.flags PROVE High(c) = {LineOf(f)}
<1>1. \A i \in High(c) : i = LineOf(f)
  BY DEF High, OneFlag
<1>2. LineOf(f) \in High(c)
  BY LineRange DEF High, OneFlag
<1> QED BY <1>1, <1>2

LEMMA FirstLine == ASSUME lines \subseteq Lines, lines # {} PROVE First \in lines
<1>1. CASE 0 \in lines
  <2>1. \A j \in lines : 0 <= j  BY DEF Lines
  <2> QED BY <1>1, <2>1 DEF First
<1>2. CASE 0 \notin lines /\ 1 \in lines
  <2>1. \A j \in lines : 1 <= j  BY <1>2 DEF Lines
  <2> QED BY <1>2, <2>1 DEF First
<1>3. CASE 0 \notin lines /\ 1 \notin lines
  <2>1. \A j \in lines : j = 2  BY <1>3 DEF Lines
  <2> QED BY <2>1 DEF First
<1> QED BY <1>1, <1>2, <1>3

(* Each way to start an operation sets the chip up for it. *)
Chips == [modem : {"lora", "fsk"},
          mode : {"sleep", "standby", "tx", "rx", "rxsingle"},
          flags : SUBSET Flags, enabled : SUBSET LoraFlags,
          dio : [Lines -> SUBSET Flags]]

SetUp(o, c) == c \in Chips /\ c.flags = {} /\ OneFlag(c) /\ InMode(c, o, FALSE)

LEMMA Transmits ==
  ASSUME chip \in Chips
  PROVE  SetUp("tx", txlora(chip)) /\ SetUp("tx", txfsk(chip))
<1> DEFINE dl == Map({"TXDONE"}, {}, {})
           df == Map({"PACKETSENT", "PAYLOADREADY"}, {}, {})
<1>0. 0 \in Lines /\ 1 \in Lines /\ 2 \in Lines /\ \A i \in Lines : i = 0 \/ i = 1 \/ i = 2
  BY DEF Lines
<1>1. /\ dl \in [Lines -> SUBSET Flags]
      /\ dl[0] = {"TXDONE"} /\ dl[1] = {} /\ dl[2] = {}
  BY <1>0 DEF Map, Flags, LoraFlags, FskFlags
<1>1b. /\ df \in [Lines -> SUBSET Flags]
      /\ df[0] = {"PACKETSENT", "PAYLOADREADY"} /\ df[1] = {} /\ df[2] = {}
  BY <1>0 DEF Map, Flags, LoraFlags, FskFlags
<1> HIDE DEF dl, df
<1>2. /\ txlora(chip) = [modem |-> "lora", mode |-> "tx", flags |-> {},
                         enabled |-> {"TXDONE"}, dio |-> dl]
      /\ txfsk(chip) = [modem |-> "fsk", mode |-> "tx", flags |-> {},
                        enabled |-> chip.enabled, dio |-> df]
  BY DEF txlora, txfsk, Lora, Fsk, dl, df
<1>3. SetUp("tx", txlora(chip))
  BY <1>0, <1>1, <1>1b, <1>2
     DEF SetUp, Chips, OneFlag, InMode, Enables, LineOf, LoraFlags, Flags
<1>4. SetUp("tx", txfsk(chip))
  BY <1>0, <1>1, <1>1b, <1>2
     DEF SetUp, Chips, OneFlag, InMode, Enables, LineOf, FskFlags, Flags
<1> QED BY <1>3, <1>4

LEMMA Receives ==
  ASSUME chip \in Chips
  PROVE  /\ SetUp("rx", rxlora(chip, "SINGLE")) /\ SetUp("rx", rxfsk(chip))
         /\ SetUp("scan", rxlora(chip, "SCAN"))
<1> DEFINE dl == Map({"RXDONE"}, {"RXTOUT"}, {})
           df == Map({"PACKETSENT", "PAYLOADREADY"}, {}, {"TIMEOUT"})
<1>0. 0 \in Lines /\ 1 \in Lines /\ 2 \in Lines /\ \A i \in Lines : i = 0 \/ i = 1 \/ i = 2
  BY DEF Lines
<1>1. /\ dl \in [Lines -> SUBSET Flags]
      /\ dl[0] = {"RXDONE"} /\ dl[1] = {"RXTOUT"} /\ dl[2] = {}
  BY <1>0 DEF Map, Flags, LoraFlags, FskFlags
<1>1b. /\ df \in [Lines -> SUBSET Flags]
      /\ df[0] = {"PACKETSENT", "PAYLOADREADY"} /\ df[1] = {} /\ df[2] = {"TIMEOUT"}
  BY <1>0 DEF Map, Flags, LoraFlags, FskFlags
<1> HIDE DEF dl, df
<1>2. /\ rxlora(chip, "SINGLE") = [modem |-> "lora", mode |-> "rxsingle", flags |-> {},
                                   enabled |-> {"RXDONE", "RXTOUT"}, dio |-> dl]
      /\ rxlora(chip, "SCAN") = [modem |-> "lora", mode |-> "rx", flags |-> {},
                                 enabled |-> {"RXDONE"}, dio |-> dl]
      /\ rxfsk(chip) = [modem |-> "fsk", mode |-> "rx", flags |-> {},
                        enabled |-> chip.enabled, dio |-> df]
  BY DEF rxlora, rxlorairqmask, rxfsk, Lora, Fsk, dl, df
<1>3. SetUp("rx", rxlora(chip, "SINGLE"))
  BY <1>0, <1>1, <1>1b, <1>2
     DEF SetUp, Chips, OneFlag, InMode, Enables, LineOf, LoraFlags, Flags
<1>4. SetUp("rx", rxfsk(chip))
  BY <1>0, <1>1, <1>1b, <1>2
     DEF SetUp, Chips, OneFlag, InMode, Enables, LineOf, FskFlags, Flags
<1>5. SetUp("scan", rxlora(chip, "SCAN"))
  BY <1>0, <1>1, <1>1b, <1>2
     DEF SetUp, Chips, OneFlag, InMode, Enables, LineOf, LoraFlags, Flags
<1> QED BY <1>3, <1>4, <1>5

(* An operation is started while the radio sleeps, and clears all flags. *)
LEMMA StartStep ==
  ASSUME IInv, NEW o \in {"tx", "rx", "scan"}, NEW c, SetUp(o, c), Start(o, c)
  PROVE  IInv' /\ Promise!Start
<1>1. /\ chip.mode = "sleep" /\ chip' = c /\ pc' = pc /\ op' = o /\ air' = "none"
      /\ pc \in {"loop", "poll", "spin"} /\ op = "none" /\ out' = "none"
      /\ UNCHANGED <<edge, lines, got, rand>>
  BY DEF IInv, Setting, InMode, Start, Asleep
<1>2. TypeOK'
  BY <1>1 DEF IInv, TypeOK, SetUp, Chips, Flags
<1>3. NeverStuck' /\ Setting'
  BY <1>1 DEF IInv, NeverStuck, Setting, SetUp
<1>4. Told' /\ Serving'
  BY <1>1 DEF IInv, Told, Serving, SetUp
<1>5. Promise!Start
  BY <1>1 DEF Promise!Start
<1> QED BY <1>2, <1>3, <1>4, <1>5 DEF IInv

(* The other steps of the MAC, and the seed that radio_init takes from     *)
(* noise. After RADIO_RST a LoRa line stays high with its flag.            *)
LEMMA ResetStep ==
  ASSUME IInv, RADIO_RST PROVE IInv' /\ Promise!Abort
<1> DEFINE c == opmode(chip, "sleep")
<1>1. /\ chip' = c /\ pc' = pc /\ pc = "loop" /\ op' = "none" /\ out' = "none"
      /\ UNCHANGED <<edge, lines, got, rand>>
  BY DEF RADIO_RST, loop
<1>2. /\ c.modem = chip.modem /\ c.mode = "sleep" /\ c.flags = chip.flags \cap LoraFlags
      /\ c.enabled = chip.enabled /\ c.dio = chip.dio /\ c \in Chips
  BY DEF opmode, IInv, TypeOK, Chips, Flags
<1>3. c.flags = {} \/ c.flags = chip.flags
  BY <1>2 DEF IInv, Setting, OneFlag, LoraFlags, FskFlags
<1> HIDE DEF c
<1>4. OneFlag(c)
  BY <1>2, <1>3 DEF IInv, Setting, OneFlag
<1>5. IF c.flags = {} THEN air' = "none" ELSE air' = air
  <2>1. CASE c.flags = {}
    BY <1>1, <2>1, NoFlagNoLine DEF RADIO_RST
  <2>2. CASE c.flags # {}
    <3>1. PICK f \in c.flags : TRUE
      BY <2>2
    <3>2. High(c) # {}
      BY <3>1, <1>4, OneLine
    <3> QED BY <1>1, <2>2, <3>2 DEF RADIO_RST
  <2> QED BY <2>1, <2>2
<1>6. TypeOK'
  BY <1>1, <1>2 DEF IInv, TypeOK, Chips, Flags
<1>7. NeverStuck' /\ Setting'
  BY <1>1, <1>2, <1>4 DEF IInv, NeverStuck, Setting, InMode
<1>8. Told'
  BY <1>1, <1>3, <1>5 DEF IInv, Told
<1>9. Serving'
  BY <1>1 DEF IInv, Serving
<1>10. Promise!Abort
  BY <1>1, <1>5 DEF Promise!Abort
<1> QED BY <1>6, <1>7, <1>8, <1>9, <1>10 DEF IInv

LEMMA NoiseStep ==
  ASSUME IInv, SeedFromNoise PROVE IInv' /\ Promise!Quiet
<1> DEFINE dl == Map({"RXDONE"}, {"RXTOUT"}, {})
<1>0. 0 \in Lines /\ 1 \in Lines /\ 2 \in Lines /\ \A i \in Lines : i = 0 \/ i = 1 \/ i = 2
  BY DEF Lines
<1>1. /\ dl \in [Lines -> SUBSET Flags]
      /\ dl[0] = {"RXDONE"} /\ dl[1] = {"RXTOUT"} /\ dl[2] = {}
  BY <1>0 DEF Map, Flags, LoraFlags, FskFlags
<1> HIDE DEF dl
<1>2. /\ chip' = [modem |-> "lora", mode |-> "rx", flags |-> {}, enabled |-> {}, dio |-> dl]
      /\ pc' = "noise" /\ pc = "init" /\ UNCHANGED <<edge, lines, got, rand, op, air>>
  BY DEF SeedFromNoise, rxlora, rxlorairqmask, Lora, dl
<1>4. TypeOK' /\ NeverStuck'
  BY <1>1, <1>2 DEF IInv, TypeOK, NeverStuck, Flags
<1>5. OneFlag(chip')
  BY <1>0, <1>1, <1>2 DEF OneFlag, LineOf
<1>6. Setting'
  BY <1>2, <1>5 DEF IInv, Setting, InMode
<1>7. Told' /\ Serving'
  BY <1>2 DEF IInv, Told, Serving, Setting
<1>8. Promise!Quiet
  BY <1>2 DEF SeedFromNoise, Promise!Quiet
<1> QED BY <1>4, <1>6, <1>7, <1>8 DEF IInv

LEMMA SeededStep ==
  ASSUME IInv, Seeded PROVE IInv' /\ Promise!Quiet
<1>1. /\ pc = "noise" /\ pc' = "loop" /\ rand' = RandLen /\ out' = "none"
      /\ UNCHANGED <<edge, lines, got, op, air>>
      /\ chip' = [chip EXCEPT !.mode = "sleep", !.flags = @ \cap LoraFlags]
  BY DEF Seeded, opmode
<1>2. /\ chip'.modem = chip.modem /\ chip'.mode = "sleep" /\ chip'.flags = {}
      /\ chip'.enabled = chip.enabled /\ chip'.dio = chip.dio /\ chip' \in Chips
      /\ chip.flags = {}
  BY <1>1 DEF IInv, Setting, TypeOK, Chips, Flags
<1>3. RandLen \in 0 .. RandLen /\ RandLen # 0
  BY RadioAssumption
<1>4. TypeOK' /\ NeverStuck'
  BY <1>1, <1>2, <1>3 DEF IInv, TypeOK, NeverStuck, Chips, Flags
<1>5. Setting'
  BY <1>1, <1>2, <1>3 DEF IInv, Setting, InMode, OneFlag
<1>6. Told' /\ Serving'
  BY <1>1, <1>2 DEF IInv, Told, Serving
<1>7. Promise!Quiet
  BY <1>1 DEF Promise!Quiet
<1> QED BY <1>4, <1>5, <1>6, <1>7 DEF IInv

LEMMA RandomStep ==
  ASSUME IInv, radio_rand1 PROVE IInv' /\ Promise!Quiet
<1>1. /\ pc = "loop" /\ rand # 0 /\ pc' = pc /\ out' = "none"
      /\ rand' = (IF rand = RandLen THEN 0 ELSE rand) + 1
      /\ UNCHANGED <<chip, edge, lines, got, op, air>>
  BY DEF IInv, Setting, radio_rand1
<1>2. rand' \in 0 .. RandLen /\ rand' # 0
  <2>1. rand \in Int /\ 0 <= rand /\ rand <= RandLen
    <3>1. rand \in 0 .. RandLen
      BY DEF IInv, TypeOK
    <3> QED BY <3>1, RadioAssumption
  <2>2. rand' \in Int /\ 1 <= rand' /\ rand' <= RandLen
    BY <1>1, <2>1, RadioAssumption
  <2> QED BY <2>2, RadioAssumption
<1>3. TypeOK' /\ NeverStuck'
  BY <1>1, <1>2 DEF IInv, TypeOK, NeverStuck
<1>4. Setting' /\ Told' /\ Serving'
  BY <1>1, <1>2 DEF IInv, Setting, Told, Serving
<1>5. Promise!Quiet
  BY <1>1 DEF Promise!Quiet
<1> QED BY <1>3, <1>4, <1>5 DEF IInv

(* hal_sleep finds the lines to serve, without touching the radio. *)
LEMMA SleepStep ==
  ASSUME IInv, Spin \/ BeginPoll \/ PollIrq \/ PollTimeout \/ ReadLow \/ Served
  PROVE  IInv' /\ Promise!Quiet
<1>1. /\ UNCHANGED <<chip, rand, op, air, got>> /\ out' = "none"
      /\ pc \in {"loop", "poll", "spin", "serve"}
      /\ pc' \in {"loop", "poll", "spin", "serve"}
  BY DEF Spin, BeginPoll, PollIrq, PollTimeout, ReadLow, Served, unchangedRadio
<1>2. /\ edge' \subseteq Lines /\ lines' \subseteq Lines
      /\ pc' = "poll" => edge' = {}
      /\ pc' = "serve" => lines' \subseteq High(chip)
  BY DEF IInv, TypeOK, Serving, Spin, BeginPoll, PollIrq, PollTimeout, ReadLow, Served,
         unchangedRadio
<1>3. TypeOK' /\ NeverStuck'
  BY <1>1, <1>2 DEF IInv, TypeOK, NeverStuck
<1>4. Setting' /\ Told'
  BY <1>1 DEF IInv, Setting, Told
<1>5. High(chip') = High(chip)
  BY <1>1
<1>6. Serving'
  BY <1>1, <1>2, <1>5 DEF Serving
<1>7. Promise!Quiet
  BY <1>1 DEF Promise!Quiet
<1> QED BY <1>3, <1>4, <1>6, <1>7 DEF IInv

(* The handler finds the one flag there is, in a scan of the levels as well *)
(* as for a line that poll reported: the line it is called for is high.     *)
LEMMA HandlerBegins ==
  ASSUME IInv, IrqBegins PROVE IInv' /\ Promise!Quiet
<1>1. /\ UNCHANGED <<chip, rand, op, air, edge, lines>> /\ out' = "none" /\ lines # {}
      /\ pc \in {"spin", "serve"} /\ ReadFlags
      /\ pc = "spin" => First \in High(chip)
  BY DEF IrqBegins, unchangedRadio
<1>2. First \in High(chip)
  BY <1>1, FirstLine DEF IInv, TypeOK, Serving
<1>3. PICK f \in chip.flags : TRUE
  BY <1>2 DEF High
<1>4. /\ chip.flags = {f} /\ air = Meaning(f)
      /\ f \in LoraFlags \cup FskFlags
  BY <1>3 DEF IInv, TypeOK, Setting, OneFlag, Told
<1>5. /\ got' = air /\ got' \in {"sent", "frame", "nothing"}
      /\ pc' = IF pc = "spin" THEN "irq in spin" ELSE "irq"
  <2>1. CASE f \in {"TXDONE", "PACKETSENT"}
    BY <1>1, <1>4, <2>1 DEF ReadFlags, Meaning
  <2>2. CASE f \in {"RXDONE", "PAYLOADREADY"}
    BY <1>1, <1>4, <2>2 DEF ReadFlags, Meaning
  <2>3. CASE f \in {"RXTOUT", "TIMEOUT"}
    BY <1>1, <1>4, <2>3 DEF ReadFlags, Meaning
  <2> QED BY <1>4, <2>1, <2>2, <2>3 DEF LoraFlags, FskFlags
<1>6. TypeOK' /\ NeverStuck'
  BY <1>1, <1>5 DEF IInv, TypeOK, NeverStuck
<1>7. Setting' /\ Told'
  BY <1>1, <1>5 DEF IInv, Setting, Told
<1>8. High(chip') = High(chip)
  BY <1>1
<1>9. Serving'
  BY <1>1, <1>3, <1>5, <1>8 DEF IInv, Serving
<1>10. Promise!Quiet
  BY <1>1 DEF Promise!Quiet
<1> QED BY <1>6, <1>7, <1>9, <1>10 DEF IInv

(* When it ends no flag is left, in either modem, and no other line waits. *)
LEMMA HandlerEnds ==
  ASSUME IInv, IrqEnds PROVE IInv' /\ Promise!Report
<1> DEFINE c == opmode(Cleared(chip), "sleep")
<1>1. /\ chip' = c /\ out' = got /\ got' = "none" /\ op' = "none" /\ air' = "none"
      /\ lines' = lines \ {First} /\ UNCHANGED <<edge, rand>>
      /\ pc \in {"irq", "irq in spin"} /\ pc' = IF pc = "irq" THEN "serve" ELSE "spin"
  BY DEF IrqEnds
<1>2. /\ c.modem = chip.modem /\ c.mode = "sleep" /\ c.flags = {} /\ c.dio = chip.dio
      /\ c \in Chips
  <2>1. CASE chip.modem = "lora"
    BY <2>1 DEF opmode, Cleared, IInv, TypeOK, Chips, Flags
  <2>2. CASE chip.modem # "lora"
    BY <2>2 DEF opmode, Cleared, IInv, TypeOK, Chips, Flags, Setting, OneFlag,
                LoraFlags, FskFlags
  <2> QED BY <2>1, <2>2
<1> HIDE DEF c
<1>3. PICK f \in chip.flags : TRUE
  BY <1>1 DEF IInv, Serving
<1>4. got = air /\ air = Meaning(f) /\ air # "none" /\ High(chip) = {LineOf(f)}
  BY <1>1, <1>3, OneLine DEF IInv, Serving, Told, Setting, Meaning
<1>5. pc = "irq" => lines' = {}
  BY <1>1, <1>4, FirstLine DEF IInv, TypeOK, Serving
<1>6. TypeOK' /\ NeverStuck'
  BY <1>1, <1>2 DEF IInv, TypeOK, NeverStuck, Chips, Flags
<1>7. Setting'
  BY <1>1, <1>2 DEF IInv, Setting, InMode, OneFlag
<1>8. Told' /\ Serving'
  BY <1>1, <1>2, <1>5 DEF Told, Serving
<1>9. Promise!Report
  BY <1>1, <1>4 DEF Promise!Report
<1> QED BY <1>6, <1>7, <1>8, <1>9 DEF IInv

(* A flag that the chip raises belongs to the operation in progress. In a  *)
(* scan a second frame may raise the same flag again before the handler    *)
(* has run; while radio_init listens to noise no flag is enabled.          *)
LEMMA RaiseStep ==
  ASSUME IInv, NEW f \in LoraFlags \cup FskFlags, NEW end, Raise(f, end),
         end = Meaning(f), chip.mode \in {"tx", "rx", "rxsingle"},
         chip.flags \subseteq {f},
         chip.mode = "rx" /\ chip.modem = "lora" => f = "RXDONE",
         f \in (IF chip.modem = "lora" THEN LoraFlags ELSE FskFlags),
         \/ pc = "noise" /\ chip.modem = "lora" /\ chip.mode = "rx" /\ f \notin chip.enabled
         \/ pc # "noise" /\ Enables(chip, f) /\ end \in Promise!Outcomes[op]
  PROVE  IInv' /\ (Promise!Finish \/ Promise!Quiet)
<1>1. /\ out' = "none" /\ UNCHANGED <<op, pc, lines, got, rand>>
      /\ edge' = edge \cup (High(chip') \ High(chip))
      /\ air' = IF op = "none" THEN air ELSE end
      /\ chip' = [chip EXCEPT
                    !.mode  = IF @ = "rx" /\ chip.modem = "lora" THEN @ ELSE "standby",
                    !.flags = IF chip.modem = "fsk" \/ f \in chip.enabled
                              THEN @ \cup {f} ELSE @]
  BY DEF Raise, loop
<1>2. /\ chip'.modem = chip.modem /\ chip'.dio = chip.dio /\ chip'.enabled = chip.enabled
      /\ chip'.mode = IF chip.mode = "rx" /\ chip.modem = "lora" THEN "rx" ELSE "standby"
      /\ chip'.flags = IF chip.modem = "fsk" \/ f \in chip.enabled
                       THEN chip.flags \cup {f} ELSE chip.flags
      /\ chip' \in Chips
  BY <1>1 DEF IInv, TypeOK, Chips, Flags
<1>3. High(chip) \subseteq High(chip') /\ High(chip') \subseteq Lines
  BY <1>2 DEF High
<1>4. TypeOK' /\ NeverStuck'
  BY <1>1, <1>2, <1>3 DEF IInv, TypeOK, NeverStuck, Chips, Flags
<1>5. CASE pc = "noise"
  <2>1. chip' = chip /\ op = "none" /\ air' = air /\ edge' = edge
    <3>1. op = "none" /\ chip.modem = "lora" /\ chip.mode = "rx" /\ f \notin chip.enabled
      BY <1>5 DEF IInv, Setting
    <3>2. chip' = [chip EXCEPT !.mode = chip.mode, !.flags = chip.flags]
      BY <1>1, <3>1
    <3>3. chip' = chip
      BY <3>2 DEF IInv, TypeOK
    <3> QED BY <1>1, <3>1, <3>3
  <2>2. Setting' /\ Told' /\ Serving'
    BY <1>1, <1>5, <2>1 DEF IInv, Setting, Told, Serving
  <2>3. Promise!Quiet
    BY <1>1, <2>1 DEF Promise!Quiet
  <2> QED BY <1>4, <2>2, <2>3 DEF IInv
<1>6. CASE pc # "noise"
  <2>1. /\ Enables(chip, f) /\ end \in Promise!Outcomes[op]
        /\ pc # "init" /\ op # "none" /\ air' = end
    BY <1>1, <1>6 DEF IInv, Setting, InMode, OneFlag
  <2>2. chip'.flags = {f}
    BY <1>2, <2>1 DEF Enables, IInv, TypeOK
  <2>3. OneFlag(chip')
    BY <1>2, <2>1, <2>2 DEF IInv, Setting, OneFlag, Enables
  <2>4. InMode(chip', op', FALSE)
    BY <1>1, <1>2, <1>6, <2>1, <2>2 DEF IInv, Setting, InMode, Enables
  <2>5. Setting'
    BY <1>1, <1>6, <2>1, <2>3, <2>4 DEF IInv, Setting
  <2>6. Told'
    BY <1>1, <2>1, <2>2 DEF IInv, Told
  <2>7. Serving'
    BY <1>1, <1>3, <2>1, <2>2 DEF IInv, Serving, Told
  <2>8. Promise!Finish \/ Promise!Quiet
    <3>1. CASE chip.flags = {}
      BY <1>1, <2>1, <3>1 DEF IInv, Told, Promise!Finish
    <3>2. CASE chip.flags # {}
      <4>1. air = end
        BY <3>2 DEF IInv, Told
      <4> QED BY <1>1, <2>1, <4>1 DEF Promise!Quiet
    <3> QED BY <3>1, <3>2
  <2> QED BY <1>4, <2>5, <2>6, <2>7, <2>8 DEF IInv
<1> QED BY <1>5, <1>6

LEMMA ChipStep ==
  ASSUME IInv, Chip PROVE IInv' /\ (Promise!Finish \/ Promise!Quiet)
<1>0. chip.modem \in {"lora", "fsk"}
  BY DEF IInv, TypeOK
<1>1. CASE TxDone
  <2> DEFINE f == IF chip.modem = "lora" THEN "TXDONE" ELSE "PACKETSENT"
  <2>1. chip.mode = "tx" /\ Raise(f, "sent")
    BY <1>1 DEF TxDone
  <2>2. /\ f \in LoraFlags \cup FskFlags /\ Meaning(f) = "sent"
        /\ f \in (IF chip.modem = "lora" THEN LoraFlags ELSE FskFlags)
    BY DEF LoraFlags, FskFlags, Meaning
  <2>3. op = "tx" /\ chip.flags = {} /\ Enables(chip, f) /\ pc # "noise"
    BY <2>1 DEF IInv, Setting, InMode
  <2>4. "sent" \in Promise!Outcomes[op]
    BY <2>3 DEF Promise!Outcomes
  <2> HIDE DEF f
  <2> QED BY <2>1, <2>2, <2>3, <2>4, RaiseStep
<1>2. CASE RxDone
  <2> DEFINE f == IF chip.modem = "lora" THEN "RXDONE" ELSE "PAYLOADREADY"
  <2>1. chip.mode \in {"rx", "rxsingle"} /\ Raise(f, "frame")
    BY <1>2 DEF RxDone, Receiving
  <2>2. /\ f \in LoraFlags \cup FskFlags /\ Meaning(f) = "frame"
        /\ chip.modem = "lora" => f = "RXDONE"
        /\ f \in (IF chip.modem = "lora" THEN LoraFlags ELSE FskFlags)
    BY DEF LoraFlags, FskFlags, Meaning
  <2>3. \/ pc = "noise" /\ chip.modem = "lora" /\ chip.mode = "rx"
           /\ chip.flags = {} /\ f \notin chip.enabled
        \/ /\ pc # "noise" /\ op \in {"rx", "scan"} /\ Enables(chip, f)
           /\ chip.flags \subseteq {f}
    BY <1>0, <2>1 DEF IInv, Setting, InMode
  <2>4. op \in {"rx", "scan"} => "frame" \in Promise!Outcomes[op]
    BY DEF Promise!Outcomes
  <2> HIDE DEF f
  <2>5. CASE pc = "noise"
    BY <2>1, <2>2, <2>3, <2>5, RaiseStep
  <2>6. CASE pc # "noise"
    BY <2>1, <2>2, <2>3, <2>4, <2>6, RaiseStep
  <2> QED BY <2>5, <2>6
<1>3. CASE RxTimeout
  <2> DEFINE f == IF chip.modem = "lora" THEN "RXTOUT" ELSE "TIMEOUT"
  <2>1. /\ chip.mode = "rxsingle" \/ (chip.mode = "rx" /\ chip.modem = "fsk")
        /\ Raise(f, "nothing") /\ chip.mode \in {"rx", "rxsingle"}
        /\ ~ (chip.mode = "rx" /\ chip.modem = "lora")
    BY <1>0, <1>3 DEF RxTimeout
  <2>2. /\ f \in LoraFlags \cup FskFlags /\ Meaning(f) = "nothing"
        /\ f \in (IF chip.modem = "lora" THEN LoraFlags ELSE FskFlags)
    BY DEF LoraFlags, FskFlags, Meaning
  <2>3. op = "rx" /\ chip.flags = {} /\ Enables(chip, f) /\ pc # "noise"
    BY <1>0, <2>1 DEF IInv, Setting, InMode
  <2>4. "nothing" \in Promise!Outcomes[op]
    BY <2>3 DEF Promise!Outcomes
  <2> HIDE DEF f
  <2> QED BY <2>1, <2>2, <2>3, <2>4, RaiseStep
<1> QED BY <1>1, <1>2, <1>3 DEF Chip

-----------------------------------------------------------------------------
LEMMA InitIInv == Init => IInv /\ Promise!Init
<1> SUFFICES ASSUME Init PROVE IInv /\ Promise!Init
  OBVIOUS
<1>0. 0 \in Lines /\ 1 \in Lines /\ 2 \in Lines /\ \A i \in Lines : i = 0 \/ i = 1 \/ i = 2
  BY DEF Lines
<1>1. /\ Map({}, {}, {}) \in [Lines -> SUBSET (LoraFlags \cup FskFlags)]
      /\ \A i \in Lines : Map({}, {}, {})[i] = {}
  BY <1>0 DEF Map
<1>2. 0 \in 0 .. RandLen
  BY RadioAssumption
<1>3. TypeOK /\ NeverStuck
  BY <1>1, <1>2 DEF Init, TypeOK, NeverStuck
<1>4. OneFlag(chip)
  BY <1>1 DEF Init, OneFlag
<1>5. Setting /\ Told /\ Serving
  BY <1>4 DEF Init, Setting, InMode, Told, Serving
<1>6. Promise!Init
  BY DEF Init, Promise!Init
<1> QED BY <1>3, <1>5, <1>6 DEF IInv

(* One step of the driver or of the chip, or none.                         *)
LEMMA Step ==
  IInv /\ [Next]_vars => IInv' /\ [Promise!Next]_(Promise!vars)
<1> SUFFICES ASSUME IInv, [Next]_vars PROVE IInv' /\ [Promise!Next]_(Promise!vars)
  OBVIOUS
<1>0. chip \in Chips
  BY DEF IInv, TypeOK, Chips, Flags
<1>1. CASE RADIO_TX
  BY <1>0, <1>1, Transmits, StartStep DEF RADIO_TX, Promise!Next
<1>2. CASE RADIO_RX \/ RADIO_RXON
  BY <1>0, <1>2, Receives, StartStep DEF RADIO_RX, RADIO_RXON, Promise!Next
<1>3. CASE RADIO_RST
  BY <1>3, ResetStep DEF Promise!Next
<1>4. CASE SeedFromNoise \/ Seeded \/ radio_rand1
  BY <1>4, NoiseStep, SeededStep, RandomStep DEF Promise!Next
<1>5. CASE HalSleep
  BY <1>5, SleepStep, HandlerBegins, HandlerEnds DEF HalSleep, Promise!Next
<1>6. CASE Chip
  BY <1>6, ChipStep DEF Promise!Next
<1>7. CASE UNCHANGED vars
  <2>1. UNCHANGED <<chip, edge, pc, lines, got, rand, op, air, out>>
    BY <1>7 DEF vars
  <2>2. TypeOK' /\ NeverStuck' /\ Setting' /\ Told'
    BY <2>1 DEF IInv, TypeOK, NeverStuck, Setting, Told
  <2>3. Serving'
    BY <2>1 DEF IInv, Serving, High
  <2> QED BY <2>1, <2>2, <2>3 DEF IInv, Promise!vars
<1> QED BY <1>1, <1>2, <1>3, <1>4, <1>5, <1>6, <1>7 DEF Next, Mac

(* The inductive invariant, for every length of the random buffer.         *)
THEOREM Invariance == Spec => []IInv
  BY InitIInv, Step, PTL DEF Spec

(* The parts of the chip, the run loop and the handler keep their types;   *)
(* in particular the index into randbuf stays inside it (radio.c:730).     *)
THEOREM TypeCorrect == Spec => []TypeOK
<1>1. IInv => TypeOK
  BY DEF IInv
<1> QED BY Invariance, <1>1, PTL

(* starttx and startrx always find the radio asleep, radio_rand1 its seed, *)
(* and the handler the flag of the interrupt it is called for, whether     *)
(* poll reported the line or its level was read (radio.c:533, 657, 732,    *)
(* 822).                                                                  *)
THEOREM NeverGetsStuck == Spec => []NeverStuck
<1>1. IInv => NeverStuck
  BY DEF IInv
<1> QED BY Invariance, <1>1, PTL

(* The safety part of Reported: an operation is reported to the MAC at     *)
(* most once, as it ended on air, and nothing is reported otherwise.       *)
THEOREM Implements == Spec => Promise!Init /\ [][Promise!Next]_(Promise!vars)
  BY InitIInv, Step, Invariance, PTL DEF Spec
=============================================================================
