# A TLA+ verification development of mqtt2LoRaWAN

mqtt2LoRaWAN is a bridge on a Raspberry Pi: what is published on one MQTT topic is sent
as the payload of a LoRaWAN uplink. It is a C++ program around IBM's LMIC 1.6, the MAC
of a LoRaWAN end device, with a hardware abstraction layer for the Dragino LoRa/GPS HAT.
This directory holds TLA+ specifications translated from that code, TLC configurations
that check them on small instances, and proofs that TLAPS checks.

The build that is modelled is the one of `src/CMakeLists.txt`: EU868, SX1276, assertions
on. Paths below are relative to the repository.

## 1. The system

| Component | Files | State | Operations | Modelled in |
|---|---|---|---|---|
| Start and configuration | `main.cpp`, `POHelperClasses.*` | options, `DEVEUI`, `APPEUI`, `DEVKEY` | steps of `main`, `initfunc` | `Bridge` |
| MQTT session | `HelperClasses.hpp`, `MQTTDataStreamer.*` | connection, subscription | connect, `connected`, `connection_lost`, `message_arrived` | `Bridge` |
| MAC engine, class A | `lmic/lmic.c` | `struct LMIC` | job functions, API, interrupt | `Lmic`; its sequence numbers against a network: `Session` |
| Channels and duty cycle | `lmic/lmic.c` (EU868 part) | channel table, `bands[]`, `globalDutyAvail` | `nextTx`, `updateTx`, channel commands | `Channels` |
| Job lists and loop | `lmic/oslmic.c` | two linked lists | `os_setCallback`, `os_setTimedCallback`, `os_clearCallback`, `os_runloop` | `RunLoop` |
| Time and interrupts | `lora_gps_hat/hal.c`, `gpio.c` | tick counter, `sleep_interval_ms` | `hal_checkTimer`, `hal_sleep`, `gpioWaitForInterrupt` | `RunLoop` |
| Radio driver | `lmic/radio.c`, `hal_sleep` | modes, interrupt flags and lines of the chip, `randbuf` | `os_radio`, `radio_irq_handler`, `radio_init`, `radio_rand1` | `Radio`; what the engine sees of it: `Lmic` |
| Class B, AES, debug output, US915 | rest of `lmic/`, `debug.c` | | | not modelled |

How they interact:

- **Two threads.** `main` ends in `os_runloop`, which runs every job and, from
  `hal_sleep`, the interrupt handler of the radio. The MQTT library has a thread of its own
  that calls `message_arrived`, `processMessage` and with it `LMIC_setTxData2` and
  `engineUpdate`. No lock protects `struct LMIC`, the lists or the radio;
  `hal_disableIRQs` does nothing.
- **One job.** All of the MAC runs in callbacks of `LMIC.osjob`. Its `func` field is also
  how the interrupt handler knows what to continue with: `os_radio` is called and `func` is
  preset, and the handler queues the job with the function it finds.
- **Events.** The engine reports to `onEvent` of `main.cpp`, which logs them, and calls
  `engineUpdate` after each report.
- **Time.** Everything is kept as a 32-bit count of ticks that wraps after 36.4 hours and
  is compared by the sign of a difference.

What is hard about it: the order of interrupt, timer and calls of the other thread around
one job; counters that serve two purposes (`txCnt` counts join attempts and retries);
flags that several paths clear (`OP_TXDATA`, `OP_TXRXPEND`); arithmetic on a clock that
wraps; edges of an interrupt line that can be missed; the program being called before it
is initialised.

What makes each component right:

- *Engine*: it never touches a busy radio, never loses the thread of a transaction, keeps to
  the class A exchange, bounds its retries, uses a sequence number for one payload, answers
  the network, goes on joining, disposes of data, is silent after a shutdown.
- *Session*: the network takes a message once and it is reported as acknowledged only then;
  downlinks reach the application in order and once; the numbers of both sides stay
  in step over losses, repetitions, restarts and the end of their range, and get there again.
- *Radio*: every operation is reported once and as it ended, whichever of the lines shows it
  and whether the level or the edge is seen; the driver meets no ASSERT and no endless loop.
- *Channels*: duty cycle limits hold across the wrap of the clock; a usable channel is
  found as soon as there is one; a join tries every data rate on two channels before the next.
- *Run loop*: no job is lost, run twice, early, late or out of order; an interrupt is served.
- *Bridge*: the MAC is only started with its keys, is started whatever the broker does, and is started once.

## 2. The modules

| Module | What it is |
|---|---|
| `Lmic` | the class A engine: `struct LMIC`, its job and the radio as one record |
| `ClassA` | abstract: the exchange of uplink and two receive windows |
| `LmicClassA` | refinement of `ClassA` by `Lmic` |
| `MCLmic` | instances of the engine for TLC |
| `LmicProofs` | theorems about `Lmic`, for every use of it |
| `LmicExchange` | theorems about `Lmic` as the bridge uses it, among them that it implements `ClassA` |
| `LmicUplinks` | theorems about `Lmic`: sequence numbers, tries, answers and messages, for every use as far as they hold there |
| `Session`, `MCSession` | sequence numbers, acknowledgements and sessions of device and network over a link that loses frames |
| `SessionProofs` | theorems about `Session` |
| `Transceiver` | abstract: an operation of the radio and its outcome |
| `Radio` | driver, chip and the lines between them; refines `Transceiver` |
| `RadioProofs` | theorems about `Radio`, the refinement among them |
| `Channels`, `MCChannels` | channel selection and duty cycle, from the join on, with real arithmetic on a wrapping clock |
| `ChannelsProofs` | theorems about `Channels` |
| `JobQueue` | abstract: a queue of ready jobs and a set of timed jobs |
| `RunLoop`, `MCRunLoop` | linked lists, wrapping deadlines, poll and interrupt line; refines `JobQueue` |
| `RunLoopProofs` | theorems about `RunLoop`, the refinement among them |
| `Bridge`, `MCBridge` | start of the program and MQTT session |
| `BridgeProofs` | theorems about `Bridge` |

**Lmic.** A C function is an operator from the record `mac` to the record it leaves; calls
nest as in the code (`processDnData` calls `decodeFrame`, reports events, and each report
calls `engineUpdate`). An action is one callback of the job, one radio interrupt, the
passing of a deadline, or one API call. Clock values are two Booleans: `wait` (the
transmit time lies ahead) and `due` (the deadline of the job has passed); where the code
reads the clock again after a report, the answer is chosen again if `SlowReports`.
`IdleCalls` restricts API calls to moments at which the loop sleeps; without it they come
between any two jobs, which is what the MQTT thread does. A call is one step: races inside
a call are not represented. The radio is `"sleep"`, `"tx"` or `"rx"`; an `ASSERT` that
fails sets `aborted`. Frames are records of what the engine looks at: kind, sequence
number, flags, the six MAC commands that the device answers (`MacCmds`), and whether there is a
`MCMD_BCNI_ANS` (`bcni`), whose `ASSERT` ends the program (`BeaconInfo`). How long a frame is on air is not
represented, but whether it may still be when a deadline comes (`Outlasts`): only a data frame at a
data rate up to `SlowDr` can outlast the second before its receive window, no frame the 5 s after a join request
or the 3 s at least before the next transmission. While the driver waits for the receive time in its busy loop, time passes
that a job left in the schedule was waiting for (`os_radio`).

**Session.** The device is the same `lmic.c`, seen from its frames: an action is a
transmission, a downlink or JOIN ACCEPT heard, a transaction without an answer, an API call, or a
restart of the program, which keeps nothing. The two receive windows are one, and the duty
cycle is a delay before `Transmit`. The network is external and does what `lmic.c` relies on: it takes
each number once, acknowledges confirmed uplinks, repeats a confirmed downlink until it is
acknowledged, never rolls over, and keeps the old session until it hears the device in the
new one. A frame carries 16 bits of a 32-bit number, and the receiver completes it (`Complete`); the integrity
code is right exactly when the completed number is the sender's and the session is the same. Frames
may be lost in both directions; repetitions come from the retries of both sides. `taken` and `heard` are history.

**Radio.** The driver is one action per `os_radio` request; `hal_sleep` is taken apart: the level of each
line in turn in an active pass, `poll` with its edges otherwise, and the handler in two
steps, so that the chip can go on between its reading of the flags and its clearing of them. `chip` holds mode,
modem, raised and enabled flags and what raises which line. The chip is external. Assumed is what the
driver itself says of it: a single operation ends in standby, a masked LoRa flag is not raised, LoRa flags stay until they
are written, FSK flags until the mode is left. What the lines show is what the comments at the `MAP_DIO`
constants say. `op`, `air` and `out` are the view of `Transceiver`.

**Channels.** `engineUpdate` is reduced to its decision about channel and
time, and `avail`, `txend`, `globalDutyAvail` are clock values modulo `Clock` compared by
`Diff`. `until` and `capUntil` remember in unwrapped time what a band and the network's cap
really owe. It has one join, with `nextJoinState` and its channel hopping, and the session after it, whose bands
are fresh and whose channels a CFList may extend; of `txCnt` only the lowest bit matters to a join. A transaction takes no time
(seconds, where the unit of the instance is an hour and a half). Airtime is a constant per data rate.

**RunLoop.** The lists are links, with the list heads as nodes, and the operations walk and
relink them. `Remaining` turns a wrapped deadline into the time that is left, which is the
refinement mapping to `JobQueue`. `hal_sleep` has its two ways of looking at the radio: the
level of the line in an active pass, the edge in `poll`, whose edge is forgotten by the read
before it. Callbacks are arbitrary; the other thread makes a few calls.

**Bridge.** The steps of `main` in order, with options and keys as sets of names, and the
library's thread beside it from `connect` on. The two lists of `oslmic.c` are kept as the memory they are, a pointer for
each head and each `next` field: messages that come during `os_init` can put `osjob` into both lists, and `initjob`, linked
behind it, gets into both with it. A message after `radio_init` starts a join, a further one finds its transmit time ahead
(`TxDelay`) or come (`JoinRequest`), until `LMIC_init` shuts the MAC down. `initfunc` has no guard against a second run, and none
is assumed. Once it has run, `osjob` may do whatever the engine does with it (`EngineMoves`), on either thread; what that is,
`Lmic` says.

`Lmic` and `RunLoop` compose by assumption and guarantee: `RunLoop` assumes that no
job is set while it is in the other list, and `OneThingPending` of `Lmic` shows it for the
engine as long as messages arrive while the loop sleeps.

An operator `F_Something` beside an operator `F` is `F` with a slip a programmer could make.
No specification uses it; it is there to show that a property would notice.

## 3. The runs

| Run | Properties | Instance | What it shows |
|---|---|---|---|
| `lmic_bridge` | OnlyBeaconFails, PresetFunc, OneThingPending, EarlyIsSent, ClassAExchange; TransactionEnds, DataIsSent, KeepsJoining, AckIsSent | accept, junk, plain downlinks, confirmed ones with every MAC command, and `MCMD_BCNI_ANS`; messages while the loop sleeps; fair loop, clock and radio (2,924 states) | the bridge without races: no ASSERT but that of `MCMD_BCNI_ANS` fails, so the engine never touches a busy radio; the job waits for one thing, the exchange of class A is kept, a message submitted outside a transaction is on air before it is forgotten; joins, transactions, data and answers get on |
| `lmic_calls` | TypeOK, JoinState, TransactionContinues, WorkIsScheduled, ShutdownSilent | every API call of either thread between any two jobs, slow event handlers (0.8 million) | what survives the second thread: nothing that is to be done is forgotten, and silence after `LMIC_shutdown` |
| `lmic_commands` | TriesBounded, KeystreamOnce, AnswersCarried | confirmed messages, replaced messages, the MAC commands with an answer, cap 0xFF, end of sequence numbers (0.4 million) | retries, keystream, answers and the forced reset |
| `session` | TypeOK, TakenOnce, InStep, InOrder, AckTrue, OnlyGrow | 2 messages, 3 sessions, numbers modulo 3 and 6, restarts (3.8 million) | numbers and acknowledgements, whatever is lost |
| `session_live` | Recovers | 1 message, numbers modulo 2 and 4, rejoins, restarts (0.2 million) | device and network get in touch again |
| `radio` | TypeOK, NeverStuck, Reported | 16 random bytes, both modems (25,730) | the driver implements `Transceiver`, its liveness included |
| `channels` | TypeOK, DutyKept, DutyCapKept, ChannelUsable, JoinPairs, FreshFound | 4 join channels, 4 channels, 3 data rates, 3 bands, clock of 26, ten hours = 7 (0.6 million) | duty cycle across the wrap, usable channel, no needless wait, the hopping of a join |
| `run_loop` | TypeOK, InTime, QueueKept, IrqServed | 2 jobs, clock of 26, delays 0, 1, 4, two foreign calls | the lists implement the queue; nobody is late; interrupts are served |
| `bridge` | KeysFirst, StartedOnce, StartsUp | every configuration file, one key or none on the command line, 3 messages (2,436) | the MAC starts whatever the broker does, and once, unless two messages come between `radio_init` and `LMIC_init` |
| `lmic_late` | AllIsSent | | **violated**: a message submitted during a transaction is dropped |
| `lmic_threads` | NoAssertFails | messages between any two jobs, a downlink that asks for the slowest data rate | **violated**: a message while the job is due transmits under it; the receive window then opens during the frame |
| `channels_idle` | EarliestFree | | **violated**: after 8.2 idle hours the next uplink waits for ten hours |

### Bounds, and why they are enough

- *Messages* 1 to 2: the engine holds one payload, so a second suffices to replace, overtake or
  collide with the first.
- *`MaxSeq`* 1 or 2 ends new traffic (submissions, rejoin requests) once that many sequence
  numbers are used; every pair of consecutive uplinks occurs before. `SeqMod` puts the end of
  the sequence numbers within reach in `lmic_commands`. Retries and joins are not bounded
  by it.
- *`TxconfAttempts`* 2 (8 in the code), *`MaxDr`* 1, *`MaxRejoin`* 1, link check thresholds -1, 0, 0:
  each counter passes its start, an intermediate value and its end. `SlowDr` 0 makes the slower of the two data rates
  one at which a frame may outlast the second to its receive window, as at SF11 and SF12. `CntMod` 4 lets the
  `u1_t` counter of join attempts wrap.
- *`Session`*: a third session key lets the network offer a session while it keeps an older one and the device is in another; keys are used
  again when nobody knows them. `Mod16` 3 and `Mod32` 6 let a number be lost so that it can and so that it
  cannot be completed, and both ends of the range are reached; `RollGuard` 2 (128) keeps the reset of the device apart from the very last number.
  A confirmed message fails at once and after a retry (`TxconfAttempts` 2). A second message tells a repeated payload from a new one.
- *`RandLen`* 16 is the code's. All else in `Radio` is finite as it is.
- *`Clock`* 26 in `Channels`: ten hours are more than half of half the clock and less than it, as in
  the code (10 of 18.2 hours; 7 of 13 units), so a band is stale after 8.2 hours (6 units); no airtime blocks a band for
  longer than that, as in the code (`TimesFit`); `StartTimes`, `MaxTime` let it run from before
  the wrap past it, longer than a stale band needs. Airtimes and factors 1 to 3 block bands
  for different times that overlap. `Delays` 0 and 1 repeat a frame at once or later; `Draws` takes one
  value of the random numbers, which only permute the channels within a band.
- *`Clock`* 26 in `RunLoop`: time has no end there, it goes round, so every position of
  jobs around the wrap occurs; delays 0, 1 and 4 units of 10 ms are due now, in the range where the loop
  spins and in the one where it polls. `Late` < `Early`: poll comes back less than 20 ms late,
  which is what the 20 ms in `hal_checkTimer` are for. Delays are below a quarter
  of the clock (`RunLoopAssumption`), so that a job overdue by a whole sleep can be compared with a new one; in the code that is 9.1 hours,
  and a band blocks for 47 minutes at most. Only the ten hours of `channels_idle` are longer.
- *Two jobs*: the lists then have every shape in which one job precedes, follows or is without another.

### Fairness

`lmic_bridge` assumes weak fairness of the run loop (`while(1)`), of the passing of a deadline and of
the radio ending an operation. The last is the hardware's: a transmission ends, and single
reception times out. `radio` assumes the same of the chip, and that the run loop goes on to sleep. `session_live` assumes weak fairness of the device and,
of frames that are sent again and again, that some arrive: strong fairness of the network hearing a join request or a new
uplink, and of the device hearing an answer to each. It also assumes that the application goes on sending,
for a device without traffic hears nothing. The premise of `Recovers` is that restarts and calls of `LMIC_tryRejoin` stop, each of which
begins anew. `run_loop` assumes weak fairness of the loop, of returning callbacks
and of time; the radio may stay busy for ever. `IrqServed` also has a premise, that the loop
goes to sleep again and again: jobs that are always ready shut the interrupts out, by design
of `os_runloop`. `bridge` assumes that `main` goes on and that the MQTT library reports how
an attempt to connect ended; neither messages nor a working broker are assumed.

## 4. The proofs

TLC has checked every invariant below, the inductive ones included, before it was proved. Each
theorem holds for every value of the constants its module's ASSUME allows; TLC evaluates these assumptions in
every run.

**`LmicProofs`**, from `MsgAssumption`, `NetAssumption` and `NumAssumption`, for every set of messages, downlinks and API
calls and with calls of the second thread between any two jobs: `TypeCorrect` (`TypeOK`), `JoinStateHolds`,
`TransactionContinuesHolds`, `WorkIsScheduledHolds`. None but the first is inductive: that `JoinState` does not
break when a job function written for a session runs during a join needs to know which functions the job may hold
when. The inductive invariant is `IInv == TypeOK /\ Whole(mac)`, with `Whole(s) == Sound(s) /\ Works(s)`: `Sound` ties
`OP_TXRXPEND`, `OP_JOINING`, the job's function, the queues and the radio together; `Works` is
`WorkIsScheduled` for a record. The argument follows the calls of the code. `Wellformed` is the part of `Sound`
that holds in the middle of a job, before it has scheduled what comes next; `Keeps`, `Gentle` and
`SameControl` say how little an operator may change. One lemma per C function takes a well-formed record to a
well-formed or a whole one, one step per action concludes, and `Inductive` closes with the temporal rule.

Its last part proves `SilentAfterShutdown` (`ShutdownSilent`). A record is `Hushed` when `OP_SHUTDOWN` is set and the radio does not transmit; `engineUpdate`
returns at once from it, and no job function, interrupt or call, each again with a lemma of its own, leads out of it. Initially and after
`runReset` it may, which the property names.

**`LmicUplinks`**, first part: `KeystreamHolds` (`KeystreamOnce`). The inductive invariant `KInv` adds `Covers(mac, sent)` to `IInv`: while
`txCnt` is zero the next number is above all numbers sent, and while it is not, the payload that would be repeated is the one that
went out under the last number. `Follows(s, t)` says how a C function leads from s to t with at most one transmission on the way; it composes, because
a transmission sets `OP_TXRXPEND`, which keeps the `engineUpdate` in later reports from another.

**`LmicExchange`**: `OnlyBeaconHolds` (`OnlyBeaconFails`), `OneThingHolds` (`OneThingPending`), `PresetFuncHolds` (`PresetFunc`) and
`ImplementsClassA` (`ClassAExchange`). They are not true of every use of the engine (section 5 has the counterexamples), so they
assume two things by name. `BridgeUse` is how the bridge calls the engine, with `LMIC_shutdown` and `LMIC_setLinkCheckMode` added: messages come while the run loop sleeps, and
handling an event takes no time. `[]Young` says that neither sequence number is at its end, 2^32 uplinks or 2^24 downlinks away, where
`RunReset` breaks the rule. The invariant `SInv` adds `Steady(mac)` to `IInv`: a list of what osjob and the radio can be doing together.
The heart is the lemma that `engineUpdate` leaves a settled state settled, however often the reports of one job call it:
`Clear`, nothing queued; `Timed`, a `runEngineUpdate` in the schedule, which a further call finds unchanged; or `OnAir`, the next
transmission, which blocks further calls. Each job is then shown to move the transaction on (`Moved`) or to end it in such a state
(`Over`), and these are the steps of the exchange under the mapping of `LmicClassA`. A `MCMD_BCNI_ANS`
ends the program in the middle of one (`Stopped`), after which nothing moves.

**`LmicUplinks`**, second part: `TriesBoundedHolds` (`TriesBounded`), again for every use of the engine. That no message is transmitted more than
`TXCONF_ATTEMPTS` times is not inductive, for `tries` counts transmissions and the code counts in `txCnt`, which a newer message
resets at any point between two tries, and which is zero all along for a message that asks for no acknowledgement until the first try ends. `TInv` adds `Book(mac)`, that there is a payload whenever
`OP_TXDATA` is set, and `Counts(mac, tries, sub)`: the transmissions are bounded by `txCnt` unless that counter is zero, and
outside a transaction there is room for one more wherever one may follow. `Before` and `After` say what a C function may start from and
what it leaves behind; a step either goes on counting (`After`) or begins anew (`Ends`), and `RecordsCounts` shows
that the history variables of both keep the invariant.

**`LmicUplinks`**, third part: `AnswersHold` (`AnswersCarried`), for every use of the engine, and `EarlyHolds` (`EarlyIsSent`), for the bridge. `EarlyHolds` assumes `Fits` by name:
no payload is longer than the 39 bytes that fit a frame beside all MAC answers; a longer one that `LMIC_setTxData2` lets through may be left out
of its frame (section 5). The invariant `UInv` adds three things to `IInv`: `Square`, that in a data transaction `dnConf` is clear and no early message waits;
that `OP_TXDATA` comes with a payload; and `Blank`, that nothing is owed before `initjob`, which clears the struct. `Square` holds because
`buildDataFrame` settles everything at once, which is why `decodeFrame` may overwrite `dnConf` and the end of a
transaction clear `OP_TXDATA`. `Attended(s, m)` is what holds in the middle of a step: the debts of the state before are still
there or on air (`Debts`), and so is the message (`Mail`). `Transmit` is the one place where the two alternatives change
over (`TransmitAttended`); everything else a job does is `Mild`, of no consequence for the debts, or ends a transaction (`Ended`).

**`SessionProofs`**, from `SessionAssumption`: `TypeCorrect`, `NumbersInStep` (`InStep`), `HeardInOrder` (`InOrder`), `CountersGrow` (`OnlyGrow`),
`AckTruthful` (`AckTrue`), `TakenAtMostOnce` (`TakenOnce`), for every range of the counters, any number of messages and sessions, and any pattern of losses. `IInv` says what the
one frame on air can be (`OnAir`), that a session on offer is untouched (`Offered`), and how the counters of the two sides compare when
they share one (`Shared`). `Shared` has an exception, `TurnedOver`: with the very last number the device's counter becomes zero,
and what then keeps old numbers out is that the network numbers no further. `Delivery` follows the messages on top of it.
`CompleteExact` is the arithmetic lemma behind it: 16 bits and the expected number give back a number less than 2^16 ahead.

**`RadioProofs`**, from `RadioAssumption`: `TypeCorrect`, `NeverGetsStuck` (`NeverStuck`), and `Implements`, that every step of driver and chip is a
step of `Transceiver` or a stutter. `Setting` is what mode, flags and mapping of the chip have to do with the operation,
`Told` that the one flag raised is how the operation ended, `Serving` that a line `poll` has reported is still high when it is served.

**`BridgeProofs`**, from `BridgeAssumption`: `KeysComeFirst` (`KeysFirst`) and `StartedOnceHolds` (`StartedOnce`). Whatever happens after the loop over the keys happens
with all of them (`AllKeys`), and they can only have come from the file (`FromFile`), since the options of the
command line have other names. For the second theorem the pointers of the lists are followed as long as at most one message has come in the
gap: nothing is in the schedule before `initfunc` (`Fresh`, `Linking`), `LMIC_reset` clears the last link to `initjob`, and
nothing that is done with `osjob` afterwards brings it back (`Away`).

**`ChannelsProofs`**, from `ClockAssumption` and `JoinAssumption`, for every list of channels, every airtime and everything the network may ask for:
`TypeCorrect` (`TypeOK`), `ChannelUsableHolds` (`ChannelUsable`), `JoinPairsHolds` (`JoinPairs`),
`DutyKeptHolds` (`DutyKept`) and `DutyCapKeptHolds` (`DutyCapKept`). `nextTx` is
recursive over sets of bands; a `CHOOSE` of a recursive function means nothing until a solution is shown to exist, so
`ChoiceIs` applies the round five times and finds that the fifth changes nothing: only four bands can be dropped. The same three
levels (`One`, `Two`, `Three`) replace induction in `ChoiceFinds`, which says what the choice leaves: a feasible channel and the time its band is
available, the old channel if none is feasible, or the endless loop. `KInv` adds `Settled` to the types: in a transaction the next channel
is yet to be chosen, a channel once chosen stays usable, and a join keeps to its channels and pairs.

The last two are about true time while the program sees clock values, so `Accounts` says which true time each of its fields stands for: `avail` that of the
band (`Owes`); `globalDutyAvail` one that is neither long before the end of any band nor so far ahead that it looks past
(`Charged`), and while a cap is to be kept its end or that of a retry delay not long after it (`Capped`); `txend`, once a channel is chosen, one that is not before its band is paid for (`Paid`). `SendsPaid` and `SendsCapped` then follow the
comparisons of `engineUpdate`, where `globalDutyAvail` may replace `txend`, and `DiffOfTimes` is the arithmetic: a difference of clock values has
the sign of that of the times while these are less than half the range apart. The theorems assume by name that they are (`TimesFit`): no
frame blocks its band for longer than 8.2 hours and none the whole device for longer than 18.2. The bands satisfy it by far (47
minutes for the slowest frame), and so does every cap but that of rate 15, which blocks for 25 hours after it; with such a
cap TLC finds `DutyKept` violated.

`FreshFoundHolds` (`FreshFound`), with `TimesFit` as well, is about the way through the scan of the bands. After each band it has found the earliest of
those it has to find, or one behind all that can be used, whose channels the round then finds unfeasible and drops (`Earliest`, `Beyond`, `BetterFinds`). The attempt to prove an
earlier form, for each fresh band by itself, showed it to be false: a band that has been free for more than 18.2 hours can hide a fresh one (section 5). TLC had
not found it within the 6 units of time of the run; with 14 it does. `AllFresh` therefore speaks of all bands up to the last that has a channel to use.

**`RunLoopProofs`**, from `RunLoopAssumption` and `NodesAssumption` (finitely many jobs; the heads of the lists and `NULL` are none of them), for every number of jobs,
every range of the clock and all delays that are short for it: `TypeCorrect` (`TypeOK`), `InTimeHolds` (`InTime`) and `QueueKeptHolds` (`QueueKept`), that every step on
links and wrapping deadlines is a step of `JobQueue` or a stutter. The walk along the links is a recursive function, which means something only
where the walk ends: `Chain` is a list of distinct jobs from a head to `NULL`, there is at most one, and `PathIs` shows that the walk returns
it. `Less` and `Put` are what taking a job out and putting one in make of a chain; `UnlinkIs` and `Linking` show that the assignments of
`oslmic.c` do just that, and leave the other list alone because no job is in both (`Apart`). `DiffOfTwo` is the arithmetic: all times left are
within a quarter of the range, so that the difference of two deadlines is that of the times left; the schedule is `Sorted` by these. The
invariant `RInv` is the well-formed pair of lists (`Shape`) with what the loop knows of time (`Times`) and of the interrupt (`RadioInv`). `InTime`
alone is not inductive: that the loop sleeps past no deadline rests on the order of the schedule, of which only the first job is looked at, and on the time
given to poll (`SleepInv`), also while the other thread puts its job into the schedule.

Only model-checked: liveness (`Recovers`, `TransactionEnds`, `DataIsSent`, `KeepsJoining`, `AckIsSent`, `IrqServed`, `StartsUp`) and the fairness part of
the refinements (of `Reported`, for instance, whose steps `Implements` proves), for which the prover has no rule. Every other property of a passing run has its theorem.

## 5. Where code and expectation part

Shown by runs:

- **A message during a transaction is lost** (`lmic_late`, `lmic.c:1830`). The end of a transaction
  clears `OP_TXDATA` whoever set it. The upstream README says that messages are sent.
- **Two threads, one radio** (`lmic_threads`, `main.cpp:146`). A message waits for the duty cycle with `runEngineUpdate` in the
  schedule. Its deadline passes, and before the loop takes the job a second message comes: its `engineUpdate` transmits at once and
  makes the job's function `updataDone`, which the loop then runs at once as well. RX1 is so timed from the start of the frame instead of its
  end. At the slowest data rate, which a `MCMD_LADR_REQ` may have asked for, the frame is still on air a second later, and
  `startrx` meets its ASSERT, which ends the program.
- **Ten hours of silence after eight idle ones** (`channels_idle`, `lmic.c:664`). The
  difference of now + 10 h and a band's `avail` overflows once the band has been free for 8.2 hours.
  After 18.2 hours it looks as if it were to become free in the next 18.2, and as the scan compares it with the earliest band so far,
  not with now, it may prefer it to a band that has been free for some hours: an application that used BAND_CENTI last 20 hours ago
  and BAND_MILLI 6 hours ago then waits 16 hours. `FreshFound` says when neither happens.

Met while modelling, and not checked by a run of their own. In the engine:

- A downlink with `MCMD_BCNI_ANS` ends the program: `decodeFrame` sets `OP_TRACK` and insists on `bcninfoTries`, which only
  `LMIC_enableTracking` sets, and nobody calls that (`lmic.c:1202`). `OnlyBeaconFails` says that no other ASSERT fails, and
  `TransactionEnds`, `DataIsSent`, `AckIsSent` and `AnswersCarried` except a program that has ended so.
- A message before `os_init` asks for a random number before there is a seed, and an ASSERT ends the
  program (`main.cpp:475`, `radio.c:732`); `StartsUp` excepts it.
- Two messages between `radio_init` and `LMIC_init` can make `initfunc` run twice (`oslmic.c:81`): the first makes `osjob` runnable, the
  second puts it into the schedule as well, and `initjob`, appended behind it, is then in both lists. The second run resets
  a MAC that is joining or in session. `StartedOnce` excepts it.
- A message submitted during a join that took several attempts, confirmed or not, is retried like a confirmed one:
  `stateJustJoined` (`lmic.c:942`) does not reset `txCnt`. `lmic.c:365` says "normal frames - 1st try / no retry". Its first
  frame also goes out with the number 0xFFFFFFFF (`lmic.c:1598`), which the network does not take; with nothing but polls afterwards
  the device can stay out of touch, which is why `session_live` makes no calls of `LMIC_sendAlive`.
- The poll after a confirmed uplink that was acknowledged reuses its number, so that the ACK bit it carries is not
  taken by the network, which repeats its downlink.
- If all but the last of the 128 numbers before the end of the downlink counter are lost, the counter wraps to zero instead of leading to a reset (`lmic.c:1078`).
- The branch of `decodeFrame` for a repeated downlink (`lmic.c:1064`) is never taken: it needs `dnConf`, which the next uplink clears,
  and without an uplink there is no next downlink.
- `runReset` (`lmic.c:939`) queues the job and then reports an event, whose `engineUpdate` may transmit at once.
  The run of `OnlyBeaconFails` keeps away from the end of the sequence numbers for that reason. And if the job is in both lists when
  `LMIC_shutdown` is called, `os_clearCallback` removes it from the schedule only (`oslmic.c:59`): the reset then
  ends the shutdown. `ShutdownSilent` excepts it.
- With a slow handler of `EV_LINK_ALIVE`, two `engineUpdate` calls of one job can decide
  differently about the same transmit time (`lmic.c:1835`), with the same effect.
- `LMIC_clrTxData`, which nobody calls, clears `OP_TXRXPEND` before it looks at `OP_JOINING` (`lmic.c:2145`), although a comment says
  "do not interfere with JOINING". It, `LMIC_sendAlive` and `LMIC_tryRejoin` can break `OneThingPending` even while the loop sleeps; the bridge calls none of them.
- A downlink may be overwritten in `LMIC.frame` by the next uplink before `EV_TXCOMPLETE` reports it (`lmic.c:1833`).
- A payload of 52 bytes passes the check of `LMIC_setTxData2` and fits no frame (`lmic.c:1587`); it is dropped.

In channels and time:

- `nextTx` does not end when its scan falls back to band 0 and that band has no channel (`lmic.c:679`).
- With no feasible channel in any band `nextTx` returns the time of the band it dropped last, and the uplink goes out on the channel used
  before (`lmic.c:681`), which its own band may not allow yet; `DutyKept` excludes the case.
- A duty cycle cap lasts longer than the comparison at `lmic.c:1976` can see if the chosen band has been free for
  18.2 hours; `DutyCapKept` excludes it by name (`Comparable`), and the case without a feasible channel as `DutyKept` does. The cap of rate 15 at the slowest data rate is itself longer than half the clock.
- Every join starts with fresh bands (`lmic.c:557`): time owed from before a rejoin is forgotten. `DutyKept` speaks of one join and its session.
- `lastchnl` of BAND_DECI is never drawn, that of BAND_CENTI twice (`lmic.c:581`).

In the radio driver:

- `RADIO_RST` clears no LoRa flag (`radio.c:836`): the handler may run later for an operation that was aborted, and queues the job
  with the function it holds by then.
- The handler loops for ever on an FSK interrupt without a flag (`radio.c:822`); `NeverStuck` shows that no order of lines and edges leads there.
- `MAP_DIO2_LORA_NOP` is 0xC0 (`radio.c:247`), which sets the field of DIO0 where the comment beside it marks that of DIO2.
  What the chip then shows on its lines the source does not say; `Radio` follows the comments.
- A received FSK frame gets the length in `FSKRegPayloadLength`, which is that of the last transmission (`radio.c:812`).
- `hal_spi_buffer` copies what the bus returned back over the frame that was written. The results of the SPI functions are kept in a `u1_t` and
  compared with zero, so that their errors go unnoticed (`hal.c:170`). `hal_disableIRQs` and `hal_enableIRQs` are empty.

In the bridge:

- A lost or failed MQTT connection is never made again (`HelperClasses.hpp:67`).
- `--deveui`, `--appeui`, `--devkey` are accepted and never used: `main` looks for the upper case names of the configuration
  file (`main.cpp:352`, `main.cpp:414`), while its error messages offer "an option via the command line" (`main.cpp:424`, `main.cpp:438`, `main.cpp:451`). `KeysFirst` takes
  no side in this: it only asks that the keys were given one way or the other; `StartsUp` promises a start for keys in the file.
- Downlinks are logged and not published, unlike what the upstream README says.

## 6. Not modelled, and the plan

Left out on purpose: class B (no call of the program enables it, and the one downlink command that would ends in a failed ASSERT, which is
modelled), AES and frame layout in bytes (pure functions; their verdicts
are inputs), debug output, US915, the unmodified copy of LMIC, SPI and pin setup, modulation settings, bytes and time stamps of frames. Data races inside one call of the
second thread, on `LMIC.frame` or on `opmode |=`, are undefined behaviour of the program that the models do not
enumerate: they take a call as one step. `LMIC_setSession`, `LMIC_setDrTxpow`, `LMIC_setAdrMode`, `LMIC_setupBand` and `LMIC_disableChannel` have no caller.

Order of work; the first ten are done:

1. `Lmic` with `ClassA`, its runs and its inductive invariant.
2. `Channels` with time on a wrapping clock, from the join on.
3. `RunLoop` with `JobQueue`.
4. `Bridge`, with `KeysFirst` and `StartedOnce` proved.
5. `Session`: the numbers of a session against a network over a lossy link, and its proofs.
6. `Radio` with `Transceiver`, and its proofs.
7. Proofs about `Lmic`: `WorkIsScheduled`, `ShutdownSilent`, `KeystreamOnce`, `TriesBounded`, `AnswersCarried`.
8. Proofs about `Lmic` under the bridge's use of it: `OnlyBeaconFails`, `OneThingPending`, `PresetFunc`, `EarlyIsSent`, and that it implements `ClassA`.
9. Proofs about `Channels`: `ChannelUsable`, `JoinPairs`, `DutyKept`, `DutyCapKept`.
10. Proofs about `RunLoop`, that it implements `JobQueue` among them, and of `FreshFound`.
11. Rejoin requests in `Channels`; the airtime of `calcAirTime` as a function checked against its formula.
12. Finer steps for the second thread inside `LMIC_setTxData2`.
