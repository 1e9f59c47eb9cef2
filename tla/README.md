# TLA+ models of the zephyr-dev applications and drivers

This directory holds TLA+ modules for the parts of the repository that have
state worth reasoning about: the MQTT application (`applications/app_mqtt`), the
ES8311 audio codec driver (`drivers/audio/es8311`), the QMI8658 motion sensor
driver (`drivers/sensor/qmi8658`), the blink driver (`drivers/blink`) and the
small applications (`applications/app`, `app_display`, `app_lckfb`). TLC checks the
models on small instances; TLAPS proves every safety property that the passing runs
check for every instance, and how far the properties hold that the code violates.

## 1. Inventory

| Component | State | Operations | Hard behaviour | What makes it correct |
|---|---|---|---|---|
| `app_mqtt` connection and publishing (`mqtt_client.c`, `main.c`) | `mqtt_connected`, `nfds`, `fds[0].revents`, LED_NET, the delayable publish work, `msg_id`; in the library the client state and its socket | `app_mqtt_connect`, `_run`, `_process`, `_subscribe`, `_publish`, event callback, `publish_work_handler` | main and the system work queue share the client and the flag; callbacks run on either; the broker may vanish at any point; `msg_id` wraps | no socket leak, publishing never stops for good, flag, LED and session agree while main serves it and heal afterwards, one subscription per session, identifiers in flight differ |
| `app_mqtt` commands (`mqtt_client.c`, `device.c`) | unread payload, LED_USER | events `PUBLISH` and `PUBREL`, `on_mqtt_publish`, `device_handle_command` | redelivery, lost acknowledgements, split payload | each command at least once, in order, repeats and losses only after faults |
| `app_mqtt` boot, Wi-Fi, management (`main.c`, `wifi_sta.c`, `mgmt.c`) | semaphore of the network, Wi-Fi request | `connect_to_wifi`, `mgmt_evt_handler`, `app_mqtt_init` | a fixed sleep stands for an event | the application starts once the network is up |
| ES8311 driver | `mclk_freq`, `is_provider`, codec registers | `configure`, `start_output`, `stop_output`, `set_property`, `apply_properties`, `initialize` | results of bus accesses dropped, several stages that can fail half way, clock arithmetic | clocks right after success, nothing started after failure |
| QMI8658 driver | rates and scales in `data`, CTRL2/CTRL3, samples | `attr_set`, `attr_get`, `sample_fetch`, `channel_get`, boot | data changed before the bus, three bus accesses per sample | an accepted setting is the sensor's and the one reported, samples are converted by one rule and fresh |
| Tone player (`app_lckfb/src/es8311_test.c`) | slab of 4 blocks, I2S queue, phase | allocate, generate, write | underrun, exhausted slab, 32-bit product | blocks are conserved, the composition is played, playback goes on |
| Blink threads (`app/src/main_thread.c`) | FIFO of heap messages | `blink`, `uart_out` | two producers, one consumer, heap bound | no message lost, duplicated or overwritten |
| Blink driver (`drivers/blink/gpio_led.c`) and `app/src/main.c` | timer, LED, period | `set_period_ms`, timer interrupt | interrupt against stop | LED off after period 0 |
| PWM applications (`app/src/main_pwm_led*.c`) | pulse width, period, direction | fade loop, calibration, sweep | unsigned subtraction at the ends | pulse within the period |
| Counter displays (`app_display`, `app_lckfb/src/main.c`) | `count` | main loop, button interrupt | lost reset, stale label | the reset takes effect, the label follows |
| QMI8658 test application, example sensor, custom library, load switch, Wi-Fi shell | none or one pin | one read or write | none | - |

Interaction: in `app_mqtt` main calls the MQTT library, which calls the event
handler back on the calling thread; the work queue calls it too, through
`app_mqtt_publish`. The timer hands the publish work to the work queue. The drivers
are called by one application thread each and talk to their chip over I2C, or to a
pin. The applications do not talk to each other: a board runs one of them.

## 2. Modules

| Module | Models | Proof module |
|---|---|---|
| `MqttSession` | abstract: what the broker may see of the device | |
| `MqttLink` | main, work queue, timer, library and broker around one client | `MqttLinkProofs` |
| `MqttDelivery` | abstract: what who publishes commands may expect | |
| `MqttCommands` | commands of each QoS from publication to LED_USER | `MqttCommandsProofs` |
| `MqttTelemetry` | boot of `app_mqtt`; identifiers and payloads of what it publishes | `MqttTelemetryProofs` |
| `Es8311Clock` | coefficient table, divider search and register encodings | `Es8311Proofs` |
| `Es8311` | codec driver and the register fields it writes; EXTENDS `Es8311Clock` | `Es8311Proofs` |
| `Qmi8658`, `MCQmi8658` | motion sensor driver; values of its constants | `Qmi8658Proofs` |
| `TonePlayer` | slab, I2S queue and composition of tones | `TonePlayerProofs` |
| `BlinkLog` | abstract: the log a reader of the console may expect | |
| `FifoBlink` | blink threads, printing thread, FIFO, heap and time | `FifoBlinkProofs` |
| `CounterDisplay` | both counter displays | `ImagesProofs` |
| `BlinkLed` | blink driver and its application | `ImagesProofs` |
| `PwmLeds` | both PWM applications | `ImagesProofs` |
| `Images`, `MCImages` | a board with one of the applications; values of its constants | `ImagesProofs` |

**MqttLink.** `pc` is the next statement of the main thread, `phase` whether it is
in `app_mqtt_connect` or `app_mqtt_run`, `after` where a callback returns to. Each
action is the code between two points at which another thread can run: main is
preemptible, so each assignment to a shared variable is a step of its own
(`OnConnected` and `LedConnected` are lines 87 and 88). The work queue thread is
cooperative on a single core, so `WorkPublish`, with the callback it may run, is
one step; it is split where it may block. The library's mutex makes each library
call one step, except for the callback, which it makes with the mutex released.
`mqtt_connect()` that fails calls back only when it was the write of the CONNECT that
failed (`Open`). The library, the broker and the network are external and may do what their
interface allows: refuse, reset, deliver a packet, nothing at all.

**MqttCommands.** One command per number; the number is also the packet identifier.
`qos` is the level all commands come with, `wire` carries PUBLISHes to the device,
`acks` PUBACKs or PUBRECs to the broker, `rels` and `comps` PUBRELs and PUBCOMPs;
`unacked` and `releasing` are what the broker still keeps and sends again, in order,
when the device connects (`Redelivery`). The PUBLISH event is three steps: `Input`
takes the packet, `Ack` answers it and `Read` reads the payload and executes the
command, so that the connection may break between any two. `Release` is the PUBREL
event. It implements `MqttDelivery`, which knows no packets, only publications, faults
and executions. `IdsPerByte` is 256 in the program; the run on the topic comparison uses 2,
so that the third byte value is reached by the second command.

**MqttTelemetry.** `main` is where `main()` is on its way to the connection loop and
how it ends; a session is open from CONNACK to close, for whatever reason `MqttLink`
closes it. `Publish` is a publish work with a measurement, `PublishWithoutPayload` one
whose `get_mqtt_payload()` failed and which goes on with what the stack holds. Either
uses up an identifier, whatever becomes of the message: it is sent (`IsSent`), refused
by the library because its identifier is 0 or the session has just closed (`IsRefused`),
or its write fails and closes the session (`SessionLost`). So there is no bound on how
many publishes in a row come to nothing, at the wrap of `msg_id` or elsewhere.
`unacked` keeps with each identifier the number of works since, so that the
broker's lag is a number, `MaxLag`, and not a time; it ends with the session. `net_conn_sem`
is given and never taken: the loop that takes it is commented out.

**Es8311.** A register field changes only in a call, and a call issues its writes in
order up to the first test that fails. `Try(o, test, upd)` is one such stage: it
adds the writes behind a test to what the call has got so far, or ends it with an
error; `Dai`, `Words`, `Source`, `Predivided`, `Framed`, `Clocked` and `Outcome` are
the stages of `es8311_configure()` in their order. `Lossy` lets one access of a call
fail. `MasterIsZero` tells whether `I2S_OPT_FRAME_CLK_MASTER` is 0. In Zephyr it is.
The passing run takes it as a bit, so that both roles are examined; the run on the
consumer role takes it as it is. Volumes are truncated to a byte, as the code does.

**Qmi8658.** `hz` and `fs` are the driver's data, `odr` and `range` the sensor's
fields, which the driver writes in this order, at boot too: a bus access that fails
leaves new data over an old field. `told` is the sampling frequency the last accepted
set asked for, as the caller gave it, and `setFailed` whether a set has failed on the
bus since; `scaled` is the full scale the last set asked for, or 0 if
it failed. What a caller asks for is any int;
`Hz` and `Fs` are the conversion to `uint16_t` it undergoes. An error of the bus reaches
the caller of a fetch through a `uint8_t` (`Returned`), so that it is a positive number;
the status that says that no sample is there is returned as -16. `OdrRates` and
`Scales` are what the driver rounds to, `BindingRates` what the devicetree binding
lists, and `ReportedFullScale` what `channel_get()` makes of a full-scale reading.
Accelerometer and gyroscope share every action.

**TonePlayer.** `player` is the next statement of `main()`: a pass is `Alloc`,
`Generate`, `Write` and, in the main loop, the count of blocks, which is part of
`Write`. `BlockPlayed` is the driver's interrupt at the end of a block: it frees the
buffer, which overwrites its first bytes, and takes the next one or goes into
error, from which nothing in the program recovers. What is in a buffer is its tone
and phase; the phase is counted in blocks because a block is a tenth of its range.
`in_time` tells whether `main()` keeps up: if it does, it writes at least one block
while one is played (`wrote`), or waits with no buffer to write to. That says nothing of
how many blocks are queued, which follows from what `main()` does.

**FifoBlink.** One action per statement of `blink()` and `uart_out()`, for any number
of LEDs: the three threads have one priority and are sliced. A message is a block
of the heap and is itself the FIFO's node; `heap` keeps what is in a block after it
is freed, so a block used too early prints the wrong thing. `Tick` is time: a unit
is 100 ms, and with `Prompt` it passes only when all threads sleep or wait. It
implements `BlinkLog`, with `sent` mapped to the number of puts.

**CounterDisplay, BlinkLed, PwmLeds.** One action per statement that touches shared
state: `++count` is a load and a store with the button's interrupt in between;
`blink_gpio_led_set_period_ms()` stops the timer in one step and writes the LED in the
next, with the timer's interrupt in between. The PWM loops have no concurrency;
their arithmetic is modulo `Word`.

**Images.** The applications that are alternatives in a `CMakeLists.txt`, put on one
board: `image` is chosen at the start and `Runs(i, Step)` lets the program of image i
take a step and leaves the variables of the others alone. The programs keep their
own specifications (`ThreadsSpec`, `ToneSpec`, ...), which the board implements.
They share a run, not state.

Operators named as "Mutant of ..." are not part of any specification: each is a
plausible bug in the definition it names, and TLC finds the property violated
when it takes that definition's place.

## 3. Runs

| Run | Bounds | Shows |
|---|---|---|
| `link` | none needed: 31997 states | every safety property of the link, that `MqttLink` implements `MqttSession`, that the device never falls silent and that a stale flag and an LED left lit heal |
| `commands` | 3 commands, 3 faults, QoS 0 to 2: 27887 states | the refinement of `MqttDelivery` (first runs in order, the LED shows the last), at most one repeat and one loss for each fault, progress |
| `commands_lost` (violation) | 2 commands, 1 fault, QoS 1 | PUBACK before the payload read loses a command |
| `commands_topic` (violation) | 2 commands, no fault, QoS 1 | `strcmp` on an unterminated topic ignores identifiers with a high byte |
| `codec` | 4 master clocks (none, 16.384 MHz, 36.864 MHz, too fast), 2 rates, 2 good word sizes and a bad one, a good and a bad DAI type, a volume above 255: 29249 states | clocks right, roles and ports agree, failure silent, clock tree kept |
| `codec_consumer` (violation) | the option's real value | no caller gets a consumer |
| `codec_i2c` (violation) | one failed access in a call | success is returned with a field unprogrammed |
| `motion` | 3 rates to ask for (51, 65636, -65311), 1 or 2 scales per sensor, 2 errors of the bus, 1 new sample: 207377 states | the conversion keeps its proportion, an accepted rate holds over sets that fail, reads are fresh |
| `motion_scale` (violation) | the same | accepted full scales never reach the sensor |
| `applications` | below: 46990 states | the properties of every image, the refinement of `BlinkLog`, and what goes on for ever |
| `tone_pitch` (violation) | 30 blocks in a tone, as in the program | blocks are played that are no sine of their tone |
| `counter_reset` (violation) | 10 passes, counter of 64 | a press between load and store of `++count` is lost |

### Bounds

`MqttLink` has no bound at all. Three commands let one be lost, one redelivered and
one be new at the same time, and each fault the code handles can happen to each of
them. The codec's inputs reach each early return of `es8311_configure()` that an input
can reach: a DAI type and a word size that are not supported, a master clock that is
too fast, missing for a provider or without a coefficient (16.384 MHz at 48 kHz), an
LRCLK divider beyond the field (36.864 MHz at 8 kHz: 4608), one that the words do not
divide and a BCLK divider that is not in the table (16.384 MHz at 8 kHz, 24 and 16
bits). The two tests of the coefficient itself fail for no input, which
`CoefficientsRight` proves. The clocks also reach each branch of the divider search: a
row as it stands, a larger pre-divider and a larger multiplier. The sensor's rates lie
on a supported rate and on the binding's 25 Hz (the devicetree), just above one, and
beyond 16 bits on either side of 0.

The constants of `applications` stand for larger ones in the program. The proofs take
them as parameters; for the run they were chosen so that the interesting case is
reached:

| Constant | Run | Program | Why enough |
|---|---|---|---|
| `Leds`, `Blocks` | 2, 2 | 2, a heap with room for more | a heap with exactly one block per LED is the least that suffices |
| `SleepTime` | 10 and 1 | 1000 ms and 100 ms | the unit is 100 ms |
| `MaxCount` | 12 | none | one LED gets ahead of the other by a whole period of it |
| `ToneBlocks` | 4 | 4 | - |
| `BlocksPerTone` | 12 (30 in `tone_pitch`) | 30 | not a multiple of the 10 blocks of the phase, so that the change of tone also has to reset it |
| `PassesPerStep`, `CountRange` | 10, 64 | 100, 2^32 | 64 is, like 2^32, no multiple of a step: the counter wraps inside one |
| `BLINK_PERIOD_MAX` | 10 | 1000 ms | the unit is 100 ms, the step of the period |
| `FadePeriod` | 1000 and 99 | devicetree | a multiple of the 50 steps, and a period that is not and has a step of 1 |
| `Word` | 65536 | 2^32 | larger than twice any period |
| `MinPeriod`, `MaxPeriod` | 2, 256 | 7812500 ns, 10^9 ns | the unit is half of `MIN_PERIDO`; 256 of them are one second |
| `Longest` | 1000, 100, 8, 7 | the hardware's | never halved, halved twice, halved to the last value accepted, refused |
| `IdRange`, `MaxLag` | 7, 6 | 2^16, a broker's delay | the largest lag the assumption allows: every identifier the library takes may be in flight |

`block_count` is kept modulo `BlocksPerTone`, and `played` is counted up to the end of
the third tone and then from the beginning of the second, since from there on the
blocks repeat.

`CHECK_DEADLOCK FALSE` is said where the program may stop: the commands run out, a
sensor whose boot failed is not used, and the applications return from `main()` when
a device is not ready, fault, or reach the bound on a counter. Deadlock is checked in
`link`, `codec`, `codec_consumer` and `codec_i2c`.

### Properties worth a word

`OneSocket`, `PublishScheduled`, `SessionKnown`, `LedFollowsFlag` and
`CommandsSubscribed` relate the library's state to the application's while two
threads tear sessions down. Three of them hold for reasons that are not local:
the publish work's own `k_work_cancel_delayable` is harmless because the handler
runs it only when `mqtt_connected` is FALSE, and main schedules the work again
after it has set the flag; a flag left TRUE over a closed client (the work queue
closes the session just before main sets it at line 87) is only corrected by the assignment
at line 302; and the dropped result of `app_mqtt_subscribe` does not matter because
a failed write has already closed the client.

`LedFollowsFlag` is about the session that main serves: outside callbacks LED_NET is lit
there exactly if the flag is set. It does not hold between sessions. When the work queue
closes the session between lines 87 and 88, its callback clears both, and main then
lights the LED over a cleared flag; the attempt is aborted without a callback, since
the client is idle by then, and the LED stays lit, through the sleep between attempts,
for as long as no attempt gets a socket. `LedHeals` says that one that does puts it
right: it ends in a session, whose flag the LED then shows, or in a callback that
clears the LED.

`RepeatsNeedFaults` and `Delivers` hold for all three QoS levels, the second
also with commands the program drops: what is overtaken never runs late.
`LossesNeedFaults` bounds what the early PUBACK costs, which `commands_lost` finds: one
command for a fault, and not the several that a broken connection interrupts.
`DistinctInFlight` holds across sessions, although `msg_id` outlives them; it assumes that
a PUBACK, or the end of the session, comes before `msg_id` comes round.
`ConversionSteady` says that the driver's constant conversion keeps its proportion to
the sensor although the driver accepts any full scale, and names the factor: 1 for the
accelerometer and 180 for the gyroscope. It holds because the field never leaves 0, the
finding of `motion_scale`: were that corrected, the conversion would be wrong.
`RateHolds` is about sets that fail after one that was accepted. It takes a rate as the
driver does, as a `uint16_t`, and excepts 25 Hz, for which the driver programs 50, and the
time between a bus error and the next set, when `attr_get()` reports what was not
programmed.
`OffMeansOff` is about the timer's interrupt between `k_timer_stop()` and the write of
the pin: it cannot be, since the timer is stopped first. `FadeInRange` says that the
unsigned comparison `<= 0` is never asked about a negative difference.
`PlayedAsComposed` compares each block transmitted with the composition, computed
from its place alone, after any failure of a write or an allocation.
`HeapSuffices` holds only with `Prompt`: nothing in the code limits the producers.

### Fairness

`FairSpec` of `MqttLink` assumes weak fairness of main, of the work queue and of the
timer. Every wait in main is bounded: the poll by the keep-alive time or one second,
the sleeps by the clock, a connect by the stack's own timeouts. The work queue
thread has a higher priority than main and waits only for the client's mutex, which
main releases. A running timer expires. Nothing is assumed of the broker. In
`MqttCommands` the device's loop and the arrival of an acknowledgement on an unbroken
connection are fair; faults are bounded by `MaxFaults`. In `Images` each of the
blink threads, the printing thread and time are fair on their own, since equal
priorities are sliced; of a program of one thread only some step is asked for, which
says that the processor runs.

## 4. Proofs

All proofs are for every value of the constants their assumptions allow; the
assumptions are evaluated by TLC in the runs.

`MqttLinkProofs` proves the safety properties of `link` and the refinement of
`MqttSession` from an inductive invariant `IInv`. The properties are not inductive by
themselves. `IInv` adds: which `pc` values belong to which phase and where a callback
may return (`PhaseInv`, `ReturnInv`), what the client's state, its socket and the peer
say of each other (`ClientInv`), how flag, LED and `nfds` follow the session at each
step of a callback (`FlagInv`), and how many SUBSCRIBEs have been sent at each `pc`
(`SubscribedInv`). There is one case per action; the case of a callback that closes
the session is a lemma of its own. Refinement is one lemma: each step of `MqttLink` is
a step of `MqttSession` or leaves link and subscriptions alone. The module has no
constants, so the proofs rest on no assumption.

`MqttCommandsProofs` proves the invariants and the refinement of `MqttDelivery` for any
number of commands and of faults. `OrderInv`: acknowledgements, the command in hand and the
wire follow each other in the order of publication, and the wire carries nothing the
broker has forgotten. `RepeatInv` counts the run to come with the runs that were, and
a broken session as already paid for, since a fault is counted before the
redelivery it causes. `CompleteInv`: a session that lost nothing carries whatever comes
before a command on the wire. `OvertakenInv` follows: a command that was overtaken is
never executed. From these follow that first runs are in order
(`FirstRunsOrdered`) and, one case for the command in hand and one for the rest, that
every step is one of `MqttDelivery`'s or a stutter (`CommandsAreDelivered`).
`LossesAreBounded` needs two more: `AckInv`, that what is acknowledged now was kept by the
broker until now, and `LossInv`, which counts a command at risk, the one whose
acknowledgement has arrived when the connection breaks before its read, as lost
already, at the cost of that fault. Its corollary `AtLeastOnceWithoutFaults` marks the
limits of two findings: without faults and with identifiers below 256 QoS 1 is what
`Kconfig` says.

`MqttTelemetryProofs` proves `DistinctInFlight` for any range of `msg_id`, given that a publish is answered, or its session over, while fewer than
`IdRange` others are made (`TelemetryAssumption`). The invariant ties each
identifier to its age: `msg_id` is ahead of it by the works since, modulo the range,
and later publishes are younger.

`Es8311Proofs` is first about the arithmetic, for every master clock and rate:
`CoefficientsRight` (what `es8311_get_mclk_coeff` returns runs the converters at
256 times the rate and fits the fields), `BclkEncodingRight` (the divider table
and its offset are read back by the codec as the divider meant) and
`ProviderDivides` (the divider is exact and not 0, so `div_bclk - 1` does not
wrap). Then one lemma per stage of `es8311_configure()` says what the call has
written when it gets that far, and from these follow the invariants of all sequences
of calls. `CodecTypeCorrect`, `FailureIsSilent` and `ClockTreeIsKept` hold whatever the bus
does; `ClockIsRight`, `ProviderIsRight` and `RoleIsAgreed` assume `~Lossy`, and the run
`codec_i2c` shows what becomes of success without it: with it,
`SuccessIsProgrammed` says, a success has programmed everything. `ConsumerWithABit`
assumes that the option is a bit, as the driver does, and proves that a consumer is
then honoured in every sequence of calls: nothing but the constant is wrong.

`Qmi8658Proofs` proves every invariant of `motion` for every devicetree within the
binding's enumerations (`DevicetreeAssumption`), every integer asked for and every
failure of the bus, with any error number that fits a byte. `SettingsInv` says that after
boot each register field is what the last accepted value rounds up to, whatever failed
since, and that the full-scale fields are 0; `ConversionIsSteady` and `RateIsKept` follow.
`FetchInv` says that
what was read since the status was looked at is as new as that look.
`OnlySmallestScale` is the extent of the finding on full scales: an accepted one is the
sensor's exactly where none but the smallest was asked for.

`TonePlayerProofs` proves that no buffer is lost, freed twice or in two places
(`SlabConserved`), for any slab and tone length. `ToneInv` adds to the property where
`main()` and the driver are when each holds a buffer. `PlaysTheComposition` says that what
is transmitted is the composition, block by block, for any number of blocks in a
tone. Its invariant `ScoreInv` follows the blocks from `main()` to the amplifier: the
tone and phase of the block being computed, of each block in the queue and of the one
transmitted are those of its place in the composition. `Score` writes a place as the
tones that are complete and the blocks since, and the lemmas on quotients and
remainders say that the change of tone and the wrap of the phase keep step with
it. `NeverRunsDry`: with two buffers, and a block written for each that is played,
the driver never runs into error. A block that was written since the last one was
played is still queued when the next one ends (`InTime`); and a player without a buffer
has all others in the queue (`QueueNotEmpty`). `PitchBeforeOverflow` is the extent of the finding on the pitch: the
first tone, eight tenths of a second of the second and five tenths of the third
have their pitch.

`FifoBlinkProofs` proves that `FifoBlink` implements `BlinkLog` (`ThreadsImplementLog`). Its
invariant has two parts: a block is in the hands of one thread, in one place of the
FIFO or free (`Holders`, `OneHolder`), and of each LED the FIFO holds exactly the
toggles that are sent and not taken, in order (`Transit`). `HeapIsEnough` says that with
finitely many LEDs and at least a block for each, threads that finish their round
before time passes never run out of memory: before its next allocation an LED has
no block left (`HeapInv`), and the blocks in use are counted through their LEDs.

`ImagesProofs` has the programs without a module of their own: `LabelInv` (the label is
right of the counter, of the register while `++count` is under way), `ClickInv` (a click
comes before the load, so that `ClickTakesEffect`: without the button's interrupt no
reset is lost), `BlinkInv` (at period 0 the timer is stopped), `FadeInv` (a pulse is a
whole number of steps, and not 0 while it shrinks; for periods from 50 to half of
`Word`) and `SweepInv` (the period that was found is at least four times the shortest,
and the sweep stays between the two, so that `SweepIsNeverRefused`). Then the board:
`ImageStep` says that a step of the board is a step of its image and a stutter of
the others, so that the theorems about the programs hold of `Images`'s `Spec`
(`TypeCorrect`, `BoardLogsToggles`, `BoardIsSafe`).

Left to TLC: liveness, since it rests on ENABLED and on fairness, which the prover
does not handle (`NeverSilent`, `StaleFlagHeals`, `LedHeals`, `EveryCommandAcked`, `SentIsPrinted`,
`PlaysEveryTone`, `BlinksUntilOff`, `FadesForEver`, `SweepsForEver`), and of course the
runs that expect a violation.

## 5. Disagreements with the documentation

1. PUBACK before the payload is read (`mqtt_client.c:186`) against "At least once
   delivery" (`Kconfig:48`).
2. `strcmp` on a topic that is not terminated (`mqtt_client.c:116`) against the same.
3. The role test against an option that is 0 (`es8311.c:339`) against "Provider
   (Master) and Consumer (Slave) modes" (`drivers/audio/es8311/README.md:14`).
4. Dropped results of register updates (`es8311.c:209`) against "proper error
   handling" (`README.md:199`).
5. Full-scale values that are not shifted to their field (`qmi8658.c:39`) against
   "Maps to ACCEL_FS_SEL" (`qst,qmi8658.yaml:57`). The accelerometer's
   conversion in `channel_get` happens to fit the field's value 0 (`ConversionSteady`).
6. A 32-bit product that wraps inside the second and third tone (`es8311_test.c:33`)
   against "Generate a sine wave tone for testing audio output" (`es8311_test.c:26`).
7. A reset lost between load and store of `++count` (`app_display/src/main.c:153`)
   against "Use sw0 to reset counter" (`app_display/Kconfig:16`).

Met while reading or modelling and not stated as a run:

- With QoS 2 a command whose PUBREC was lost runs again, since the device keeps no
  identifiers, although `Kconfig:52` offers "Exactly once delivery"; the bound that
  holds is `RepeatsNeedFaults`. With QoS 0 or 2 chosen, `mqtt_client.c:361` does not
  compile (`CONFIG_NET_SAMPLE_MQTT_QOS_1_AT_LEAST_ONCE` is not defined then and is not
  asked for with `IS_ENABLED`), so today's images subscribe and publish with QoS 1.
- The SUBSCRIBE's identifier 5841 may meet a publish's identifier.
- An underrun of the I2S queue silences the tone player for good: nothing prepares
  the driver again.
- `get_mqtt_payload()` that fails leaves the payload uninitialised, and it is published.
- After a reset the label may be stale for up to a hundred passes.
- The gyroscope's conversion has no division by 180 (`qmi8658.c:252`): it takes 2^11
  units for pi rad/s where the sensor, at the field's value 0, has 2^11 for a degree/s,
  so 180 times the angular rate is reported. And a full scale read back in rad/s is
  taken as degrees/s when set (`qmi8658.c:82` and `:405`).
- 25 Hz is among the rates of the binding (`qst,qmi8658.yaml:24` and `:42`) and of the
  registers (`qmi8658_reg.h:83` and `:105`), but the driver programs and reports 50
  (`qmi8658.c:121` and `:164`).
- A sampling frequency of 65636 is accepted as 100, and -65311 as 225
  (`qmi8658.c:390`).
- The result of the bus is kept in a `uint8_t` (`qmi8658.c:301`, `:319` and `:337`): -EIO is
  returned as 251, which a caller that looks for `ret < 0` takes for success.
- LED_NET may stay lit without a session (`mqtt_client.c:88`, see `LedFollowsFlag` above).

## 6. Not modelled

- A SUBACK that carries a failure: it is logged and the session goes on without
  commands; the broker of the models accepts every SUBSCRIBE.
- The handshake of a QoS 2 publish (PUBREC received by the device): see above, it does
  not compile into an image.
- Payload and topic sizes byte by byte, among them the terminator written one past a
  payload of exactly 128 bytes (`mqtt_client.c:113`): payloads are read whole or not.
- Amplitude of the samples (floating point), the text of messages and log lines.
- `qmi8658_test`, the example sensor, the custom library, the load switch, the Wi-Fi
  shell: straight-line code around one call.
- TLS, Wi-Fi, the TCP stack, LVGL, the I2S and PWM drivers: external, present only as what
  the code may see of them.
- `scripts/`, boards, devicetree bindings, build files: no state machine.

What could be added: sizes in `MqttCommands` for the terminator, and a broker that
refuses a SUBSCRIBE.
