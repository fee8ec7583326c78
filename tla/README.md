# Formal models of the Klipper ESP32 firmware

This directory holds TLA+ models of the firmware in `src/`, the TLC
configurations that check them on small instances, and TLAPS proofs of the
properties that matter most. Every definition is translated from the C or
Python it names; `PROJECT.json` maps each one to its lines.

The repository is a *port*: it gives Klipper's micro-controller code a board
layer on ESP-IDF and FreeRTOS. Klipper itself is a git submodule whose sources
are not in the repository. Where a model needs it, the model says *external* and
does what the board code's calls require of it.

To run everything: `tlc -config X.cfg M.tla` for the rows of "The runs", and
`tlapm M.tla` for the eight modules with proofs (`TimerBridgeProofs`,
`ConsoleProofs`, `PandaBoardProofs`, `HardPwmProofs`, `FanControlProofs`,
`NeoPixelProofs`, `BusesAdcProofs`, `HostSessionProofs`).

## 1. The system

### Components

| Component | Source | State it keeps | Operations |
|---|---|---|---|
| Timer bridge | `board/timer.c` | GPTimer's 64-bit count and one-shot alarm, `must_dispatch`, the task's notification, the depth of critical sections | `timer_init`, `timer_irq_handler`, `timer_dispatch`, `timer_set`, `timer_kick`, `irq_wait`, `irq_poll`, `clear_active_irq`, `irq_*` |
| Timestamp arithmetic | `board/timer_math.h` | none | `timer_alarm_count_for` |
| Console | `board/console.c` | driver buffers, `tx_pending`, Klipper's receive and transmit buffers | `console_setup`, `console_io_task`, `serial_enable_tx_irq`, `console_shutdown` |
| Digital outputs | `board/gpio.c` | `gpio_lines[].state`, the level of each pin | `gpio_out_setup/reset/toggle/write`, `gpio_in_*` |
| Relay lockout | `board_profiles/panda_breath/safety.c` | `relay_level`, the relay's pin | early init, interception of writes, shutdown function |
| Boot, reset, watchdog | `main/main.c`, `board/internal.c` | none over a reset | `app_main`, `main_task`, `command_reset`, `command_config_reset`, `watchdog_*` |
| Hardware PWM | `board/hard_pwm.c`, `pwm_math.h` | `timer_frequencies`, `channel_used`, the LEDC peripheral | `gpio_pwm_setup`, `gpio_pwm_write` |
| TRIAC fan | `board_profiles/panda_breath/fan.c` | duty, measured half-cycle, two one-shot timers, heater history | `zcd_isr`, `gate_fire_cb`, `gate_off_cb`, `fan_task` |
| ADC | `board/adc.c` | unit handles | `gpio_adc_setup/sample/read/cancel_sample` |
| I2C | `board/i2c.c` | bus handle, device handles | `i2c_setup/write/read` |
| NeoPixel | `board/neopixel_rmt.c` | per strip: buffer, RMT channel, encoder | `config_neopixel`, `neopixel_update`, `neopixel_send` |
| SPI | `board/spi.c` (in no profile's sources yet) | device slots, the buses marked initialised | `spi_setup`, `spi_transfer`, `spi_shutdown` |
| Host protocol tools | `tools/probe_mcu.py`, `hw_test.py`, `latency_probe.py`, `rollover_soak.py`, `reconnect_test.py` | sequence number, receive buffer | identify, request, send, query, burst |
| Build tools | `CMakeLists.txt`, `build.sh`, `extract_compile_time_requests.py`, `validate_build.py`, ... | none at run time | |

### How they interact

- **One task runs almost everything.** `main_task` runs Klipper's scheduler:
  commands, tasks, timers and shutdown functions all execute in it, one at a
  time. What comes in from outside is the GPTimer's interrupt (a flag and a
  notification), the UART or USB driver's reception, the peripheral of a
  NeoPixel transmission, and on the Panda Breath board the zero-cross interrupt,
  the `esp_timer` task and `fan_task`.
- **The wake chain.** The alarm is one-shot. It sets `must_dispatch`; `irq_wait`
  or `irq_poll` sees the flag and calls `timer_dispatch`, which runs Klipper's
  due timers and arms the next alarm. Klipper's periodic timer wakes the tasks;
  the tasks run `console_io_task`. If one link fails nothing runs again, while
  `irq_wait` still feeds the watchdog.
- **Shutdown is a long jump.** A command, a timer or a driver that fails calls
  `sched_shutdown`, which never returns to its caller: the rest of a task pass is
  not run, shutdown functions run in link order, timers are reset. All of it
  happens over state left in the middle of something.
- **The relay is intercepted.** Klipper drives outputs through `gpio.c`, which
  hands the relay's pin to `safety.c`; `fan.c` reads the same pin to decide
  whether to blow, and drives a pin the host may also configure as an output.
- **SPI and I2C** fail into the same shutdown: SPI gives back its devices and
  buses in it, I2C keeps its own, and only a reset clears both.
- **The host** sends commands with a sequence number and gets a reply and an
  acknowledgement; the repository's tools look at the reply's name only.

### What is hard here, and what makes each part correct

`PROJECT.json` lists the hazards, each at its line. In short:

| Part | What is hard to test | What must hold |
|---|---|---|
| Timer bridge | an interrupt between `irq_poll` and the sleep, or in the midst of a dispatch; a kick replacing an alarm; a shutdown dropping a raised flag, or a caller inside a critical section; a counter that runs on while an alarm is installed; the wrap every 71 minutes | the chain never breaks, no alarm is installed in the past, no wakeup is lost, the board leaves no critical section of its own open, timers run in order, early on a stray wakeup only, and boundedly late |
| Console | output of exactly one chunk or of several, a shutdown in mid-pass, short USB writes whose rest is dropped | nothing stays in the buffer while the task sleeps, every byte is on the wire once or counted as dropped, the shutdown report gets out, and the task comes back to feed the watchdog |
| Relay and outputs | two objects on one pin, a write that raises and never returns, shutdown functions in either order, a shutdown raised again inside one, the fan's own task on the same pins | the board is an interlock (never on; a heat request locks it until it starts over), outputs end at their defaults, shadows agree with pins, the locked relay holds the fan |
| PWM | timers shared by frequency, exhaustion, a failure after a timer is marked used, a write that raises inside a shutdown | from outside timers and channels are invisible: each pin emits the wave asked for; nothing leaks, a shutdown brings every output to its default that it can reach |
| Fan | a zero crossing between any two steps of the timer task, a pulse already armed when the duty goes to zero, tick wrap | a raised gate always has its end coming, at most one late pulse, cooldown kept and not overrun |
| NeoPixel | a send that times out while the peripheral still reads the buffer | success means shown; the buffer stands still under a transmission; nothing torn is ever shown |
| ADC, I2C, SPI | a resource opened by the first of several users; failures half-way; devices removed in a shutdown while objects keep their handles | each user gets its own pin or device, the bus is asked of the driver once, no failed reading passes for a real one while the machine runs, nothing is used after it was removed or held after a shutdown |
| Host tools | acknowledgements that belong to the command before; lost frames and no retransmission; an MCU that restarts in the session | a reply vouches for all that was sent before it, and a restart can hide a loss only behind a command numbered zero |

## 2. Modules and their code

| Module | Models | Checked by | Proofs |
|---|---|---|---|
| `TimerMath` | `timer_math.h`, with the timestamp's width a parameter | through `TimerBridge` | in `TimerBridgeProofs` |
| `TimerService` | what the board promises Klipper about timers (abstract) | as `ServiceSpec` | |
| `TimerBridge`, `MCTimerBridge` | `timer.c` and the scheduler around it | `timer_bridge`, `timer_bridge_live` | `TimerBridgeProofs` |
| `Console` | `console.c`, both transports | `console`, `console_poll` | `ConsoleProofs` |
| `Interlock` | what the board promises about its heater (abstract) | as `InterlockSpec` | |
| `PandaSafety` | `gpio.c`'s outputs, `safety.c`, boot and reset | through `PandaBoard` | in `PandaBoardProofs` |
| `PandaBoard` | `PandaSafety` and `FanControl` on one set of pins, with the boot order of `main.c` | `panda_board` | `PandaBoardProofs` |
| `PwmWaves` | what the board promises of its PWM outputs (abstract) | as `WavesSpec` | |
| `HardPwm` | `hard_pwm.c`, `pwm_math.h` | `hard_pwm` | `HardPwmProofs` |
| `FanControl` | `fan.c` | `fan_control`, `fan_phase` | `FanControlProofs` |
| `NeoPixel` | `neopixel_rmt.c` | `neopixel` | `NeoPixelProofs` |
| `Adc` | `adc.c` | `adc` | in `BusesAdcProofs` |
| `Spi`, `I2c` | `spi.c`, `i2c.c` | through `Buses` | |
| `Buses` | `spi.c` and `i2c.c` in one firmware: one shutdown, one reset | `buses` | `BusesAdcProofs` |
| `HostSession` | the host tools' calls against the firmware's dispatcher | `host_session` | `HostSessionProofs` |

**`TimerBridge`.** Three actors. `Tick` is the counter, which raises the
interrupt when it meets the alarm. `timer_irq_handler` can run whenever no
critical section is open (`nest = 0`). The Klipper task is a program counter
`pc` with one action per stretch of code that nothing can come into: `irq_wait`
polls, then opens its critical section (`feed`), then sleeps (`block`);
`timer_dispatch` takes the flag (`many`), lets Klipper run the head of its list
whatever the clock says and then those that are due (`next`), and calls `timer_set`,
which reads the count (`set`) and installs the alarm (`arm`) as two steps,
because the counter runs on between them. `ret` is the return address, since
`timer_set` and `timer_kick` have several callers. `lag` bounds how long the task
runs between polls. Timestamps are stored by Klipper modulo `Epoch`; the model
keeps the time each one stands for and reduces it where the code does, so
`EpochExact` can say whether the conversion back was right. Klipper's list has the
placeholder `deleted`, which `sched_add_timer` and a shutdown put at its head, so that
the dispatch of a kick has something to run. A flag raised in the midst of a dispatch
(`overrun`) starts one that may have nothing due; it runs the head of the list `early`.
A shutdown may be raised inside `sched_add_timer`'s `irq_save` ("Timer too close"):
`abandoned` counts the critical sections, the jump's own and its caller's, that nobody
will leave.

**`Console`.** Bytes are numbered, so that loss, repetition and order are
visible. A reply is longer than a transmit chunk. `io_transmit` is one chunk
drained and written, with the transport taking all of it (UART) or a prefix (USB
after its 10 ms time-out). The rest of a short write is lost in the code too, since
its result is ignored; `dropped` keeps those bytes, so the properties can say that a
byte is on the wire or dropped and never both. Reception wakes the tasks when
something was read. Tasks of one pass run in any order. `Work` counts what the task has
still to do before it waits; it is part of a property and of no action.

**`PandaSafety`.** Each of Klipper's output commands is modelled by the
`gpio.c` calls it makes, with a write to the relay's pin that raises leaving the
rest of the command undone. The shutdown functions run in both orders, and
start over when a shutdown is raised inside one. The module implements
`Interlock` with `on` the relay's level, `asked` a request for heat since power-up,
and `locked` the shutdown.

**`PandaBoard`.** `PandaSafety` extended by an instance of `FanControl` whose
`relay` is the level of the relay's pin and whose `gate` is the level of the fan's
pin, the pin a host object may share. `EarlyInit` comes before `fan_init`, `fan_init`
before the first command (`Klipper`), and a reset takes both back. `Blow` is any
step of the fan: it changes its own variables and the level of its pin.

**`HardPwm`.** Allocation is by lowest index as in the code; the LEDC
peripheral (`hw_timer`, `hw_channel`, `route`) is separate from the tables, so
that they can disagree. Each failure path of `gpio_pwm_setup` is a disjunct that
leaves what the code leaves. A write raises a shutdown when its duty is out of range or
when the driver refuses it; in a shutdown too, whose walk over the outputs then starts
over. `Wave` is what a pin emits, read off the channel it follows
and that channel's timer; it is what `PwmWaves` sees.

**`FanControl`.** `zcd_isr` may land between any two steps of the timer
task. A timer that has expired is taken off its list before its callback runs,
and `esp_timer_stop` does not reach it any more: `TakeFire` and `gate_fire_cb`
are two steps for that reason. The relay is an open environment here. (In this
build `safety.c` keeps the real relay low, so the fan of this model is the fan of
a build without the lockout; and `gpio_get_level` on an output pin, `fan.c:112`,
relies on the input buffer of the pin.)

**`Spi`, `Buses`.** A handle is named by the slot that holds it; `live` and `owned`
are the devices and buses the driver has given, apart from the tables of `spi.c`, so
that the two can disagree. `spi_setup` finds a slot of the same settings or takes
the first free one; each failure is a disjunct that leaves what the code leaves (an
initialised bus, when the device is refused). `spi_shutdown` and Klipper's own
shutdown function, which sends through the handles, run in either order. `Buses`
adds `I2c`: its failures make SPI's shutdown functions due. There the driver gives the
port once (`NewBus`), so a bus created for each device would meet a refusal; `refusal`
keeps why a set-up ended without a device.

**`NeoPixel`.** The RMT peripheral reads the caller's buffer while it
transmits, a byte a step; a strip latches what it took once the line is quiet.
`late` holds the strips whose last send timed out with its frame still going.

**`Adc`.** The readings of an input are added up by Klipper's timer, in a shutdown
too. A reading that fails raises a shutdown and never returns while the machine runs;
in a shutdown `try_shutdown` does nothing and the reading is a zero (`adc.c:149-153`).
`made` keeps how much of a sum is which.

**`HostSession`.** The tool's calls, in any order, over two FIFO lines to an
MCU that accepts a command only with the sequence number it expects and answers
any other with a bare acknowledgement. `neopixel` is the request that a shut-down MCU
accepts and does not run: it sends word of the shutdown instead of a reply, which
`request()` skips until its deadline (`probe_mcu.py:123-129`). `taken` and `ran` record what the MCU
accepted and executed. A clean link is one whose port resets the MCU on opening;
a lossy one loses any frame and finds the MCU with any sequence number, and a
dictionary chunk of an earlier session on the line. `McuRestart` is a reset of the
MCU in mid-session, by the watchdog or the supply: it expects number zero again, what
it had not read or not finished sending is lost, and its word of it (`starting`) is a
frame that no call looks for.

## 3. The runs

Every run is of the specification in its module; the two marked *violation* show
a disagreement between the code and a comment or a document.

| Run | Bounds | States | Shows |
|---|---|---|---|
| `timer_bridge` | wrap at 22 ticks, clock to 26, two user timers (symmetric) of delay 4, period 5, lead 2, kick 3, sleep 4, pass 2, install 1 | 2.3 M | `TypeOK`, `MaskBalance`, `WakeChain`, `NoMissedAlarm`, `NoLostWakeup`, `EpochExact`, and the refinement `ServiceSpec` |
| `timer_bridge_live` | wrap at 18, clock to 37, one user timer, delay and period 4, pass 1 | 637 k | `AlarmInOwnEpoch`, `FlagServed`, `DispatchGoesOn` |
| `console` | chunk 2, reply 3, window 3, 4 commands, wake every 4 waits, both transports | 545 k | `NoOutputAsleep`, `OutputFaithful`, `RxBounded`, `EveryCommandAnswered`, `ReportDelivered`, `WatchdogFed`, `WorkShrinks` |
| `console_poll` | as above, UART | | violation of `RxPolledEveryWait` |
| `panda_board` | relay, fan and one other pin, two objects, values 0, 1, 5; half-cycle 2, pulse 1, tick wraps at 2 | 131 k | the refinement `InterlockSpec`, `ShadowAgrees`, `DefaultsAfterShutdown`, `FanHeld` |
| `hard_pwm` | two LEDC timers, two channels, two objects, seven cycle times, duties 0, 2 and one out of range, two writes refused by the driver | 58,914 | `NothingLeaks`, `DefaultsAfterShutdown`, `DefaultsReached`, and the refinement `WavesSpec` |
| `fan_control` | half-cycles 3 to 5, pulse 2, cooldown 2 ticks, tick wraps at 4 | 148 k | `GateEnds`, `OneLatePulse`, `CooldownKept`, `FanStops` |
| `fan_phase` | as above | | violation of `MinPhaseDelay` |
| `neopixel` | two strips of 1 or 2 bytes, two colours, two channels, updates of every place and length | 1.0 M | `SuccessShown`, `NoTornFrame`, `UsesOnlyItsOwn` |
| `adc` | two objects, pins of both units and one without converter, sums of 3 | 31,768 | `ReportsAreReal` |
| `buses` | I2C: two objects, each set up any number of times, good and bad buses and rates, memory for two devices. SPI: three objects, two buses and a bad one, two modes, two slots | 35,719 | `RefusedForCause`, `HandlesKept`, `NothingHeld` |
| `host_session` | 4 sequence numbers, 5 commands, runs of 3, bursts of 2, one stats message, one restart, both links, three kinds of request | 9.2 M | `DictionaryWhole`, `ReplyVouches`, `SendsLagByOne`, `StaysInStep` |

Why the bounds are enough to meet the interesting cases:

- *Timer bridge.* The clock passes a wrap with timers on both sides. A new
  timer's deadline lies beyond the kick for it, whose alarm must be followed by the right
  one; a dispatch goes on for so long that its next deadline is near, where the alarm is
  clamped, or past. Two user timers, added at different times, and the
  periodic one give every order of three deadlines. A kick's alarm can go off in the
  dispatch before it, so that stray wakeups and early timers happen. A shutdown may come
  in any state in which Klipper can raise one, and leaves 0, 1 or 2 critical sections
  open. The live run is smaller, because liveness needs the whole graph at once; its
  `DispatchGoesOn` obliges from every count below 20, so before, at and after the wrap.
- *Console.* A reply of three bytes and a chunk of two gives chunks that are
  full with more to come, full with nothing to come, and short. One command more
  than the window makes the host wait for a reply.
- *HardPwm.* The cycle times include zero, ones that round up, ones that round
  down, two that share a frequency and ones out of range. Two of everything is
  what sharing, exhausting and reusing takes. Two refused writes (`MaxFailures`) can both
  hit one walk, at the same output or at different ones; defaults out of range are
  not bounded, and send the walk round for ever.
- *Panda board.* Two objects are what sharing a pin takes, the fan's pin included;
  value 5 is one that is neither 0 nor 1. The fan's phases are short because what is
  asked is whether it starts at all; `fan_control` has the longer ones.
- *Buses.* Three SPI objects over two slots share, fill and overflow the table; a
  mode apart is what tells two devices of a bus apart. A second I2C device is what
  sharing its bus takes, and a third what running out of memory does.
- *ADC.* Sums of three end before, in and after a shutdown, with failed readings at
  each place; pins of both units in either order are what handles may be confused by.
- *Fan.* The tick wraps within a cooldown; half-cycles are shorter and longer
  than the sane range allows, so that noise is seen too.
- *Host.* The tools' longest run of commands without a reply is 8 of 16
  sequence numbers; the model allows 3 of 4. `ReplyVouches` is *false* when a run
  may exceed the sequence numbers by one (a lost command's number comes round
  again), so `MaxRun <= SeqCount` is stated as an assumption of the module, and it
  is tight. One restart is enough to lose a prefix of a run: with five commands the
  third carries number zero, and without the exception `Hidden` the property fails.

The modules with proofs state a type invariant, part of their inductive one:
`TimerBridge`'s is checked in `timer_bridge` too. Elsewhere the domains of variables are in the
comments beside them, and the properties relate the state instead.

Deadlock is checked everywhere except in `neopixel` (a shut-down strip with its
line quiet may rest) and `host_session` (a session ends).

**Fairness.** `TimerBridge`: the counter runs by itself, the interrupt is taken
once it is unmasked, and the Klipper task, which is never blocked for ever, goes
on. `Console`: the same task. `WatchdogFed` needs no more: the commands of a
session are bounded, and between them nothing but the console itself asks for another
pass. (A host that never pauses is not excluded by the code; it is outside the
property. `WorkShrinks` says how much each of its commands may put the wait off.) `HardPwm`: the shutdown functions go on, since nothing in them waits; what they start over
for is not excluded.
`FanControl`: the timer task has a higher priority than `fan_task`, and
`fan_task` runs when the timer task and the Klipper task sleep; strong fairness
is assumed of `fan_task` and of the expiry of the off timer because zero
crossings may interrupt them again and again, but not for ever at every attempt.

**Refinement.** `TimerService` says what Klipper may count on: timers run in
dispatches, earliest first and once they are due, and the clock is never more than `Slack`
ahead of a waiting timer. It names two exceptions. The first timer of a dispatch that a
stray wakeup started, one that came while another dispatch was under way, may run before
its time; one wakeup excuses one timer. And once a shutdown has left interrupts masked
nothing is promised about lateness. `TimerBridge` implements it with the identity mapping
on `count`, on Klipper's `timers` but the placeholder and on `early`, `dispatching` read
off `pc`, `stray <- overrun`, `masked <- abandoned > 0`, and `Slack == (Lead + 4 * PassTicks) + (Lead + 3 *
PassTicks)`; the first part is what an alarm replaced by a kick can cost, the
second what a shutdown can add that throws a dispatch away and starts over from its
own kick.
An earlier `Slack`, shorter by one `PassTicks`, passed the run (whose pass is two
ticks) and is wrong from five ticks on: the proof found it, and TLC then showed the
counterexample on an instance with a pass of six.

`Interlock` says what the heater's guard is for: the output is never on, a request
to turn it on locks the device, and a lock is undone by starting over alone.
`PandaBoard` implements it with `on <- level[Relay] = 1`, `asked <- heat_asked` and
`locked <- is_shutdown`: whatever command asks for heat must be a step `Request`, which
asks and locks in one, and a reset of either kind is `Restart`.

`PwmWaves` says what the PWM outputs are to someone who sees the pins only: a pin emits
the wave last asked for on it, at the frequency nearest to its period; a write changes
the pin its output holds and no other; a setup that fails leaves at most a wave nobody
holds, and stops the machine, after which outputs go to their defaults. `HardPwm`
implements it with `wave` read off the channel and timer each pin follows, so a timer
retuned under another output, a channel given twice or a setup that breaks off too late
would be a step `PwmWaves` does not have. `asked` keeps the period: an earlier version
without it let a pin run at any frequency, which a mutated timer search showed. The run
does not check `OutputAsAsked` and `FrequencyNearest` beside it, which are the same
promises read off the tables; nor, beside `DefaultsReached` and `NoTornFrame`,
`StartsOverForCause` and `BufferStill`, which say why these hold. All four are theorems.

**Findings.** (1) `docs/panda-breath-bringup.md:42` takes `console_io_task` to
poll the UART in every loop; the code polls it in passes over the tasks, which
reception does not start, so a byte waits for the periodic wake (`console_poll`;
`RxBounded` is the bound that does hold). (2) `fan.c:95` says that an edge cancels
the pending fire; a fire whose timer has expired, and whose callback is about to
run, is not cancelled, and its pulse begins with no delay after the crossing,
against `fan.c:40` (`fan_phase`; `GateEnds` and `OneLatePulse` do hold).

## 4. What is proved

The proofs hold for every value of the constants within the named assumptions,
for clocks that run for any length of time, and for any number of timers, pins
and objects. The firmware's own values satisfy them: `Half = 2^31`,
`MinAlarmTicks = 5`, a kick of 50 ticks.

### Timer bridge (`TimerBridgeProofs`)

`AlarmExact` is the arithmetic lemma everything rests on: for a deadline within
half an epoch of the count, either way, `timer_alarm_count_for` returns the larger
of the deadline and the minimum lead. It follows from `SignedDifference` (the
`int32_t` difference of two reduced times is the true difference), which rests
on division with remainder.

| Theorem | States |
|---|---|
| `TypeCorrect` | `TypeOK`, the depth of critical sections included |
| `MasksBalanced` | `MaskBalance`: at its sleep, its commands and its loop the task is inside exactly the critical sections a shutdown has left open |
| `WakeChainKept` | `WakeChain`: outside the re-arming code there is an alarm ahead, its interrupt or its flag |
| `AlarmsInTime` | `NoMissedAlarm`: no alarm is ever installed at a count already passed |
| `WakeupsKept` | `NoLostWakeup`: the task never sleeps on a raised flag without its notification |
| `EpochsExact` | `EpochExact`: each install hits the deadline asked for, in its epoch |
| `AlarmsInOwnEpoch` | `AlarmInOwnEpoch`: so does the mapping of every timestamp in reach |
| `ServiceKept` | `ServiceSpec`: the bridge implements `TimerService`: which timers may run early, and how late any may be |

The inductive invariant is `IInv`. None of the properties is inductive alone:

- `WakeChain` needs `NoMissedAlarm` (a new alarm must be ahead), which needs
  `LeadInv`: from the read of the count to the install at most `InstallTicks` have
  gone by, fewer than the minimum lead. This is where the assumption
  `InstallAssumption` (the margin `timer_math.h:9-11` reserves) is used.
- All of it needs `DepthInv` and `ReturnInv`, which say how deep the critical
  sections are at each `pc` and who called `timer_set`, because an interrupt comes
  in at depth zero only and a shutdown leaves callers behind.
- `EpochExact` needs `ReachInv`: every deadline, and the time given to `timer_set`,
  is within half an epoch of the count it is compared with. `PassAssumption` (the
  task polls its timers at least every half epoch) and `KickAssumption`,
  `PeriodAssumption`, `DelayAssumption` (nothing is scheduled further ahead) are
  used here.
- `NoLostWakeup` needs `NotifyInv`, which carries the notification from the poll
  to the sleep.

The invariant is proved over all 23 actions; each has its own step. `IInv` was
checked by TLC before it was proved.

`ServiceKept` needs more, `PromptInv`: each waiting timer is bound to what will run it
next. Either an alarm ahead covers it, installed no later than `AlarmBy`
allows; or a flag or interrupt is up, and `SinceAlarm` is what the task may have run
since; or the dispatch, `timer_set` or kick that will cover it is under way, and the
clock is bounded there. A kick covers all timers because they are all ahead of the clock
when it is asked for; a timer added behind another is covered by the other's alarm. A
shutdown drops a flag and never an interrupt, and `Lost` is what it can cost. `KickInv`
says which time a kick asks for. All of it is said of a state in which no section is left
open. `WithinSlack` follows, and the refinement from it:
each step is one of the service or a stutter.

### Console (`ConsoleProofs`)

| Theorem | States |
|---|---|
| `ConsoleNoOutputAsleep` | `NoOutputAsleep`: with no task to run, nothing waits in the transmit buffer |
| `ConsoleOutputFaithful` | `OutputFaithful`: every byte of a reply is on the wire once and in order, buffered, or dropped with a short write |
| `ConsoleRxBounded` | `RxBounded`: input waits no longer than the periodic wake |
| `ConsoleWorkShrinks` | `WorkShrinks`: every step until the next wait uses up work, and only the host's commands add to it |

They hold for every chunk, reply length, window and number of commands, on both
transports. `AwakeInv` is what `NoOutputAsleep` needs in the middle of a pass: a
buffer that is not empty has `tx_pending` set, and `console_io_task` is still to run or
another pass requested. A shutdown that cuts the pass short breaks it until the report is
queued, by the call that wakes the tasks again. `AgeInv` says where the passes stand
when input ages. `InputInv` (commands are numbered in a row from the receive buffer
into the driver's) and `OutputInv` carry `OutputFaithful`, which comes down to three
lemmas about sequences: a reply appended (`ReplyKeepsFaith`), a report
appended (`ReportKeepsFaith`), and a chunk cut from the buffer of which the wire
takes a prefix (`ChunkKeepsFaith`).

`ConsoleWorkShrinks` is the safety half of `WatchdogFed`. The work of a state is a
natural number (`WorkParts`): five for each byte to transmit, since a full chunk may ask
for a pass of that many steps more; for a command its wake, its dispatch and the bytes of
its reply; the steps left of the pass; a wake, and a shutdown with its report, if they may
still come. Each step that asks for a pass pays for it with what it takes off the buffers
(`PassStepFalls`): one command or more read, one dispatched, a full chunk sent. From it
the liveness property follows by counting, once the task is given its turns; that last
step is TLC's.

### Relay and outputs (`PandaBoardProofs`, first part)

| Theorem | States |
|---|---|
| `RelayStaysOff` | `RelayNeverHigh`: no sequence of operations drives the relay |
| `HeatRequestsLatch` | `HeatRequestLatches`: every request for heat ends in a shutdown, whatever path it takes |
| `ShadowsAgree` | `ShadowAgrees`: the shadow a toggle reads is the level of its pin |
| `ShutdownDefaults` | `DefaultsAfterShutdown`: a finished shutdown leaves each output at its default |

`IInv` adds to the properties: `RelayInv` (driven low from early init, not merely
not high), `BootInv` (no shutdown and no object before boot), `ShadowInv` (shadows
agree *unless the walk over the outputs is still to come*: a write that raises has
stored its shadow and not its level) and `DefaultInv` (after that walk, whatever
the safety profile's function does before or after it). `CommandKeeps` is the
step common to all commands; an output that shares its pin is what makes it more
than a single assignment. The type invariant of `PandaSafety` is part of `IInv`
and proved with it.

`InterlockKept` states that each step maps to a step of `Interlock` or a stutter.
It uses `IInv` and one fact of the steps themselves (`StepLatches`): a step
that asks for heat ends shut down, and none but a reset takes a shutdown back.

### The board (`PandaBoardProofs`, second part)

| Theorem | States |
|---|---|
| `FanStaysHeld` | `FanHeld`: no step of the fan leaves it anything but at rest |
| `BoardShadowsAgree`, `BoardDefaults` | `ShadowAgrees`, `DefaultsAfterShutdown` on the whole board |
| `BoardInterlock` | the whole board implements `Interlock` |

The invariant is `PandaSafety`'s, `FanHeld`, and `FanBootInv` (no object exists before
`fan_init`). The two hold each other up: the relay's level is 0, so the fan never
drives its pin (`FanRests`), so its steps leave the outputs as they are (`BlowKeeps`).
`FanInitKeeps` is where the order of `main.c` matters: `fan_init` pulls the pin low,
and would break the shadow of an object configured before it.

### Hardware PWM (`HardPwmProofs`)

| Theorem | States |
|---|---|
| `PwmOutputAsAsked` | `OutputAsAsked`: each output holds the duty last asked of it, and its pin follows it |
| `PwmFrequencyNearest` | `FrequencyNearest`: each output runs at the integer frequency nearest to its period |
| `PwmNothingLeaks` | `NothingLeaks`: channels and timers in use are those of the outputs, one for one |
| `PwmDefaultsAfterShutdown` | `DefaultsAfterShutdown`: a finished shutdown leaves every output at its default |
| `PwmWavesKept` | `WavesSpec`: the outputs implement `PwmWaves` |
| `PwmStartsOverForCause` | `StartsOverForCause`: each step of a shutdown leaves fewer outputs to reach, unless the driver refused a write or the output just reached has a default out of range |

They hold for any clock, maximum frequency, finite tables, pins, cycle times and duties
(`PwmAssumption`). The invariant says that an output has a channel of its own, in use
(`ChannelInv`), on a timer that is booked and running at the output's frequency
(`TimerInv`), and that no two timers are booked for one frequency (`BookingInv`).
A timer whose configuration failed stays booked without running: that is
why bookings and the peripheral are apart, and why `RunInv` (bookings are what
outputs asked for) holds only until a shutdown. `WalkInv` follows the walk of
the shutdown function, which a default out of range or a refused write starts over.
`NearestFrequency` is the rounding lemma under `FrequencyNearest`; `SameSize`
turns "one for one" into the equal numbers `NothingLeaks` states.

The refinement adds one invariant, `RouteInv`: a channel that a pin follows is in use, on
a timer in use, and followed by no other pin; a setup may take a pin from another
output's channel, and then nobody holds the old one's wave. `KeptInUse` is what all
steps but a reset do: book timers and channels beside those in use, and leave these as
they are. A step for which it holds, and which moves no pin, shows nowhere
(`NothingShows`); a setup shows on its own pin (`SetupEmits`), a write on the pin of its
output (`WriteShows`). `PwmStartsOverForCause` is the safety half of `DefaultsReached`: the
channel of an output is never given back, so there is no third cause.

### TRIAC fan (`FanControlProofs`)

| Theorem | States |
|---|---|
| `FanTypes` | `TypeOK`, the domains of the fan's variables |
| `FanGateEnds` | `GateEnds`: a raised gate has its end coming |
| `FanOneLatePulse` | `OneLatePulse`: after duty zero at most one pulse more |
| `FanCooldownKept` | `CooldownKept`: the fan runs on for its cooldown and no longer |

They hold for every half-cycle, pulse length, cooldown and width of the tick in
`FanAssumption`, whose last line, that the tick's range is longer than the cooldown and
`fan_task`'s delay, is what `CooldownKept` rests on: 2^32 ticks of a
millisecond (`src/sdkconfig.defaults:5`) against a minute. `LateInv` counts the late pulse in whichever place it is, fired, armed,
or expired with its callback to come. `CoolInv` says that the time the fan has
cooled is the distance from `heater_off_tick` to the tick, across a wrap, and that it was
not yet the whole cooldown when `fan_task` last looked. Together they keep the
distance below the wrap, so that `fan_task` reads it right (`CooldownRead`).
The upper bound of `CooldownKept` is the safety half of `FanStops`.

### NeoPixel (`NeoPixelProofs`)

| Theorem | States |
|---|---|
| `StripSuccessShown` | `SuccessShown`: success means that the strip shows the buffer |
| `StripUsesOnlyItsOwn` | `UsesOnlyItsOwn`: nothing is written behind a buffer or sent without a channel |
| `StripBufferStill` | `BufferStill`: only a timed-out send leaves a buffer being read while it changes |
| `StripNoTornFrame` | `NoTornFrame`: what a strip shows changes to the whole buffer only, unless a send of it timed out |

They hold for any strips, buffer sizes, colours and channels. `QuietInv` says that a
strip whose frames have all ended has a quiet line, except for the send under way; a
new send may therefore count on it. `FrameInv` follows that send byte for byte: the
strip has taken as much as the peripheral has read, and the same; then all of it; then
shows it. `ReadyInv` is why an object whose channel failed is never sent from: it
exists in a shutdown only, when no command runs.

### SPI, I2C and ADC (`BusesAdcProofs`)

| Theorem | States |
|---|---|
| `SpiHandlesKept` | `HandlesKept`: outside a shutdown a handle is a live device of its object's settings |
| `SpiNothingHeld` | `NothingHeld`: after the shutdown function the driver has nothing of SPI's |
| `I2cRefusedForCause` | `RefusedForCause`: no set-up meets a port given already; one that fails was asked for wrongly, met a full memory or a failing driver |
| `AdcReportsReal` | `ReportsAreReal`: a reported sum is `sample_count` readings of its input's own pin, and zeros of failed ones only in a shutdown |

`TableInv` is the agreement of the tables with the driver (each device counted, on a
bus marked initialised); it is what makes the walk of `spi_shutdown` over the first
`spi_device_count` slots complete. `TwinsInv` (no two slots of the same settings) is
what sharing rests on. `FirstSlot` is the lemma about the searches: a nonempty set
of slots has a least member, from the well-foundedness of the naturals.

The theorem about the ADC is of `AdcSpec`, for any inputs, pins asked for and lengths of
a sum. `AdcInv` says that each input's handle and channel are those of the pin asked
for, which is the only pin they name (`PinNamed`); `SumInv`, that a sum under way is
made of as many readings as it counts, all of its own pin while the machine runs. A
shutdown starts every sum over, which is why no zero read in it can be in a sum of a
running machine.

### Host session (`HostSessionProofs`)

| Theorem | States |
|---|---|
| `SessionDictionaryWhole` | `DictionaryWhole`: a session that goes on has read every chunk of the dictionary, in order |
| `SessionReplyVouches` | `ReplyVouches`: a reply vouches for every command before it, unless a restart hides the loss behind a command numbered zero |
| `SessionSendsLagByOne` | `SendsLagByOne`: on a clean link a call that has returned leaves at most its own command unaccepted |
| `SessionStaysInStep` | `StaysInStep`: on a clean link to an MCU that does not restart, only a `neopixel_send` that a shut-down MCU refuses times out |

They hold for a dictionary of any size, bursts and runs up to the sequence numbers,
any number of commands, reports and restarts, and lines that hold any number of
frames. The invariant sees the session as two sequences: `down`, the commands on
their way, and `Line == data \o up`, the frames on theirs, parsed or not; `Sent` and
`Seen` count the commands sent and those the MCU has read. Its parts:

- `ChunksInv` and `ResponseInv` carry `DictionaryWhole`. The chunk the host waits for
  is the last thing the MCU did; a frame that an earlier session left can only be the
  first of all.
- `TakenInv`, `TracksInv` and `AnswerInv` carry `ReplyVouches`. The MCU takes a command
  at its number only, so a loss could hide before it only if it were a whole round
  of numbers long; the host has never more than `MaxRun <= SeqCount` commands out since
  the last reply (`ModNear`). A restarted MCU expects zero, which
  is the exception the property names. `AnswerInv` says that a reply vouches already
  while it is on the line, and `DueInv` that the replies a call finds there are its own,
  so that looking at their names, as the tools do, is enough.
- `InStepInv`, `ComingInv` and `AckInv` carry the other two, on a clean link: the MCU
  is at the last command it read; what a call waits for is on the line or will be put
  there, unless the command was taken and not run (`Refused`); and how many acknowledgements are owed in each call (`Lag1` between calls,
  `Lag2` in a send).

`HostFacts` and `McuFacts` restate each step as what it does to the two sequences; each
part of the invariant is then kept by the host's steps and by the MCU's, in a lemma
each. `SessionAssumption` has one line that the proof asked for, `Chunks >= 1`: a
dictionary is never empty, and if it were, the empty chunk that ends it could be one
an earlier session left. `IInv` was checked by TLC first, with two restarts too.

### Only model-checked

- Liveness (`DispatchGoesOn`, `FlagServed`, `EveryCommandAnswered`,
  `ReportDelivered`, `WatchdogFed`, `DefaultsReached`, `FanStops`): TLAPS proves neither fairness
  arguments nor ENABLED. Of the last three the measure or the bound behind them is proved
  (`ConsoleWorkShrinks`, `PwmStartsOverForCause`, `FanCooldownKept`).
- What a recursive definition computes for all inputs would need induction over
  data, which is out of the provers' reach; no module here has one.

## 5. Assumptions of the models

- Of Klipper's scheduler, which `timer.c` calls and this repository does not hold:
  `timer_dispatch_many` runs the head of its list at once and goes on while timers are due
  (its limit on repeats, and the deferral it leads to, are not modelled); what it does with
  interrupts while it waits for a timer leaves their depth as it was; `sched_add_timer` puts
  a placeholder at the head and kicks when the new timer comes first; a shutdown is raised
  from commands, timers and tasks, also inside `sched_add_timer`'s `irq_save`, disables
  interrupts on the jump, and its handler enables them once. How many sections that
  leaves open is a choice of 0 to 2. `irq_wait` releases one level before it blocks
  (`timer.c:185-187`), so where one is left open the model's task sleeps, and goes on,
  with interrupts masked. `MaskBalance` says what holds then: the board adds no section
  of its own. No promise about service or lateness is made of that state.
- A user's timer names a next deadline less than half an epoch ahead of the clock, which
  is Klipper's guarantee (`timer_math.h:14-15`). The periodic timer, run early by stray
  wakeups, moves a period further ahead with each; `Room` bounds how far, which the
  firmware's numbers (2^31 ticks against a period of at most a tenth of a second) meet
  only after thousands of stray wakeups in a row.
- No profile's dictionary has `clear_shutdown` (`tools/validate_build.py` lists what
  it must have), so a shutdown ends with a reset only.
- `emergency_stop` raises a shutdown inside a shutdown. `PandaSafety`, `PandaBoard`,
  `Spi` and `Buses` allow that; `TimerBridge`, `Console` and `HardPwm` have one
  shutdown between resets (and `HardPwm` the ones its own shutdown function raises).
- With SPI compiled in, shutdown messages of Klipper's objects may go through devices
  that `spi_shutdown` has removed, when the linker puts it first (`spi.c:194`). The
  model lets that happen, and `HandlesKept` is about the time before a shutdown.
- `PassTicks` bounds what Klipper's tasks and timers do between two polls. A
  NeoPixel send or an I2C transfer blocks the task for up to 20 and 50 ms
  (`neopixel_rmt.c:105`, `i2c.c:74`): `Slack` counts that only if `PassTicks` does.
- A driver call of ESP-IDF either does what it says or fails and changes nothing,
  except where the code's own sequence shows otherwise. A duty set whose update the driver
  then refuses (`hard_pwm.c:174`) has not taken effect.
- In `FanControl` ticks of the RTOS and phases of a half-cycle advance
  independently, and `fan_task` is late by `MaxBehind` ticks at most.
- In `HostSession` a reply comes before its acknowledgement, as Klipper's
  dispatcher sends them, and on a clean link an answer comes within the tools' five
  seconds. `MaxRun <= SeqCount` covers every tool at its default; `latency_probe.py:136`
  takes any `--burst`, and above 16 requests its numbers come round within one run. The
  commands a shut-down MCU runs are those Klipper marks so (`InShutdown`).
- Widths are parameters. Nothing is proved of the values a 32-bit overflow
  would give elsewhere than in timestamps and the RTOS tick; the code's other
  products (duty, sums of readings) stay far below their widths.

## 6. Not modelled, and why

- `tools/reconnect_test.py`: re-enumeration of a USB device by the host's operating
  system.
- `validate_build.py`, `run_klippy_test.py`, `build.sh`, the extraction of
  compile-time requests: build-time text processing with no state over time. One
  hazard is worth knowing: the dictionary is extracted from the objects of an earlier
  pass (`build.sh:43`), so a stale pass builds a firmware whose dictionary is not
  its own.
- `gpio_in_*`: no command source that calls it is compiled in.
- Kconfig, profiles, targets and printer configurations: constants.
- The watchdog's five seconds: it is a reset at any moment, which `esp_restart`
  is already (`PandaBoard`, and `McuRestart` of `HostSession`). `WatchdogFed` says
  the console cannot keep the task from feeding it; how long a pass takes is the
  assumption on `PassTicks`.
- Which objects a host has configured: in `HostSession` a command is accepted or
  not, so that after a restart in mid-session the firmware's own refusal of
  commands to objects it does not know is left out.
- Two things of the board: `gpio_reset_pin` enables the relay pin's pull-up until
  the next call drives it low (`safety.c:27`), and a relay pulse shorter than
  `fan_task`'s 500 ms poll is never seen (`fan.c:142`).
- Formatting, logging, configuration values of drivers, and payload contents.

## 7. Plan

Done, in this order: the timer bridge and its service (the system's heart), the
console, the outputs and the relay lockout, their proofs, PWM, the fan, NeoPixel,
ADC, I2C and the host session; then the interlock the board implements, the board
composed with its fan, SPI, SPI with I2C, the loss of console output, the watchdog's
feeding and the MCU's restarts in a session, with proofs of the board and the buses; last the waves the PWM outputs implement.

The proofs came after: the timer bridge with its service, the console, the outputs and
the board, PWM, the fan, NeoPixel, the buses, the ADC, and the host session; then the
refinement of `PwmWaves` and the safety halves of what must end (`WorkShrinks`,
`StartsOverForCause`, `CooldownKept`). Every safety property that a passing run checks
is a theorem, each of the three refinements too; liveness stays with TLC.

Left, extending the models: `PassTicks` given by the stretch a NeoPixel send or an I2C
transfer blocks instead of assumed, and the host's objects in a session, so that a
restart shows in the refusals of the firmware.
