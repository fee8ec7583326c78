----------------------------- MODULE FanControl -----------------------------
(***************************************************************************)
(* The Panda Breath profile's TRIAC fan (fan.c): an interrupt at each zero *)
(* crossing of the mains arms a one-shot timer, whose callback raises the  *)
(* TRIAC's gate and arms a second one that lowers it; a task sets the duty *)
(* from what it reads of the heater relay.                                 *)
(*                                                                         *)
(* The board has one core.  The interrupt may land between any two steps   *)
(* of the timer task, and that task preempts fan_task, so fan_task's body  *)
(* runs only while the timer task is idle.  Phases of a half-cycle and     *)
(* RTOS ticks are clocks far apart in scale, so they advance independently.*)
(***************************************************************************)
EXTENDS Integers

CONSTANTS
  MinPeriod, MaxPeriod,  \* 4000 and 12000: half-cycles believed
  NominalHalf,           \* 8333: the half-cycle assumed at first
  MinDelay,              \* MIN_PHASE_DELAY_US
  PulseTime,             \* GATE_PULSE_US
  Active, Cooldown,      \* FAN_DUTY_ACTIVE and FAN_DUTY_COOLDOWN, in percent
  CooldownTicks,         \* FAN_COOLDOWN_MS
  TickWrap,              \* 2^32, the width of the RTOS tick
  MaxBehind              \* most ticks between two turns of fan_task's loop

ASSUME FanAssumption ==
  /\ MinPeriod \in Nat \ {0} /\ MaxPeriod \in Nat
  /\ NominalHalf \in MinPeriod .. MaxPeriod
  /\ MinDelay \in 1 .. MinPeriod /\ PulseTime \in Nat \ {0}
  /\ Cooldown \in 1 .. 100 /\ Active \in 1 .. 100
  /\ CooldownTicks \in Nat \ {0} /\ MaxBehind \in Nat \ {0}
  /\ TickWrap \in Nat /\ TickWrap >= CooldownTicks + MaxBehind

Idle == -1                   \* a timer that is not armed

VARIABLES
  relay,             \* external: level of the relay's pin
  s_duty, s_half,    \* s_duty and s_half_cycle_us
  seen, since,       \* s_last_zcd_us > 0, and the time since it (capped)
  fire, off,         \* external: time left of each esp_timer, or Idle
  task,              \* external: what the timer task is in the middle of
  gate,              \* level of GPIO_FAN
  tick,              \* external: xTaskGetTickCount()
  heater_was_on, heater_off_tick,
  behind,            \* ticks since the last turn of fan_task's loop
  cooled,            \* history: ticks since fan_task saw the heater off
  late               \* history: pulses begun since the duty went to zero

phase == <<s_half, seen, since, fire, off, task, gate>>
fan   == <<s_duty, heater_was_on, heater_off_tick, behind>>
vars  == <<relay, phase, fan, tick, cooled, late>>

AtMost(x, bound) == IF x > bound THEN bound ELSE x

\* Where the history of a cooldown ends.
CooldownBound == CooldownTicks + MaxBehind

Init ==
  /\ relay = 0 /\ s_duty = 0 /\ s_half = NominalHalf
  /\ seen = FALSE /\ since = 0 /\ fire = Idle /\ off = Idle
  /\ task = "idle" /\ gate = 0
  /\ tick \in 0 .. TickWrap - 1
  /\ heater_was_on = FALSE /\ heater_off_tick = 0 /\ behind = 1
  /\ cooled = 0 /\ late = 0

-----------------------------------------------------------------------------
\* Mutants: slips in fan.c.

\* The interrupt arms the timer at zero duty too.
armed_always(d) == TRUE

\* "Cancel what is pending" taken to mean the pulse's end as well.
isr_cancels_both(delay) == fire' = delay /\ off' = Idle

\* The tick compared with a deadline, where the code compares a difference.
cooldown_over_deadline == tick >= (heater_off_tick + CooldownTicks) % TickWrap

\* The heater's last state not updated when it goes off.
was_on_kept == heater_was_on

-----------------------------------------------------------------------------
\* Phase-angle delay at duty d, in the half-cycle last measured.
delay_for(d, half) ==
  LET delay == ((100 - d) * half) \div 100
  IN  IF delay < MinDelay THEN MinDelay ELSE delay

fires_at(d) == d > 0

\* esp_timer_stop then esp_timer_start_once: a timer that has expired and
\* whose callback is about to run is no longer armed, and stays due.
rearm(delay) == fire' = delay /\ UNCHANGED off

\* The half-cycle, measured anew when the time since the last edge is sane.
half_measured == IF seen /\ since \in MinPeriod .. MaxPeriod THEN since ELSE s_half

\* An edge on the zero-cross input, genuine or not.
zcd_isr ==
  /\ s_half' = half_measured
  /\ seen' = TRUE /\ since' = 0
  /\ IF fires_at(s_duty) THEN rearm(delay_for(s_duty, half_measured))
                         ELSE UNCHANGED <<fire, off>>
  /\ UNCHANGED <<relay, task, gate, fan, tick, cooled, late>>

\* The timer task takes an expired timer off its list.
TakeFire ==
  /\ task = "idle" /\ fire = 0
  /\ fire' = Idle /\ task' = "fire"
  /\ UNCHANGED <<relay, s_half, seen, since, off, gate, fan, tick, cooled, late>>

TakeOff ==
  /\ task = "idle" /\ off = 0
  /\ off' = Idle /\ task' = "off"
  /\ UNCHANGED <<relay, s_half, seen, since, fire, gate, fan, tick, cooled, late>>

\* gate_fire_cb, in two steps: the level, then the pulse's end.
gate_fire_cb ==
  /\ task = "fire"
  /\ gate' = 1 /\ task' = "armoff"
  /\ late' = IF s_duty = 0 THEN AtMost(late + 1, 3) ELSE late
  /\ UNCHANGED <<relay, s_half, seen, since, fire, off, fan, tick, cooled>>

\* An armed timer refuses to be started: the earlier end stands.
off_after_fire == IF off = Idle THEN PulseTime ELSE off

gate_fire_cb_end ==
  /\ task = "armoff"
  /\ off' = off_after_fire
  /\ task' = "idle"
  /\ UNCHANGED <<relay, s_half, seen, since, fire, gate, fan, tick, cooled, late>>

gate_off_cb ==
  /\ task = "off"
  /\ gate' = 0 /\ task' = "idle"
  /\ UNCHANGED <<relay, s_half, seen, since, fire, off, fan, tick, cooled, late>>

\* The timers count down; one that has expired waits for the timer task.
Passes ==
  LET down(t) == IF t > 0 THEN t - 1 ELSE t
  IN  /\ since' = AtMost(since + 1, MaxPeriod + 1)
      /\ fire' = down(fire) /\ off' = down(off)
      /\ UNCHANGED <<relay, s_half, seen, task, gate, fan, tick, cooled, late>>

-----------------------------------------------------------------------------
\* (xTaskGetTickCount() - heater_off_tick) * portTICK_PERIOD_MS, unsigned.
cooldown_over == (tick - heater_off_tick) % TickWrap >= CooldownTicks

was_on_after_off == FALSE

\* One turn of fan_task's loop.
fan_task ==
  /\ behind > 0 /\ task = "idle"
  /\ behind' = 0
  /\ \/ /\ relay = 1
        /\ heater_was_on' = TRUE /\ s_duty' = Active
        /\ cooled' = 0
        /\ UNCHANGED heater_off_tick
     \/ /\ relay = 0 /\ heater_was_on
        /\ heater_was_on' = was_on_after_off
        /\ heater_off_tick' = tick /\ s_duty' = Cooldown
        /\ cooled' = 0
     \/ /\ relay = 0 /\ ~heater_was_on
        /\ s_duty' = IF s_duty > 0 /\ cooldown_over THEN 0 ELSE s_duty
        /\ UNCHANGED <<heater_was_on, heater_off_tick, cooled>>
  /\ late' = IF s_duty' = 0 THEN late ELSE 0
  /\ UNCHANGED <<relay, phase, tick>>

\* A tick of the RTOS (one vTaskDelay of the loop): fan_task becomes ready.
RtosTick ==
  /\ behind < MaxBehind
  /\ tick' = (tick + 1) % TickWrap
  /\ behind' = behind + 1
  /\ cooled' = AtMost(cooled + 1, CooldownBound)
  /\ UNCHANGED <<relay, phase, s_duty, heater_was_on, heater_off_tick, late>>

SwitchRelay == relay' = 1 - relay /\ UNCHANGED <<phase, fan, tick, cooled, late>>

Next ==
  \/ zcd_isr \/ TakeFire \/ TakeOff
  \/ gate_fire_cb \/ gate_fire_cb_end \/ gate_off_cb
  \/ Passes \/ fan_task \/ RtosTick \/ SwitchRelay

Spec == Init /\ [][Next]_vars

\* Time passes, the timer task has the highest priority of all, and fan_task
\* runs whenever Klipper's task sleeps, which it does at every irq_wait.
FairSpec ==
  /\ Spec
  /\ WF_vars(Passes) /\ WF_vars(RtosTick)
  /\ WF_vars(TakeFire) /\ SF_vars(TakeOff)
  /\ WF_vars(gate_fire_cb) /\ WF_vars(gate_fire_cb_end) /\ WF_vars(gate_off_cb)
  /\ SF_vars(fan_task)

-----------------------------------------------------------------------------
(***************************************************************************)
(* A raised gate has its end on the way: whatever pulses and zero          *)
(* crossings overlap, no gate is raised without a timer that lowers it.    *)
(***************************************************************************)
GateEnds == gate = 1 => off # Idle \/ task \in {"armoff", "off"}

(***************************************************************************)
(* After the duty goes to zero at most one pulse more is begun, that of    *)
(* the half-cycle already armed.                                           *)
(***************************************************************************)
OneLatePulse == late <= 1

(***************************************************************************)
(* The fan runs on for its cooldown and no longer: it is not stopped before*)
(* the cooldown is over, and the first turn of fan_task's loop after it    *)
(* stops it, though the tick counter wraps in between (fan.c:132-143).     *)
(***************************************************************************)
CooldownKept ==
  [][/\ s_duty > 0 /\ s_duty' = 0 => cooled >= CooldownTicks
     /\ s_duty > 0 /\ ~heater_was_on => cooled < CooldownBound]_vars

(***************************************************************************)
(* A heater that stays off ends in a fan that is off: cooldown over, no    *)
(* timer armed, gate low.                                                  *)
(***************************************************************************)
FanStops == <>[](relay = 0) => <>[](s_duty = 0 /\ fire = Idle /\ gate = 0)

(***************************************************************************)
(* No pulse begins sooner than the minimum delay after a zero crossing     *)
(* ("prevents firing too close to zero", fan.c:40).                        *)
(***************************************************************************)
MinPhaseDelay == [][gate = 0 /\ gate' = 1 => since >= MinDelay]_vars
=============================================================================
