----------------------------- MODULE PandaBoard -----------------------------
(***************************************************************************)
(* The Panda Breath board with KLIPPER_PANDA_LEGACY_FAN: PandaSafety's     *)
(* Klipper task and FanControl's interrupt, timers and task on one set of  *)
(* pins.  The fan reads the relay's pin, which safety.c locks, and shares  *)
(* GPIO_FAN with whatever object the host configures there.                *)
(***************************************************************************)
EXTENDS PandaSafety

CONSTANTS
  MinPeriod, MaxPeriod, NominalHalf, MinDelay, PulseTime,
  Active, Cooldown, CooldownTicks, TickWrap, MaxBehind

VARIABLES
  s_duty, s_half, seen, since, fire, off, task, tick,
  heater_was_on, heater_off_tick, behind, cooled, late,
  fan_up         \* fan_init has been run

F == INSTANCE FanControl WITH relay <- level[Relay], gate <- level[Fan]

statics   == <<s_duty, s_half, seen, since, fire, off, task, heater_was_on,
               heater_off_tick, behind, cooled, late>>
board     == <<vars, statics, tick, fan_up>>

\* fan.c's variables, timers and task as they are out of reset.
FanOutOfReset ==
  /\ s_duty = 0 /\ s_half = NominalHalf
  /\ seen = FALSE /\ since = 0 /\ fire = F!Idle /\ off = F!Idle /\ task = "idle"
  /\ heater_was_on = FALSE /\ heater_off_tick = 0 /\ behind = 1
  /\ cooled = 0 /\ late = 0 /\ tick = 0 /\ fan_up = FALSE

FanRestarts ==
  /\ s_duty' = 0 /\ s_half' = NominalHalf
  /\ seen' = FALSE /\ since' = 0 /\ fire' = F!Idle /\ off' = F!Idle /\ task' = "idle"
  /\ heater_was_on' = FALSE /\ heater_off_tick' = 0 /\ behind' = 1
  /\ cooled' = 0 /\ late' = 0 /\ tick' = 0 /\ fan_up' = FALSE

BoardInit == Init /\ FanOutOfReset

-----------------------------------------------------------------------------
\* app_main, then main_task up to the scheduler: the pins first, then the fan.
EarlyInit == panda_safety_early_init /\ UNCHANGED <<statics, tick, fan_up>>

fan_init ==
  /\ phase = "run" /\ ~fan_up
  /\ fan_up' = TRUE
  /\ level' = [level EXCEPT ![Fan] = 0]
  /\ UNCHANGED <<state, relay_level, outs, is_shutdown, handlers, phase, heat_asked,
                 statics, tick>>

\* Everything Klipper does; a reset clears the fan with the rest.
Klipper ==
  /\ fan_up
  /\ Command \/ panda_safety_shutdown \/ digital_out_shutdown
  /\ IF phase' = "rom" THEN FanRestarts ELSE UNCHANGED <<statics, tick, fan_up>>

Reset == command_reset /\ FanRestarts

\* The interrupt, the timers and the fan's task, over the pins they share.
FanSteps ==
  \/ F!zcd_isr \/ F!TakeFire \/ F!TakeOff
  \/ F!gate_fire_cb \/ F!gate_fire_cb_end \/ F!gate_off_cb
  \/ F!Passes \/ F!fan_task \/ F!RtosTick

Blow ==
  /\ fan_up
  /\ \E l \in {0, 1} : level' = [level EXCEPT ![Fan] = l]
  /\ FanSteps
  /\ UNCHANGED <<state, relay_level, outs, is_shutdown, handlers, phase, heat_asked, fan_up>>

BoardNext == EarlyInit \/ fan_init \/ Klipper \/ Reset \/ Blow

BoardSpec == BoardInit /\ [][BoardNext]_board

-----------------------------------------------------------------------------
(***************************************************************************)
(* The lock on the relay holds the fan too: no zero crossing, timer or     *)
(* turn of fan_task makes it fire, so a pin the host has configured on     *)
(* GPIO_FAN is driven by the host alone (fan.c:12-16).                     *)
(***************************************************************************)
FanHeld == s_duty = 0 /\ fire = F!Idle /\ off = F!Idle /\ task = "idle" /\ ~heater_was_on
=============================================================================
