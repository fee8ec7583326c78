---------------------------- MODULE PandaSafety ----------------------------
(***************************************************************************)
(* Digital outputs and the heater relay of the Panda Breath board: gpio.c, *)
(* which every Klipper command that drives a pin goes through, safety.c,   *)
(* which takes over the relay's pin, and the boot and reset paths around   *)
(* them (main.c, internal.c).                                              *)
(*                                                                         *)
(* The commands are Klipper's gpiocmds.c, outside this repository: they    *)
(* are modelled by the gpio.c calls they make.  Everything here runs in    *)
(* the Klipper task, one command or shutdown function at a time; shutdown  *)
(* functions run in an order the linker chooses.                           *)
(***************************************************************************)
EXTENDS Integers, FiniteSets, FiniteSetsExt

CONSTANTS
  PlainPins,     \* output pins other than the relay's
  Fan,           \* GPIO_FAN, one of them
  Oids,          \* object ids the host may configure as digital outputs
  Values         \* 32-bit arguments a command may carry for a level

Relay   == "relay"                  \* GPIO_RELAY
Invalid == "invalid"                \* a number that is no output pin
Pins    == PlainPins \cup {Relay}
Float   == 2                        \* not driven: the board pulls it down
None    == [pin |-> Invalid, default |-> 0]

ASSUME PinAssumption   == {Relay, Invalid} \cap PlainPins = {} /\ Fan \in PlainPins
ASSUME OidAssumption   == Oids \subseteq Nat /\ IsFiniteSet(Oids)
ASSUME ValueAssumption == Values \subseteq Nat

VARIABLES
  level,         \* what each pin is driven to
  state,         \* gpio_lines[].state, the shadow that a toggle reads
  relay_level,   \* safety.c's relay_level
  outs,          \* external: the digital outputs that are configured
  is_shutdown,   \* external: sched_is_shutdown()
  handlers,      \* external: shutdown functions still to run
  phase,         \* "rom" before app_main, then "run"
  heat_asked     \* history: the relay has been asked for since boot

pins == <<level, state, relay_level>>
vars == <<pins, outs, is_shutdown, handlers, phase, heat_asked>>

Running  == phase = "run" /\ ~is_shutdown
Stopped  == is_shutdown /\ handlers = {}

ShutdownFunctions == {"panda_safety_shutdown", "digital_out_shutdown"}

Bit(v) == IF v = 0 THEN 0 ELSE 1    \* C's !!v

\* shutdown(): control leaves the command and the shutdown functions are due.
Shutdown(raised) ==
  /\ is_shutdown' = (is_shutdown \/ raised)
  /\ handlers' = IF raised THEN ShutdownFunctions ELSE handlers

-----------------------------------------------------------------------------
\* Mutants: slips in gpio.c and safety.c.

\* The relay's pin driven like any other.
handles_no_pin(p) == FALSE

\* A heat request dropped in silence.
raises_never(v) == FALSE

\* The shadow not taken back from panda_safety_read.
shadow_as_asked(p, v) == Bit(v)

\* Of outputs that share a pin the first one's default left standing.
first_oid_wins(p) ==
  LET on == {o \in Oids : outs[o].pin = p}
  IN  IF on = {} THEN {} ELSE {Min(on)}

-----------------------------------------------------------------------------
(***************************************************************************)
(* Out of reset pins float and memory is cleared.  app_main drives the     *)
(* relay and the fan low before it creates the task that runs the rest.    *)
(***************************************************************************)
Init ==
  /\ level = [p \in Pins |-> Float]
  /\ state = [p \in Pins |-> 0]
  /\ relay_level = 0
  /\ outs = [o \in Oids |-> None]
  /\ is_shutdown = FALSE /\ handlers = {}
  /\ phase = "rom" /\ heat_asked = FALSE

panda_safety_early_init ==
  /\ phase = "rom"
  /\ level' = [level EXCEPT ![Relay] = 0, ![Fan] = 0]
  /\ relay_level' = 0
  /\ phase' = "run"
  /\ UNCHANGED <<state, outs, is_shutdown, handlers, heat_asked>>

-----------------------------------------------------------------------------
panda_safety_handles_pin(p) == p = Relay

\* panda_safety_write's try_shutdown: it raises only while the firmware is
\* not shut down, and does not return when it does.
panda_safety_raises(v) == v # 0 /\ ~is_shutdown

\* The level a write leaves: the relay is driven low, whatever was asked.
driven(p, v) == IF panda_safety_handles_pin(p) THEN 0 ELSE Bit(v)

\* The shadow a write leaves; panda_safety_read gives 0, whatever was asked.
shadow(p, v) == IF panda_safety_handles_pin(p) THEN 0 ELSE Bit(v)

write_raises(p, v) == panda_safety_handles_pin(p) /\ panda_safety_raises(v)

\* A write whose raise, if any, leaves the shadow at "kept": gpio_out_setup
\* has already stored the asked value when it writes.
gpio_out_write(p, v, kept) ==
  /\ level' = [level EXCEPT ![p] = driven(p, v)]
  /\ state' = [state EXCEPT ![p] =
                 IF write_raises(p, v) THEN kept ELSE shadow(p, v)]
  /\ relay_level' = IF panda_safety_handles_pin(p) THEN 0 ELSE relay_level
  /\ heat_asked' = (heat_asked \/ (p = Relay /\ v # 0))

\* gpio_out_setup with whether the rest of its command raises: an invalid pin
\* is refused before anything is driven.
gpio_out_setup(p, v, fails) ==
  IF p = Invalid
  THEN UNCHANGED <<pins, heat_asked>> /\ Shutdown(TRUE)
  ELSE gpio_out_write(p, v, Bit(v)) /\ Shutdown(write_raises(p, v) \/ fails)

setup_returns(p, v) == p # Invalid /\ ~write_raises(p, v)

-----------------------------------------------------------------------------
\* config_digital_out: the pin is set up first, then the oid is allocated,
\* which fails when it is taken.
config_digital_out(o, p, v, d) ==
  LET taken == outs[o] # None
  IN  /\ Running
      /\ gpio_out_setup(p, v, taken)
      /\ outs' = IF setup_returns(p, v) /\ ~taken
                 THEN [outs EXCEPT ![o] = [pin |-> p, default |-> d]]
                 ELSE outs
      /\ UNCHANGED phase

\* set_digital_out: a pin driven once, without an object.
set_digital_out(p, v) ==
  /\ Running
  /\ gpio_out_setup(p, v, FALSE)
  /\ UNCHANGED <<outs, phase>>

\* update_digital_out, and the end of a queued digital output.
update_digital_out(o, v) ==
  /\ Running /\ outs[o] # None
  /\ gpio_out_write(outs[o].pin, v, state[outs[o].pin])
  /\ Shutdown(write_raises(outs[o].pin, v))
  /\ UNCHANGED <<outs, phase>>

\* A toggle of software PWM or of a stepper pin: the value is the shadow's.
gpio_out_toggle(o) ==
  LET p == outs[o].pin
      v == 1 - state[p]
  IN  /\ Running /\ outs[o] # None
      /\ gpio_out_write(p, v, state[p])
      /\ Shutdown(write_raises(p, v))
      /\ UNCHANGED <<outs, phase>>

\* Any other command or timer that raises a shutdown; emergency_stop raises
\* one inside a shutdown too, whose functions then all run again.
OtherShutdown ==
  /\ phase = "run"
  /\ Shutdown(TRUE)
  /\ UNCHANGED <<pins, outs, phase, heat_asked>>

-----------------------------------------------------------------------------
panda_safety_shutdown ==
  /\ "panda_safety_shutdown" \in handlers
  /\ handlers' = handlers \ {"panda_safety_shutdown"}
  /\ level' = [level EXCEPT ![Relay] = 0]
  /\ relay_level' = 0
  /\ UNCHANGED <<state, outs, is_shutdown, phase, heat_asked>>

\* The oid whose default is written last to p, the oids being walked upwards.
last_oid_on(p) ==
  LET on == {o \in Oids : outs[o].pin = p}
  IN  IF on = {} THEN {} ELSE {Max(on)}

\* The value p is last written with, where there is one.
final_default(p) == outs[CHOOSE o \in last_oid_on(p) : TRUE].default

\* Every output is written with its default; a write of the relay goes
\* through panda_safety_write, whose try_shutdown now does nothing.
digital_out_shutdown ==
  /\ "digital_out_shutdown" \in handlers
  /\ handlers' = handlers \ {"digital_out_shutdown"}
  /\ level' = [p \in Pins |-> IF last_oid_on(p) = {} THEN level[p]
                              ELSE driven(p, final_default(p))]
  /\ state' = [p \in Pins |-> IF last_oid_on(p) = {} THEN state[p]
                              ELSE shadow(p, final_default(p))]
  /\ relay_level' = IF last_oid_on(Relay) = {} THEN relay_level ELSE 0
  /\ UNCHANGED <<outs, is_shutdown, phase, heat_asked>>

-----------------------------------------------------------------------------
\* esp_restart: everything as out of reset.
esp_restart ==
  /\ level' = [p \in Pins |-> Float]
  /\ state' = [p \in Pins |-> 0]
  /\ relay_level' = 0
  /\ outs' = [o \in Oids |-> None]
  /\ is_shutdown' = FALSE /\ handlers' = {}
  /\ phase' = "rom" /\ heat_asked' = FALSE

\* reset is taken in shutdown too; so is the watchdog's reset, at any step.
command_reset == phase = "run" /\ esp_restart

\* config_reset outside of a shutdown raises one in place of restarting.
command_config_reset ==
  \/ Stopped /\ esp_restart
  \/ /\ Running
     /\ Shutdown(TRUE)
     /\ UNCHANGED <<pins, outs, phase, heat_asked>>

Command ==
  \/ \E p \in Pins \cup {Invalid}, v \in Values :
       \/ set_digital_out(p, v)
       \/ \E o \in Oids, d \in {0, 1} : config_digital_out(o, p, v, d)
  \/ \E o \in Oids : gpio_out_toggle(o) \/ \E v \in Values : update_digital_out(o, v)
  \/ command_config_reset
  \/ OtherShutdown

Next ==
  \/ panda_safety_early_init
  \/ Command
  \/ panda_safety_shutdown
  \/ digital_out_shutdown
  \/ command_reset

Spec == Init /\ [][Next]_vars

-----------------------------------------------------------------------------
(***************************************************************************)
(* Levels are levels, shadows are truth values (a toggle computes !state), *)
(* and shutdown functions are due only in a shutdown.                      *)
(***************************************************************************)
TypeOK ==
  /\ level \in [Pins -> {0, 1, Float}]
  /\ state \in [Pins -> {0, 1}]
  /\ relay_level = 0
  /\ outs \in [Oids -> [pin : Pins, default : {0, 1}] \cup {None}]
  /\ handlers \subseteq ShutdownFunctions
  /\ is_shutdown \in BOOLEAN /\ heat_asked \in BOOLEAN
  /\ phase \in {"rom", "run"}

(***************************************************************************)
(* The relay is never energised: not by a configuration, an update, a      *)
(* toggle, a shutdown default of 1, or a reset in the middle of any.       *)
(***************************************************************************)
RelayNeverHigh == level[Relay] # 1

(***************************************************************************)
(* A heat request, on whichever path it reaches the relay's pin, latches a *)
(* shutdown that only a reset clears (safety.c:47-48).                     *)
(***************************************************************************)
HeatRequestLatches == heat_asked => is_shutdown

(***************************************************************************)
(* A toggle flips the pin: outside of a shutdown's own steps the shadow of *)
(* a configured output is what the pin is driven to, the relay included.   *)
(***************************************************************************)
ShadowAgrees ==
  Running \/ Stopped =>
    \A o \in Oids : outs[o] # None => state[outs[o].pin] = level[outs[o].pin]

(***************************************************************************)
(* Once a shutdown has run its functions, in whatever order, every output  *)
(* rests at the default of the last object on its pin, and the relay off.  *)
(***************************************************************************)
DefaultsAfterShutdown ==
  Stopped =>
    /\ level[Relay] = 0
    /\ \A o \in Oids :
         (outs[o].pin \in PlainPins /\ \A x \in Oids : outs[x].pin = outs[o].pin => x <= o)
           => level[outs[o].pin] = outs[o].default

(***************************************************************************)
(* All of the above is the interlock that safety.c:5-8 promises: the relay *)
(* never on, and a heat request that locks the machine until a reset.      *)
(***************************************************************************)
I == INSTANCE Interlock WITH
       on <- level[Relay] = 1, asked <- heat_asked, locked <- is_shutdown

InterlockSpec == I!Spec
=============================================================================
