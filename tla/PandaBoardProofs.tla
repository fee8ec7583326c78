-------------------------- MODULE PandaBoardProofs --------------------------
(***************************************************************************)
(* The relay lockout and the shutdown defaults of PandaSafety, for every   *)
(* set of pins, objects and argument values; then the whole Panda Breath   *)
(* board with its fan, which keeps what PandaSafety keeps: its invariant   *)
(* carries over because the fan never drives the pins, which in turn holds *)
(* because the relay is off.                                               *)
(***************************************************************************)
EXTENDS PandaBoard, TLAPS

\* The relay is driven low from early init on.
RelayInv == level[Relay] # 1 /\ (phase = "run" => level[Relay] = 0)

\* Objects exist, and shutdowns happen, only after boot; shutdown functions are
\* due only in a shutdown.
BootInv == /\ phase = "rom" => ~is_shutdown /\ ~heat_asked /\ \A o \in Oids : outs[o] = None
           /\ ~is_shutdown => handlers = {}

\* Shadows agree unless the walk over the outputs is still to come.
ShadowInv ==
  "digital_out_shutdown" \notin handlers =>
    \A o \in Oids : outs[o] # None => state[outs[o].pin] = level[outs[o].pin]

\* The last object on a pin other than the relay's.
LastOn(o) == outs[o].pin \in PlainPins
             /\ \A x \in Oids : outs[x].pin = outs[o].pin => x <= o

\* After that walk every output rests at its default.
DefaultInv ==
  is_shutdown /\ "digital_out_shutdown" \notin handlers =>
    \A o \in Oids : LastOn(o) => level[outs[o].pin] = outs[o].default

IInv == TypeOK /\ RelayInv /\ BootInv /\ HeatRequestLatches /\ ShadowInv /\ DefaultInv

-----------------------------------------------------------------------------
\* What an object is, and what a null one is not.
LEMMA Objects ==
  ASSUME TypeOK, NEW o \in Oids
  PROVE  /\ outs[o] # None => outs[o].pin \in Pins /\ outs[o].default \in {0, 1}
         /\ outs[o].pin \in Pins => outs[o] # None
  BY PinAssumption DEF TypeOK, None, Pins, Relay, Invalid

\* One write: types, the relay low, the shadow right unless the write raised.
LEMMA WriteEffect ==
  ASSUME TypeOK, NEW p \in Pins, NEW v, NEW kept \in {0, 1},
         phase = "run" => level[Relay] = 0, phase = "run",
         gpio_out_write(p, v, kept)
  PROVE  /\ level' \in [Pins -> {0, 1, Float}] /\ state' \in [Pins -> {0, 1}]
         /\ relay_level' = 0 /\ heat_asked' \in BOOLEAN
         /\ level'[Relay] = 0
         /\ ~write_raises(p, v) => state'[p] = level'[p]
         /\ \A q \in Pins \ {p} : state'[q] = state[q] /\ level'[q] = level[q]
  BY DEF TypeOK, gpio_out_write, driven, shadow, Bit, panda_safety_handles_pin,
         Pins, Float, write_raises

\* A heat request that does not raise meets a firmware already shut down.
LEMMA HeatRaises ==
  ASSUME NEW p, NEW v, NEW kept, gpio_out_write(p, v, kept), heat_asked \in BOOLEAN,
         ~is_shutdown, ~heat_asked
  PROVE  heat_asked' => write_raises(p, v)
  BY DEF gpio_out_write, write_raises, panda_safety_raises, panda_safety_handles_pin

\* A command that drives one pin, and at most configures an object on it,
\* keeps the invariant when it raises at least where its write does.
LEMMA CommandKeeps ==
  ASSUME IInv, Running, NEW p \in Pins, NEW v, NEW kept \in {0, 1},
         NEW raised \in BOOLEAN, write_raises(p, v) => raised,
         gpio_out_write(p, v, kept), Shutdown(raised), phase' = phase,
         outs' \in [Oids -> [pin : Pins, default : {0, 1}] \cup {None}],
         \A o \in Oids : outs'[o] = outs[o] \/ outs'[o].pin = p
  PROVE  IInv'
<1>1. /\ level' \in [Pins -> {0, 1, Float}] /\ state' \in [Pins -> {0, 1}]
      /\ relay_level' = 0 /\ heat_asked' \in BOOLEAN
      /\ level'[Relay] = 0
      /\ ~write_raises(p, v) => state'[p] = level'[p]
      /\ \A q \in Pins \ {p} : state'[q] = state[q] /\ level'[q] = level[q]
  BY WriteEffect DEF IInv, RelayInv, Running
<1>2. is_shutdown' = raised /\ handlers' = IF raised THEN ShutdownFunctions ELSE {}
  BY DEF Shutdown, Running, IInv, BootInv, TypeOK
<1>3. TypeOK'
  BY <1>1, <1>2 DEF TypeOK, IInv, ShutdownFunctions
<1>4. RelayInv' /\ BootInv'
  BY <1>1, <1>2 DEF RelayInv, BootInv, Running
<1>5. HeatRequestLatches'
  BY <1>2, HeatRaises DEF HeatRequestLatches, IInv, Running, TypeOK
<1>6. ShadowInv'
  <2>1. CASE raised
    BY <2>1, <1>2 DEF ShadowInv, ShutdownFunctions
  <2>2. CASE ~raised
    <3> SUFFICES ASSUME NEW o \in Oids, outs'[o] # None
                 PROVE  state'[outs'[o].pin] = level'[outs'[o].pin]
      BY DEF ShadowInv
    <3>1. CASE outs'[o].pin = p
      BY <3>1, <2>2, <1>1
    <3>2. CASE outs'[o].pin # p
      BY <3>2, <1>1, Objects DEF IInv, ShadowInv, BootInv, Running
    <3> QED BY <3>1, <3>2
  <2> QED BY <2>1, <2>2
<1>7. DefaultInv'
  BY <1>2 DEF DefaultInv, ShutdownFunctions
<1> QED BY <1>3, <1>4, <1>5, <1>6, <1>7 DEF IInv

\* A step that only raises a shutdown.
LEMMA RaiseKeeps ==
  ASSUME IInv, phase = "run", Shutdown(TRUE), UNCHANGED <<pins, outs, phase, heat_asked>>
  PROVE  IInv'
<1>1. is_shutdown' /\ handlers' = ShutdownFunctions
  BY DEF Shutdown
<1>2. TypeOK'
  BY <1>1 DEF IInv, TypeOK, Shutdown, pins, ShutdownFunctions
<1> QED BY <1>1, <1>2 DEF IInv, RelayInv, BootInv, HeatRequestLatches, ShadowInv,
                        DefaultInv, pins, Running, ShutdownFunctions

\* gpio_out_setup, refused or not.
LEMMA SetupKeeps ==
  ASSUME IInv, Running, NEW p \in Pins \cup {Invalid}, NEW v, NEW fails \in BOOLEAN,
         gpio_out_setup(p, v, fails), phase' = phase,
         outs' \in [Oids -> [pin : Pins, default : {0, 1}] \cup {None}],
         \A o \in Oids : outs'[o] = outs[o] \/ outs'[o].pin = p,
         p = Invalid => outs' = outs
  PROVE  IInv'
<1>1. CASE p = Invalid
  BY <1>1, RaiseKeeps DEF gpio_out_setup, Running
<1>2. CASE p # Invalid
  <2>1. p \in Pins /\ Bit(v) \in {0, 1}
    BY <1>2 DEF Bit
  <2>2. gpio_out_write(p, v, Bit(v)) /\ Shutdown(write_raises(p, v) \/ fails)
    BY <1>2 DEF gpio_out_setup
  <2>3. (write_raises(p, v) \/ fails) \in BOOLEAN
    BY DEF write_raises
  <2> QED BY <2>1, <2>2, <2>3, CommandKeeps
<1> QED BY <1>1, <1>2

-----------------------------------------------------------------------------
\* Out of reset the invariant holds.
LEMMA InitKeeps == Init => IInv
<1> SUFFICES ASSUME Init PROVE IInv
  OBVIOUS
<1>1. TypeOK
  BY DEF Init, TypeOK, Float, ShutdownFunctions
<1>2. RelayInv
  BY DEF Init, RelayInv, Pins, Float
<1>3. BootInv /\ HeatRequestLatches /\ ShadowInv /\ DefaultInv
  BY DEF Init, BootInv, HeatRequestLatches, ShadowInv, DefaultInv
<1> QED BY <1>1, <1>2, <1>3 DEF IInv

\* A restart leads to the state out of reset.
LEMMA RestartKeeps == esp_restart => IInv'
<1> SUFFICES ASSUME esp_restart PROVE IInv'
  OBVIOUS
<1>1. TypeOK'
  BY DEF esp_restart, TypeOK, Float, ShutdownFunctions
<1>2. RelayInv'
  BY DEF esp_restart, RelayInv, Pins, Float
<1>3. BootInv' /\ HeatRequestLatches' /\ ShadowInv' /\ DefaultInv'
  BY DEF esp_restart, BootInv, HeatRequestLatches, ShadowInv, DefaultInv
<1> QED BY <1>1, <1>2, <1>3 DEF IInv

\* Early init drives the relay low and no object exists yet.
LEMMA EarlyInitKeeps == IInv /\ panda_safety_early_init => IInv'
BY PinAssumption
   DEF panda_safety_early_init, IInv, TypeOK, RelayInv, BootInv, HeatRequestLatches,
       ShadowInv, DefaultInv, Pins, Float

\* The safety profile's shutdown function touches the relay only.
LEMMA SafetyShutdownKeeps == IInv /\ panda_safety_shutdown => IInv'
<1> SUFFICES ASSUME IInv, panda_safety_shutdown PROVE IInv'
  OBVIOUS
<1>1. level[Relay] = 0 /\ level' = level /\ is_shutdown
  BY DEF IInv, TypeOK, RelayInv, BootInv, panda_safety_shutdown, Pins
<1>2. TypeOK' /\ RelayInv' /\ BootInv' /\ HeatRequestLatches'
  BY <1>1 DEF IInv, TypeOK, RelayInv, BootInv, HeatRequestLatches,
              panda_safety_shutdown, ShutdownFunctions
<1>3. ShadowInv' /\ DefaultInv'
  BY <1>1 DEF IInv, ShadowInv, DefaultInv, LastOn, panda_safety_shutdown
<1> QED BY <1>2, <1>3 DEF IInv

\* The object that no other one on its pin exceeds is the last one written.
LEMMA LastWritten ==
  ASSUME TypeOK, NEW o \in Oids, LastOn(o)
  PROVE  last_oid_on(outs[o].pin) = {o}
<1> DEFINE on == {x \in Oids : outs[x].pin = outs[o].pin}
<1>1. o \in on /\ \A x \in on : x <= o
  BY DEF LastOn
<1>2. \A x \in on : x \in Int
  BY OidAssumption
<1>3. Max(on) = o
  BY <1>1, <1>2 DEF Max
<1> QED BY <1>1, <1>3 DEF last_oid_on

\* The walk over the outputs: the relay low, the others at their defaults.
LEMMA OutputShutdownKeeps == IInv /\ digital_out_shutdown => IInv'
<1> SUFFICES ASSUME IInv, digital_out_shutdown PROVE IInv'
  OBVIOUS
<1>1. /\ "digital_out_shutdown" \in handlers /\ outs' = outs
      /\ is_shutdown' = is_shutdown /\ phase' = phase /\ heat_asked' = heat_asked
      /\ handlers' = handlers \ {"digital_out_shutdown"}
  BY DEF digital_out_shutdown
<1>2. TypeOK' /\ is_shutdown /\ phase = "run"
  BY <1>1 DEF IInv, TypeOK, BootInv, digital_out_shutdown, driven, shadow, Bit,
              ShutdownFunctions, Float
<1>3. RelayInv' /\ BootInv' /\ HeatRequestLatches'
  BY <1>1, <1>2 DEF IInv, RelayInv, BootInv, HeatRequestLatches, TypeOK, Pins,
                    digital_out_shutdown, driven, panda_safety_handles_pin
<1>4. ASSUME NEW o \in Oids, last_oid_on(outs[o].pin) # {}, outs[o].pin \in Pins
      PROVE  state'[outs[o].pin] = level'[outs[o].pin]
  BY <1>4 DEF digital_out_shutdown, driven, shadow
<1>5. ASSUME NEW o \in Oids, outs[o].pin \in Pins
      PROVE  last_oid_on(outs[o].pin) # {}
  BY <1>5 DEF last_oid_on
<1>6. ShadowInv'
  BY <1>1, <1>4, <1>5, Objects DEF ShadowInv, IInv
<1>7. DefaultInv'
  <2> SUFFICES ASSUME NEW o \in Oids, LastOn(o)
               PROVE  level'[outs[o].pin] = outs[o].default
    BY <1>1 DEF DefaultInv, LastOn
  <2>1. last_oid_on(outs[o].pin) = {o}
    BY LastWritten DEF IInv
  <2>2. final_default(outs[o].pin) = outs[o].default
    BY <2>1 DEF final_default
  <2>3. outs[o].pin \in Pins /\ ~panda_safety_handles_pin(outs[o].pin)
    BY PinAssumption DEF LastOn, Pins, panda_safety_handles_pin
  <2>4. outs[o].default \in {0, 1}
    BY <2>3, Objects DEF IInv
  <2> QED BY <2>1, <2>2, <2>3, <2>4 DEF digital_out_shutdown, driven, Bit
<1> QED BY <1>2, <1>3, <1>6, <1>7 DEF IInv

-----------------------------------------------------------------------------
\* A command keeps the invariant.
LEMMA CommandsKeep == IInv /\ Command => IInv'
<1> SUFFICES ASSUME IInv, Command PROVE IInv'
  OBVIOUS
<1>1. ASSUME NEW p \in Pins \cup {Invalid}, NEW v \in Values, set_digital_out(p, v)
      PROVE  IInv'
  <2>1. outs' \in [Oids -> [pin : Pins, default : {0, 1}] \cup {None}]
    BY <1>1 DEF IInv, TypeOK, set_digital_out
  <2> QED BY <1>1, <2>1, SetupKeeps DEF set_digital_out
<1>2. ASSUME NEW p \in Pins \cup {Invalid}, NEW v \in Values, NEW o \in Oids,
             NEW d \in {0, 1}, config_digital_out(o, p, v, d)
      PROVE  IInv'
  <2> DEFINE taken == outs[o] # None
  <2>1. Running /\ gpio_out_setup(p, v, taken) /\ phase' = phase
    BY <1>2 DEF config_digital_out
  <2>2. CASE outs' = outs
    BY <2>1, <2>2, SetupKeeps DEF IInv, TypeOK
  <2>3. CASE outs' # outs
    <3>1. p # Invalid /\ outs' = [outs EXCEPT ![o] = [pin |-> p, default |-> d]]
      BY <1>2, <2>3 DEF config_digital_out, setup_returns
    <3>2. outs' \in [Oids -> [pin : Pins, default : {0, 1}] \cup {None}]
      BY <3>1 DEF IInv, TypeOK
    <3>3. \A x \in Oids : outs'[x] = outs[x] \/ outs'[x].pin = p
      BY <3>1 DEF IInv, TypeOK
    <3> QED BY <2>1, <3>1, <3>2, <3>3, SetupKeeps
  <2> QED BY <2>2, <2>3
<1>3. ASSUME NEW o \in Oids, NEW v, NEW kept, kept = state[outs[o].pin],
             Running, outs[o] # None, gpio_out_write(outs[o].pin, v, kept),
             Shutdown(write_raises(outs[o].pin, v)), UNCHANGED <<outs, phase>>
      PROVE  IInv'
  <2>1. outs[o].pin \in Pins /\ kept \in {0, 1}
    BY <1>3, Objects DEF IInv, TypeOK
  <2>2. write_raises(outs[o].pin, v) \in BOOLEAN
    BY DEF write_raises
  <2> QED BY <1>3, <2>1, <2>2, CommandKeeps DEF IInv, TypeOK
<1>4. ASSUME NEW o \in Oids, NEW v \in Values, update_digital_out(o, v) PROVE IInv'
  BY <1>3, <1>4 DEF update_digital_out
<1>5. ASSUME NEW o \in Oids, gpio_out_toggle(o) PROVE IInv'
  BY <1>3, <1>5 DEF gpio_out_toggle
<1>6. CASE command_config_reset
  BY <1>6, RestartKeeps, RaiseKeeps DEF command_config_reset, Running
<1>7. CASE OtherShutdown
  BY <1>7, RaiseKeeps DEF OtherShutdown
<1> QED BY <1>1, <1>2, <1>4, <1>5, <1>6, <1>7 DEF Command

\* Every step, and a stutter, keeps the invariant.
LEMMA NextKeeps == IInv /\ [Next]_vars => IInv'
<1> SUFFICES ASSUME IInv, [Next]_vars PROVE IInv'
  OBVIOUS
<1>1. CASE UNCHANGED vars
  BY <1>1 DEF IInv, TypeOK, RelayInv, BootInv, HeatRequestLatches, ShadowInv,
              DefaultInv, LastOn, vars, pins
<1>2. CASE command_reset
  BY <1>2, RestartKeeps DEF command_reset
<1> QED BY <1>1, <1>2, EarlyInitKeeps, CommandsKeep, SafetyShutdownKeeps,
           OutputShutdownKeeps DEF Next

\* The invariant holds in every reachable state.
LEMMA Invariance == Spec => []IInv
BY InitKeeps, NextKeeps, PTL DEF Spec

\* The relay is never energised, on any path through gpio.c and safety.c.
THEOREM RelayStaysOff == Spec => []RelayNeverHigh
<1>1. IInv => RelayNeverHigh
  BY DEF IInv, RelayInv, RelayNeverHigh
<1> QED BY <1>1, Invariance, PTL

\* Every heat request latches a shutdown (safety.c:46-52).
THEOREM HeatRequestsLatch == Spec => []HeatRequestLatches
<1>1. IInv => HeatRequestLatches
  BY DEF IInv
<1> QED BY <1>1, Invariance, PTL

\* The shadow a toggle reads is what its pin is driven to (gpio.c:66-82).
THEOREM ShadowsAgree == Spec => []ShadowAgrees
<1>1. IInv => ShadowAgrees
  BY DEF IInv, ShadowInv, ShadowAgrees, Running, Stopped, BootInv
<1> QED BY <1>1, Invariance, PTL

\* A finished shutdown leaves every output at its default and the relay off.
THEOREM ShutdownDefaults == Spec => []DefaultsAfterShutdown
<1>1. IInv => DefaultsAfterShutdown
  BY DEF IInv, TypeOK, RelayInv, BootInv, DefaultInv, LastOn, DefaultsAfterShutdown,
         Stopped
<1> QED BY <1>1, Invariance, PTL

-----------------------------------------------------------------------------
\* A command asks for heat only by raising, and otherwise leaves the latch.
LEMMA AskingLocks ==
  ASSUME IInv, Running, NEW p, NEW v, NEW kept, NEW raised \in BOOLEAN,
         write_raises(p, v) => raised,
         gpio_out_write(p, v, kept), Shutdown(raised)
  PROVE  /\ is_shutdown' = raised
         /\ heat_asked' # heat_asked => heat_asked' = TRUE /\ is_shutdown' = TRUE
BY HeatRaises DEF Shutdown, Running, IInv, TypeOK, BootInv, HeatRequestLatches,
                  gpio_out_write

\* What a command that sets a pin up does to the two latches.
LEMMA SetupLocks ==
  ASSUME IInv, Running, NEW p, NEW v, NEW fails \in BOOLEAN, gpio_out_setup(p, v, fails)
  PROVE  /\ is_shutdown' \in BOOLEAN
         /\ heat_asked' # heat_asked => heat_asked' = TRUE /\ is_shutdown' = TRUE
<1>1. CASE p = Invalid
  BY <1>1 DEF gpio_out_setup, Shutdown
<1>2. CASE p # Invalid
  <2>1. (write_raises(p, v) \/ fails) \in BOOLEAN
    BY DEF write_raises
  <2> QED BY <1>2, <2>1, AskingLocks DEF gpio_out_setup
<1> QED BY <1>1, <1>2

\* Latches only ever close, but for a restart, which opens both.
Latches ==
  \/ is_shutdown' = is_shutdown /\ heat_asked' = heat_asked
  \/ is_shutdown' = TRUE /\ (heat_asked' = heat_asked \/ heat_asked' = TRUE)
  \/ is_shutdown' = FALSE /\ heat_asked' = FALSE

\* Every step moves the latches as the interlock allows.
LEMMA StepLatches == IInv /\ [Next]_vars => Latches
<1> SUFFICES ASSUME IInv, [Next]_vars PROVE Latches
  OBVIOUS
<1>0. is_shutdown \in BOOLEAN
  BY DEF IInv, TypeOK
<1>1. CASE UNCHANGED vars
  BY <1>1 DEF vars, Latches
<1>2. ASSUME esp_restart PROVE Latches
  BY <1>2 DEF esp_restart, Latches
<1>3. ASSUME Running, NEW p, NEW v, NEW fails \in BOOLEAN, gpio_out_setup(p, v, fails)
      PROVE  Latches
  BY <1>0, <1>3, SetupLocks DEF Latches, Running
<1>4. ASSUME Running, NEW o \in Oids, NEW v, NEW kept,
             gpio_out_write(outs[o].pin, v, kept),
             Shutdown(write_raises(outs[o].pin, v))
      PROVE  Latches
  <2>1. write_raises(outs[o].pin, v) \in BOOLEAN
    BY DEF write_raises
  <2> QED BY <1>0, <1>4, <2>1, AskingLocks DEF Latches, Running
<1>5. CASE Command
  <2>1. ASSUME NEW p \in Pins \cup {Invalid}, NEW v \in Values, NEW o \in Oids,
               NEW d \in {0, 1}, config_digital_out(o, p, v, d)
        PROVE  Latches
    BY <2>1, <1>3 DEF config_digital_out
  <2>2. ASSUME NEW p \in Pins \cup {Invalid}, NEW v \in Values, set_digital_out(p, v)
        PROVE  Latches
    BY <2>2, <1>3 DEF set_digital_out
  <2>3. ASSUME NEW o \in Oids, gpio_out_toggle(o) PROVE Latches
    BY <2>3, <1>4 DEF gpio_out_toggle
  <2>4. ASSUME NEW o \in Oids, NEW v \in Values, update_digital_out(o, v) PROVE Latches
    BY <2>4, <1>4 DEF update_digital_out
  <2>5. CASE command_config_reset \/ OtherShutdown
    BY <2>5, <1>2 DEF command_config_reset, OtherShutdown, Shutdown, Latches
  <2> QED BY <1>5, <2>1, <2>2, <2>3, <2>4, <2>5 DEF Command
<1>6. CASE panda_safety_early_init \/ panda_safety_shutdown \/ digital_out_shutdown
  BY <1>6 DEF panda_safety_early_init, panda_safety_shutdown, digital_out_shutdown, Latches
<1> QED BY <1>1, <1>2, <1>5, <1>6 DEF Next, command_reset

\* A step of the latches under a relay that stays off is one of the interlock.
LEMMA InterlockStep ==
  ASSUME RelayInv, RelayInv', TypeOK, TypeOK', Latches
  PROVE  [I!Next]_(I!vars)
BY DEF RelayInv, TypeOK, Latches, I!Next, I!vars, I!Request, I!Lock, I!Restart

\* gpio.c and safety.c together are the interlock safety.c:5-8 promises.
THEOREM InterlockKept == Spec => InterlockSpec
<1>1. Init => I!Init
  BY DEF Init, I!Init, Pins, Float
<1>2. IInv /\ IInv' /\ [Next]_vars => [I!Next]_(I!vars)
  BY StepLatches, InterlockStep DEF IInv
<1> QED BY <1>1, <1>2, Invariance, PTL DEF Spec, InterlockSpec, I!Spec

-----------------------------------------------------------------------------
(***************************************************************************)
(* The whole board.                                                        *)
(***************************************************************************)

\* The fan comes up between early init and the first command.
FanBootInv ==
  /\ fan_up => phase = "run"
  /\ ~fan_up => ~is_shutdown /\ \A o \in Oids : outs[o] = None

BoardInv == IInv /\ FanHeld /\ FanBootInv

-----------------------------------------------------------------------------
\* A step of the fan leaves its own state as it was and the pins alone.
LEMMA FanRests ==
  ASSUME BoardInv, fan_up, FanSteps,
         NEW l \in {0, 1}, level' = [level EXCEPT ![Fan] = l]
  PROVE  FanHeld' /\ level' = level
<1>1. level[Relay] = 0 /\ level \in [Pins -> {0, 1, Float}] /\ Fan \in Pins /\ Fan # Relay
  BY PinAssumption DEF BoardInv, IInv, TypeOK, RelayInv, FanBootInv, Pins
<1>2. level'[Fan] = level[Fan] => level' = level
  BY <1>1
<1>3. CASE F!zcd_isr
  BY <1>2, <1>3 DEF BoardInv, FanHeld, F!zcd_isr, F!fires_at, F!fan
<1>4. CASE F!TakeFire \/ F!TakeOff \/ F!gate_fire_cb \/ F!gate_fire_cb_end \/ F!gate_off_cb
  BY <1>4 DEF BoardInv, FanHeld, F!TakeFire, F!TakeOff, F!gate_fire_cb,
              F!gate_fire_cb_end, F!gate_off_cb, F!Idle
<1>5. CASE F!Passes
  BY <1>2, <1>5 DEF BoardInv, FanHeld, F!Passes, F!Idle, F!fan
<1>6. CASE F!fan_task
  BY <1>1, <1>2, <1>6 DEF BoardInv, FanHeld, F!fan_task, F!phase
<1>7. CASE F!RtosTick
  BY <1>2, <1>7 DEF BoardInv, FanHeld, F!RtosTick, F!phase
<1> QED BY <1>3, <1>4, <1>5, <1>6, <1>7 DEF FanSteps

\* A zero crossing, a timer or a turn of fan_task keeps the invariant.
LEMMA BlowKeeps == BoardInv /\ Blow => BoardInv' /\ UNCHANGED vars
<1> SUFFICES ASSUME BoardInv, Blow PROVE BoardInv' /\ UNCHANGED vars
  OBVIOUS
<1>1. FanHeld' /\ level' = level
  BY FanRests DEF Blow
<1>2. UNCHANGED vars
  BY <1>1 DEF Blow, vars, pins
<1>3. IInv'
  BY <1>2, NextKeeps DEF BoardInv
<1>4. FanBootInv'
  BY <1>2 DEF Blow, BoardInv, FanBootInv, vars
<1> QED BY <1>1, <1>2, <1>3, <1>4 DEF BoardInv

\* fan_init finds no object to disturb.
LEMMA FanInitKeeps == BoardInv /\ fan_init => BoardInv'
<1> SUFFICES ASSUME BoardInv, fan_init PROVE BoardInv'
  OBVIOUS
<1>1. /\ level \in [Pins -> {0, 1, Float}] /\ Fan \in Pins /\ Fan # Relay
      /\ ~is_shutdown /\ \A o \in Oids : outs[o] = None
  BY PinAssumption DEF BoardInv, IInv, TypeOK, FanBootInv, fan_init, Pins
<1>2. TypeOK' /\ RelayInv' /\ BootInv' /\ HeatRequestLatches'
  BY <1>1 DEF BoardInv, IInv, TypeOK, RelayInv, BootInv, HeatRequestLatches, fan_init
<1>3. ShadowInv' /\ DefaultInv'
  BY <1>1 DEF fan_init, ShadowInv, DefaultInv
<1>4. FanHeld' /\ FanBootInv'
  BY DEF BoardInv, FanHeld, FanBootInv, fan_init, statics
<1> QED BY <1>2, <1>3, <1>4 DEF BoardInv, IInv

\* Klipper's steps are PandaSafety's, and leave the fan's state or clear it.
LEMMA KlipperKeeps == BoardInv /\ (EarlyInit \/ Klipper \/ Reset) => BoardInv'
<1> SUFFICES ASSUME BoardInv, EarlyInit \/ Klipper \/ Reset PROVE BoardInv'
  OBVIOUS
<1>1. Next
  BY DEF EarlyInit, Klipper, Reset, Next
<1>2. IInv'
  BY <1>1, NextKeeps DEF BoardInv
<1>3. CASE FanRestarts /\ phase' = "rom"
  <2>1. ~is_shutdown' /\ \A o \in Oids : outs'[o] = None
    BY <1>2, <1>3 DEF IInv, BootInv
  <2> QED BY <1>2, <1>3, <2>1 DEF FanRestarts, BoardInv, FanHeld, FanBootInv
<1>4. CASE EarlyInit
  BY <1>2, <1>4 DEF EarlyInit, panda_safety_early_init, BoardInv, FanHeld, FanBootInv,
                    statics
<1>5. CASE Klipper /\ phase' # "rom"
  <2>1. fan_up /\ UNCHANGED <<statics, tick, fan_up>>
    BY <1>5 DEF Klipper
  <2>2. phase' = "run"
    BY <1>2, <1>5 DEF IInv, TypeOK
  <2> QED BY <1>2, <2>1, <2>2 DEF BoardInv, FanHeld, FanBootInv, statics
<1> QED BY <1>3, <1>4, <1>5 DEF Klipper, Reset, command_reset, esp_restart

\* The board's invariant holds in every reachable state.
LEMMA BoardInvariance == BoardSpec => []BoardInv
<1>1. BoardInit => BoardInv
  <2> SUFFICES ASSUME BoardInit PROVE BoardInv
    OBVIOUS
  <2>1. IInv
    BY InitKeeps DEF BoardInit
  <2> QED BY <2>1 DEF BoardInit, FanOutOfReset, BoardInv, FanHeld, FanBootInv, Init
<1>2. BoardInv /\ [BoardNext]_board => BoardInv'
  <2> SUFFICES ASSUME BoardInv, [BoardNext]_board PROVE BoardInv'
    OBVIOUS
  <2>1. CASE UNCHANGED board
    <3>1. UNCHANGED vars
      BY <2>1 DEF board
    <3>2. IInv'
      BY <3>1, NextKeeps DEF BoardInv
    <3> QED BY <2>1, <3>1, <3>2 DEF board, BoardInv, FanHeld, FanBootInv, statics, vars
  <2> QED BY <2>1, BlowKeeps, FanInitKeeps, KlipperKeeps DEF BoardNext
<1> QED BY <1>1, <1>2, PTL DEF BoardSpec

-----------------------------------------------------------------------------
\* With the relay locked off the fan never starts (fan.c:114, safety.c:46-56).
THEOREM FanStaysHeld == BoardSpec => []FanHeld
<1>1. BoardInv => FanHeld
  BY DEF BoardInv
<1> QED BY <1>1, BoardInvariance, PTL

\* The shadow a toggle reads is its pin's level though the fan may drive it too.
THEOREM BoardShadowsAgree == BoardSpec => []ShadowAgrees
<1>1. BoardInv => ShadowAgrees
  BY DEF BoardInv, IInv, ShadowInv, ShadowAgrees, Running, Stopped, BootInv
<1> QED BY <1>1, BoardInvariance, PTL

\* A finished shutdown leaves each output at its default, GPIO_FAN's included.
THEOREM BoardDefaults == BoardSpec => []DefaultsAfterShutdown
<1>1. BoardInv => DefaultsAfterShutdown
  BY DEF BoardInv, IInv, TypeOK, RelayInv, BootInv, DefaultInv, LastOn,
         DefaultsAfterShutdown, Stopped
<1> QED BY <1>1, BoardInvariance, PTL

\* The whole board is the interlock safety.c:5-8 promises.
THEOREM BoardInterlock == BoardSpec => InterlockSpec
<1>1. BoardInit => I!Init
  BY DEF BoardInit, Init, I!Init, Pins, Float
<1>2. BoardInv /\ BoardInv' /\ [BoardNext]_board => [I!Next]_(I!vars)
  <2> SUFFICES ASSUME BoardInv, BoardInv', [BoardNext]_board PROVE [I!Next]_(I!vars)
    OBVIOUS
  <2>1. CASE [Next]_vars
    BY <2>1, StepLatches, InterlockStep DEF BoardInv, IInv
  <2>2. CASE fan_init
    <3>1. UNCHANGED <<is_shutdown, heat_asked>>
      BY <2>2 DEF fan_init
    <3> QED BY <3>1, InterlockStep DEF Latches, BoardInv, IInv
  <2>3. CASE Blow
    BY <2>1, <2>3, BlowKeeps
  <2>4. CASE EarlyInit \/ Klipper \/ Reset
    BY <2>1, <2>4 DEF EarlyInit, Klipper, Reset, Next
  <2>5. CASE UNCHANGED board
    BY <2>1, <2>5 DEF board
  <2> QED BY <2>2, <2>3, <2>4, <2>5 DEF BoardNext
<1> QED BY <1>1, <1>2, BoardInvariance, PTL DEF BoardSpec, InterlockSpec, I!Spec

=============================================================================
