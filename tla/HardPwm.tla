------------------------------ MODULE HardPwm ------------------------------
(***************************************************************************)
(* Hardware PWM outputs (hard_pwm.c, pwm_math.h): LEDC timers, shared by   *)
(* the outputs of one frequency, and LEDC channels, one for each output.   *)
(*                                                                         *)
(* Setup and write run in the Klipper task and are never interrupted by    *)
(* one another, so each is one action; what a failing step leaves behind   *)
(* is part of it.  Klipper's pwmcmds.c, outside this repository, is        *)
(* modelled by its calls: setup then oid allocation, a write for each      *)
(* queued update, and a write of every default in its shutdown function.   *)
(***************************************************************************)
EXTENDS Integers, FiniteSets, FiniteSetsExt

CONSTANTS
  ClockFreq,     \* CONFIG_CLOCK_FREQ
  MaxFreq,       \* 78000, the highest frequency accepted
  PWM_MAX,       \* largest duty
  LedcTimers,    \* 0 .. LEDC_TIMER_MAX - 1
  LedcChannels,  \* 0 .. LEDC_CHANNEL_MAX - 1
  OutPins,       \* valid output pins
  Oids,          \* object ids the host may configure as PWM outputs
  Cycles,        \* cycle_ticks arguments
  Duties,        \* value and default_value arguments
  MaxFailures    \* bound: writes the driver refuses in one behaviour

Invalid == "invalid"
None    == [channel |-> -1]
Unbound == [timer |-> -1, duty |-> 0]

ASSUME PwmAssumption ==
  /\ ClockFreq \in Nat /\ MaxFreq \in Nat /\ PWM_MAX \in Nat
  /\ LedcTimers \subseteq Nat /\ LedcChannels \subseteq Nat /\ Oids \subseteq Nat
  /\ IsFiniteSet(LedcTimers) /\ IsFiniteSet(LedcChannels) /\ IsFiniteSet(Oids)
  /\ Cycles \subseteq Nat /\ Duties \subseteq Nat
  /\ Invalid \notin OutPins
  /\ MaxFailures \in Nat

VARIABLES
  timer_frequencies,  \* of each timer in use, 0 when unused
  channel_used,       \* the channels in use
  hw_timer,           \* external: frequency each LEDC timer runs at, or 0
  hw_channel,         \* external: timer and duty of each LEDC channel
  route,              \* external: the LEDC channel each pin follows, or -1
  objs,               \* external: pwmcmds.c's outputs
  is_shutdown,        \* external: sched_is_shutdown()
  left,               \* external: outputs the shutdown function has yet to reach
  failures            \* external: writes the driver has refused

resources == <<timer_frequencies, channel_used>>
hw   == <<hw_timer, hw_channel, route>>
vars == <<resources, hw, objs, is_shutdown, left, failures>>

Stopped == is_shutdown /\ left = {}
First(S) == IF S = {} THEN {} ELSE {Min(S)}

\* shutdown(): the shutdown functions start from their beginning.
Shutdown == is_shutdown' = TRUE /\ left' = Oids

-----------------------------------------------------------------------------
\* Mutants: slips in hard_pwm.c and pwm_math.h.

\* The frequency truncated.
frequency_truncated(cycle) == IF cycle = 0 THEN 0 ELSE ClockFreq \div cycle

\* Any timer in use taken for a match.
find_any_used_timer(f) ==
  LET used == {t \in LedcTimers : timer_frequencies[t] # 0}
  IN  IF used # {} THEN First(used) ELSE First(LedcTimers)

\* A timer of the frequency never looked for.
find_unused_timer(f) == First({t \in LedcTimers : timer_frequencies[t] = 0})

\* The channel's flag not looked at.
allocate_channel_zero == First(LedcChannels)

\* The largest duty refused.
write_below_max(o, v) == objs[o] # None /\ v < PWM_MAX

\* ledc_update_duty forgotten: the duty never takes effect.
write_without_update(o, v, then) ==
  /\ objs' = [objs EXCEPT ![o].value = v]
  /\ left' = then
  /\ UNCHANGED <<resources, hw, is_shutdown, failures>>

-----------------------------------------------------------------------------
\* Nearest frequency of a period given in clock ticks; the sum is 64 bits wide.
pwm_frequency_for_cycle(cycle) ==
  IF cycle = 0 THEN 0 ELSE (ClockFreq + cycle \div 2) \div cycle

\* The timer of this frequency, else the first unused one, else none.
find_or_allocate_timer(f) ==
  LET same == {t \in LedcTimers : timer_frequencies[t] = f}
  IN  IF same # {} THEN First(same)
      ELSE First({t \in LedcTimers : timer_frequencies[t] = 0})

allocate_channel == First(LedcChannels \ channel_used)

write_in_range(o, v) == objs[o] # None /\ objs[o].channel \in channel_used /\ v <= PWM_MAX

-----------------------------------------------------------------------------
Init ==
  /\ timer_frequencies = [t \in LedcTimers |-> 0] /\ channel_used = {}
  /\ hw_timer = [t \in LedcTimers |-> 0]
  /\ hw_channel = [c \in LedcChannels |-> Unbound]
  /\ route = [p \in OutPins |-> -1]
  /\ objs = [o \in Oids |-> None]
  /\ is_shutdown = FALSE /\ left = {} /\ failures = 0

\* What gpio_pwm_setup refuses before it touches anything.
Refused(p, cycle, v) ==
  \/ p = Invalid
  \/ v > PWM_MAX
  \/ pwm_frequency_for_cycle(cycle) = 0
  \/ pwm_frequency_for_cycle(cycle) > MaxFreq

setup_refused(p, cycle, v) ==
  /\ \/ Refused(p, cycle, v)
     \/ find_or_allocate_timer(pwm_frequency_for_cycle(cycle)) = {}
  /\ Shutdown
  /\ UNCHANGED <<resources, hw, objs>>

\* No channel left: the timer taken just before stays taken.
setup_no_channel(p, cycle, v) ==
  /\ ~Refused(p, cycle, v)
  /\ \E t \in find_or_allocate_timer(pwm_frequency_for_cycle(cycle)) :
       timer_frequencies' =
         [timer_frequencies EXCEPT ![t] = pwm_frequency_for_cycle(cycle)]
  /\ allocate_channel = {}
  /\ Shutdown
  /\ UNCHANGED <<channel_used, hw, objs>>

\* ledc_timer_config fails: timer and channel stay taken.
setup_timer_fails(p, cycle, v) ==
  LET f == pwm_frequency_for_cycle(cycle)
  IN  /\ ~Refused(p, cycle, v)
      /\ \E t \in find_or_allocate_timer(f), c \in allocate_channel :
           /\ timer_frequencies[t] = 0
           /\ timer_frequencies' = [timer_frequencies EXCEPT ![t] = f]
           /\ channel_used' = channel_used \cup {c}
      /\ Shutdown
      /\ UNCHANGED <<hw, objs>>

\* The rest: a new timer is configured, then the channel, which may fail and
\* is given back; last comes the oid, which may be taken already.
setup_configures(o, p, cycle, v, d) ==
  LET f == pwm_frequency_for_cycle(cycle)
  IN  /\ ~Refused(p, cycle, v)
      /\ \E t \in find_or_allocate_timer(f), c \in allocate_channel :
           /\ timer_frequencies' = [timer_frequencies EXCEPT ![t] = f]
           /\ hw_timer' = IF timer_frequencies[t] = 0
                          THEN [hw_timer EXCEPT ![t] = f] ELSE hw_timer
           /\ \/ /\ Shutdown
                 /\ UNCHANGED <<channel_used, hw_channel, route, objs>>
              \/ /\ channel_used' = channel_used \cup {c}
                 /\ hw_channel' = [hw_channel EXCEPT ![c] =
                                     [timer |-> t, duty |-> v]]
                 /\ route' = [route EXCEPT ![p] = c]
                 /\ IF objs[o] # None
                    THEN Shutdown /\ UNCHANGED objs
                    ELSE /\ objs' = [objs EXCEPT ![o] =
                              [channel |-> c, pin |-> p, cycle |-> cycle,
                               value |-> v, default |-> d]]
                         /\ UNCHANGED <<is_shutdown, left>>

config_pwm_out(o, p, cycle, v, d) ==
  /\ ~is_shutdown
  /\ UNCHANGED failures
  /\ \/ setup_refused(p, cycle, v)
     \/ setup_no_channel(p, cycle, v)
     \/ setup_timer_fails(p, cycle, v)
     \/ setup_configures(o, p, cycle, v, d)

\* gpio_pwm_write: a duty out of range raises, and so does a driver that refuses to
\* set or to update it, in which case the old duty stays in effect.
gpio_pwm_write(o, v, then) ==
  \/ /\ write_in_range(o, v)
     /\ hw_channel' = [hw_channel EXCEPT ![objs[o].channel].duty = v]
     /\ objs' = [objs EXCEPT ![o].value = v]
     /\ left' = then
     /\ UNCHANGED <<resources, hw_timer, route, is_shutdown, failures>>
  \/ /\ ~write_in_range(o, v)
     /\ Shutdown
     /\ UNCHANGED <<resources, hw, objs, failures>>
  \/ /\ write_in_range(o, v)
     /\ failures < MaxFailures /\ failures' = failures + 1
     /\ Shutdown
     /\ UNCHANGED <<resources, hw, objs>>

\* set_pwm_out and the event of a queued update.
pwm_event(o, v) ==
  /\ ~is_shutdown /\ objs[o] # None
  /\ gpio_pwm_write(o, v, left)

\* One object of the shutdown function's walk.
pwm_shutdown ==
  \E o \in First(left) :
    IF objs[o] = None
    THEN left' = left \ {o} /\ UNCHANGED <<resources, hw, objs, is_shutdown, failures>>
    ELSE gpio_pwm_write(o, objs[o].default, left \ {o})

OtherShutdown ==
  ~is_shutdown /\ Shutdown /\ UNCHANGED <<resources, hw, objs, failures>>

\* A reset, by command or by the watchdog.
esp_restart ==
  /\ timer_frequencies' = [t \in LedcTimers |-> 0] /\ channel_used' = {}
  /\ hw_timer' = [t \in LedcTimers |-> 0]
  /\ hw_channel' = [c \in LedcChannels |-> Unbound]
  /\ route' = [p \in OutPins |-> -1]
  /\ objs' = [o \in Oids |-> None]
  /\ is_shutdown' = FALSE /\ left' = {}
  /\ UNCHANGED failures

Next ==
  \/ \E o \in Oids, v \in Duties :
       \/ pwm_event(o, v)
       \/ \E p \in OutPins \cup {Invalid}, cycle \in Cycles, d \in Duties :
            config_pwm_out(o, p, cycle, v, d)
  \/ pwm_shutdown
  \/ OtherShutdown
  \/ esp_restart

Spec == Init /\ [][Next]_vars

\* run_shutdown calls its functions without waiting for anything.
FairSpec == Spec /\ WF_vars(pwm_shutdown)

-----------------------------------------------------------------------------
Configured == {o \in Oids : objs[o] # None}

(***************************************************************************)
(* Every output holds the duty last asked of it, and its pin follows it    *)
(* unless the host gave the pin to two outputs, however channels were      *)
(* handed out and whichever setups failed in between.                      *)
(***************************************************************************)
OutputAsAsked ==
  \A o \in Configured :
    /\ hw_channel[objs[o].channel].duty = objs[o].value
    /\ (\A x \in Configured \ {o} : objs[x].pin # objs[o].pin)
         => is_shutdown \/ route[objs[o].pin] = objs[o].channel

(***************************************************************************)
(* Every output runs at the integer frequency nearest to its own period,   *)
(* also when a timer is shared: no later setup retunes it.                 *)
(***************************************************************************)
FrequencyNearest ==
  \A o \in Configured :
    LET f == hw_timer[hw_channel[objs[o].channel].timer]
        n == objs[o].cycle
    IN  2 * ClockFreq - n <= 2 * f * n /\ 2 * f * n <= 2 * ClockFreq + n

(***************************************************************************)
(* Until a shutdown nothing leaks: channels in use are those of outputs,   *)
(* and timers in use are one for each distinct frequency of an output.  A  *)
(* setup refused for want of a timer or channel is refused for good cause. *)
(***************************************************************************)
NothingLeaks ==
  ~is_shutdown =>
    /\ channel_used = {objs[o].channel : o \in Configured}
    /\ Cardinality(channel_used) = Cardinality(Configured)
    /\ Cardinality({t \in LedcTimers : timer_frequencies[t] # 0})
         = Cardinality({pwm_frequency_for_cycle(objs[o].cycle) : o \in Configured})

(***************************************************************************)
(* Once the shutdown function has finished every output is at its default. *)
(***************************************************************************)
DefaultsAfterShutdown ==
  Stopped => \A o \in Configured : hw_channel[objs[o].channel].duty = objs[o].default

OutOfRange(o) == o \in Configured /\ objs[o].default > PWM_MAX

\* The walk gets as far as o: no output before it, nor itself, has a default that
\* no write accepts.
Sound(o) == \A x \in Oids : x <= o => ~OutOfRange(x)

(***************************************************************************)
(* A write inside the shutdown function that raises starts the function    *)
(* over (hard_pwm.c:163-177).  That happens for a cause: the driver has    *)
(* refused once more, or the default of the output just reached is out of  *)
(* range, which no set-up checks.  Every other step of the walk leaves     *)
(* fewer outputs to reach, the channel of an output never being given back.*)
(***************************************************************************)
StartsOverForCause ==
  [][is_shutdown /\ is_shutdown'
       => \/ left' \subseteq left /\ left' # left
          \/ failures' = failures + 1
          \/ \E o \in First(left) : OutOfRange(o)]_vars

(***************************************************************************)
(* After a shutdown every output gets to its default, or a reset ends the  *)
(* shutdown, though the driver may refuse some writes and though another   *)
(* output's default may be out of range, so that the shutdown functions    *)
(* start over without end (hard_pwm.c:165): outputs before that one still  *)
(* get theirs.  (WavesSpec says that they keep it.)                        *)
(***************************************************************************)
DefaultsReached ==
  \A o \in Oids :
    is_shutdown /\ o \in Configured /\ Sound(o)
      ~> \/ ~is_shutdown
         \/ o \in Configured /\ hw_channel[objs[o].channel].duty = objs[o].default

-----------------------------------------------------------------------------
\* What a pin emits, through the channel and the timer it follows.
Wave(p) ==
  LET c == hw_channel[route[p]]
  IN  IF route[p] = -1 THEN [freq |-> 0, duty |-> 0]
      ELSE [freq |-> hw_timer[c.timer], duty |-> c.duty]

WaveOf   == [p \in OutPins |-> Wave(p)]
HolderOf == [p \in OutPins |-> {o \in Configured : objs[o].channel = route[p]}]
AskedOf  == [o \in Oids |->
  IF objs[o] = None THEN [period |-> -1, default |-> -1]
  ELSE [period |-> objs[o].cycle, default |-> objs[o].default]]

Waves == INSTANCE PwmWaves WITH
  MaxDuty <- PWM_MAX, Pins <- OutPins, Outputs <- Oids,
  wave    <- WaveOf,
  holder  <- HolderOf,
  asked   <- AskedOf,
  stopped <- is_shutdown

(***************************************************************************)
(* Timers and channels are invisible from outside: pin by pin the outputs  *)
(* are the waves asked for.  Sharing, running out of either, and setups    *)
(* that fail half-way never show on the pin of another output, nor does a  *)
(* write, and a shutdown's writes only bring outputs to their defaults.    *)
(***************************************************************************)
WavesSpec == Waves!Spec
=============================================================================
