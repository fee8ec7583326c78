------------------------------ MODULE PwmWaves ------------------------------
(***************************************************************************)
(* What the board promises of its PWM outputs, without timers or channels: *)
(* a pin emits the wave last asked for on it, at the frequency nearest to  *)
(* its period; only the output it was given to changes its duty, and a     *)
(* step changes the wave of one pin at most.  A configuration that fails   *)
(* may leave a wave that nobody holds, and shuts the machine down; after   *)
(* that outputs go to their defaults and nowhere else.                     *)
(***************************************************************************)
EXTENDS Integers

CONSTANTS ClockFreq, MaxFreq, MaxDuty, Pins, Outputs, Cycles, Duties

VARIABLES
  wave,      \* of each pin: frequency and duty, or Still
  holder,    \* of each pin: the output it was given to, if any
  asked,     \* of each output: its period and its default, or Unasked
  stopped    \* the machine takes no command

vars == <<wave, holder, asked, stopped>>

Still   == [freq |-> 0, duty |-> 0]
Unasked == [period |-> -1, default |-> -1]

Frequencies == 1 .. MaxFreq
Allowed     == {v \in Duties : v <= MaxDuty}

\* An integer frequency no further from the clock's divided by n than half.
Nearest(f, n) == 2 * ClockFreq - n <= 2 * f * n /\ 2 * f * n <= 2 * ClockFreq + n

Init ==
  /\ wave = [p \in Pins |-> Still] /\ holder = [p \in Pins |-> {}]
  /\ asked = [o \in Outputs |-> Unasked] /\ ~stopped

\* Pin p, and no other, gets a wave of period n and goes to these holders.
Emit(p, n, holders) ==
  /\ wave'[p] \in [freq : Frequencies, duty : Allowed]
  /\ Nearest(wave'[p].freq, n)
  /\ wave' = [wave EXCEPT ![p] = wave'[p]]
  /\ holder' = [holder EXCEPT ![p] = holders]

Configure(o, p, n) ==
  /\ ~stopped /\ ~stopped'
  /\ asked[o] = Unasked
  /\ asked'[o].period = n /\ asked'[o].default \in Duties
  /\ asked' = [asked EXCEPT ![o] = asked'[o]]
  /\ Emit(p, n, {o})

ConfigureFails(p, n) ==
  /\ ~stopped /\ stopped'
  /\ Emit(p, n, {})
  /\ UNCHANGED asked

\* The duty of an output reaches the pin it holds; once the machine has
\* stopped this is its default.
Write(o, v) ==
  /\ asked[o] # Unasked
  /\ stopped => v = asked[o].default
  /\ wave' = [p \in Pins |-> IF o \in holder[p] THEN [wave[p] EXCEPT !.duty = v]
                                                ELSE wave[p]]
  /\ UNCHANGED <<holder, asked, stopped>>

Stop == stopped' /\ UNCHANGED <<wave, holder, asked>>

Restart ==
  /\ wave' = [p \in Pins |-> Still] /\ holder' = [p \in Pins |-> {}]
  /\ asked' = [o \in Outputs |-> Unasked] /\ ~stopped'

Next ==
  \/ Stop
  \/ Restart
  \/ \E o \in Outputs, v \in Allowed : Write(o, v)
  \/ \E p \in Pins, n \in Cycles :
       ConfigureFails(p, n) \/ \E o \in Outputs : Configure(o, p, n)

Spec == Init /\ [][Next]_vars
=============================================================================
