--------------------------------- MODULE Adc ---------------------------------
(***************************************************************************)
(* Analogue inputs (adc.c): pins share the converter's units, whose        *)
(* handles are created with the first pin of each; a reading that fails    *)
(* shuts the machine down, or is a zero when it is shut down already.      *)
(* Klipper's adccmds.c, which adds up sample_count readings of each input  *)
(* in a timer, in a shutdown too, and reports the sum from a task, is      *)
(* external.                                                               *)
(***************************************************************************)
EXTENDS Naturals, FiniteSets

CONSTANTS
  Inputs,        \* object ids of analogue inputs
  Asked,         \* the pins the host asks for, good or not
  SampleCount,   \* sample_count of a query
  MaxReports     \* bound of the model: sums reported

ASSUME AdcAssumption ==
  /\ IsFiniteSet(Inputs) /\ Asked \subseteq Nat
  /\ SampleCount \in Nat \ {0} /\ MaxReports \in Nat

(* adc_lookup on the ESP32-C3: unit and channel of the pins that have them *)
adc_lookup == [pin \in 0 .. 5 |->
  IF pin < 5 THEN [unit |-> "UNIT_1", chan |-> pin]
             ELSE [unit |-> "UNIT_2", chan |-> 0]]
Units      == {"UNIT_1", "UNIT_2"}
NULL       == "NULL"
NoInput    == [pin |-> 0, handle |-> NULL, chan |-> 0]

VARIABLES
  adc_handles,   \* the unit each handle was created for, or NULL
  opened,        \* external: units claimed in the driver
  channels,      \* external: channels configured, <<unit, chan>>
  input,         \* struct gpio_adc of each object, and the pin asked for
  halted,        \* external: sched_is_shutdown()
  state,         \* external: readings in each input's sum
  made,          \* history: what they are, see Readings
  report,        \* history: what the sum reported last was made of
  reports

setup  == <<adc_handles, opened, channels, input>>
sample == <<state, made>>
adc_vars == <<setup, halted, sample, report, reports>>

NotSampling == SampleCount + 1   \* the next reading begins a sum

(* A sum by its readings: of the input's own pin, and zeros of failed ones.*)
Readings(own, zero) == [own |-> own, zero |-> zero]

AdcInit ==
  /\ adc_handles = [u \in Units |-> NULL] /\ opened = {} /\ channels = {}
  /\ input = [o \in Inputs |-> NoInput] /\ halted = FALSE
  /\ state = [o \in Inputs |-> NotSampling]
  /\ made = [o \in Inputs |-> Readings(0, 0)]
  /\ report = Readings(SampleCount, 0) /\ reports = 0

Configured == {o \in Inputs : input[o] # NoInput}

(* External: a shutdown cancels what is being sampled and lets every input *)
(* begin again (adccmds.c's shutdown function).                            *)
Shutdown ==
  /\ halted' = TRUE
  /\ state' = [o \in Inputs |-> NotSampling]

(* External: a reading is added to the sum, or begins it.                  *)
Count(o, reading) ==
  LET first == state[o] >= SampleCount
  IN /\ state' = [state EXCEPT ![o] = IF first THEN 1 ELSE @ + 1]
     /\ made' = [made EXCEPT ![o] =
          IF first THEN reading ELSE Readings(@.own + reading.own, @.zero + reading.zero)]

-----------------------------------------------------------------------------
(* Mutants: slips in adc.c.                                                *)

(* One handle for all units.                                               *)
HandleOf_first(unit) ==
  IF adc_handles'["UNIT_1"] # NULL THEN adc_handles'["UNIT_1"]
  ELSE adc_handles'[unit]

(* A failed reading is a zero.                                             *)
ReadFails_zero(o) ==
  /\ Count(o, Readings(0, 1)) /\ UNCHANGED halted

-----------------------------------------------------------------------------
(* gpio_adc_setup: the pin's unit is opened when it has no handle, the     *)
(* channel configured on its handle; every failure is a shutdown.          *)
HandleOf(unit) == adc_handles'[unit]

OpenUnit(unit) ==
  IF adc_handles[unit] = NULL
  THEN /\ unit \notin opened
       /\ opened' = opened \cup {unit}
       /\ adc_handles' = [adc_handles EXCEPT ![unit] = unit]
  ELSE UNCHANGED <<opened, adc_handles>>

gpio_adc_setup(o, pin) ==
  /\ ~halted /\ input[o] = NoInput /\ pin \in DOMAIN adc_lookup
  /\ LET adc == adc_lookup[pin] IN
       /\ OpenUnit(adc.unit)
       /\ HandleOf(adc.unit) # NULL
       /\ channels' = channels \cup {<<HandleOf(adc.unit), adc.chan>>}
       /\ input' = [input EXCEPT ![o] = [pin |-> pin, chan |-> adc.chan,
                                         handle |-> HandleOf(adc.unit)]]
  /\ UNCHANGED <<halted, sample, report, reports>>

(* A pin without a converter, or a fault of the driver, before or after    *)
(* the unit's handle was stored.                                           *)
gpio_adc_setup_fails(o, pin) ==
  /\ ~halted /\ input[o] = NoInput
  /\ Shutdown
  /\ \/ UNCHANGED <<opened, adc_handles>>
     \/ pin \in DOMAIN adc_lookup /\ OpenUnit(adc_lookup[pin].unit)
  /\ UNCHANGED <<channels, input, made, report, reports>>

-----------------------------------------------------------------------------
(* External: the pin of a handle's channel, which a reading is of.         *)
PinOf(handle, chan) ==
  CHOOSE pin \in DOMAIN adc_lookup : adc_lookup[pin] = [unit |-> handle,
                                                        chan |-> chan]

(* gpio_adc_read, in adccmds.c's timer: of a channel that is configured.   *)
gpio_adc_read(o) ==
  /\ LET own == /\ <<input[o].handle, input[o].chan>> \in channels
                /\ PinOf(input[o].handle, input[o].chan) = input[o].pin
     IN Count(o, Readings(IF own THEN 1 ELSE 0, 0))
  /\ UNCHANGED halted

(* gpio_adc_read that fails.  try_shutdown does not return from here while *)
(* the machine runs; when it is shut down, it does, and a zero is read.    *)
ReadFails(o) ==
  IF halted THEN Count(o, Readings(0, 1)) /\ UNCHANGED halted
            ELSE Shutdown /\ UNCHANGED made

Sample(o) ==
  /\ o \in Configured
  /\ gpio_adc_read(o) \/ ReadFails(o)
  /\ UNCHANGED <<setup, report, reports>>

(* External: analog_in_task reports a complete sum.                        *)
Report(o) ==
  /\ o \in Configured /\ state[o] = SampleCount /\ reports < MaxReports
  /\ state' = [state EXCEPT ![o] = SampleCount + 1]
  /\ report' = made[o] /\ reports' = reports + 1
  /\ UNCHANGED <<setup, halted, made>>

(* External: any other part of the firmware shuts the machine down.        *)
HaltElsewhere ==
  /\ Shutdown /\ UNCHANGED <<setup, made, report, reports>>

AdcNext ==
  \/ \E o \in Inputs :
       \/ \E pin \in Asked : gpio_adc_setup(o, pin) \/ gpio_adc_setup_fails(o, pin)
       \/ Sample(o) \/ Report(o)
  \/ HaltElsewhere

AdcSpec == AdcInit /\ [][AdcNext]_adc_vars

-----------------------------------------------------------------------------
(* What is reported is the sum of sample_count readings of the input's own *)
(* pin, whatever order the pins of the units came in (adc.c:111-133), over *)
(* failures and shutdowns in the middle of a sum.  A failed reading's zero *)
(* (adc.c:149-153) is among them only when the machine was shut down       *)
(* before: while it runs a report is of real readings.                     *)
ReportsAreReal ==
  /\ report.own + report.zero = SampleCount
  /\ ~halted => report.zero = 0
=============================================================================
