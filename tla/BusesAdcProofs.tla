---------------------------- MODULE BusesAdcProofs ----------------------------
(***************************************************************************)
(* SPI and I2C, for any number of objects, slots and buses: SPI's handles  *)
(* stay live and of their own settings while the firmware runs, a shutdown *)
(* gives back whatever SPI holds, and I2C shares the bus given it.         *)
(* And the ADC, which shares nothing with them but the shutdown: what it   *)
(* reports was read from the pin of its input.                             *)
(***************************************************************************)
EXTENDS Buses, Adc, WellFoundedInduction, TLAPS

\* The first slot of a set of slots, which the searches of spi_get_device end on.
LEMMA FirstSlot ==
  ASSUME NEW A \in SUBSET Slots, A # {}
  PROVE  Min(A) \in A
<1> DEFINE Less == OpToRel(<, Nat)
<1>1. A \subseteq Nat
  BY DEF Slots
<1>2. \E x \in A : \A y \in A : <<y, x>> \notin Less
  BY <1>1, NatLessThanWellFounded, WFMin, Zenon
<1>3. \A x \in A, y \in A : y < x => <<y, x>> \in Less
  BY <1>1 DEF OpToRel
<1>4. \A x \in A, y \in A : ~(y < x) => x =< y
  BY <1>1
<1> HIDE DEF Less
<1>5. \E x \in A : \A y \in A : x =< y
  BY <1>2, <1>3, <1>4, Zenon
<1> QED BY <1>5, Zenon DEF Min

-----------------------------------------------------------------------------
Kinds == {Free} \cup {Used(s) : s \in Settings}

\* What the driver holds is what the tables of spi.c say.
TableInv ==
  /\ spi_devices \in [Slots -> Kinds] /\ spi_device_count \in Nat
  /\ live = {i \in Slots : spi_devices[i].in_use}
  /\ initialized = owned
  /\ \A i \in live : i < spi_device_count /\ spi_devices[i].settings.bus \in owned

\* No two slots of the same settings.
TwinsInv ==
  \A i, j \in live : spi_devices[i].settings = spi_devices[j].settings => i = j

\* Outside a shutdown every handle given is still a slot's.
RunInv ==
  /\ spi_config \in [Spidevs -> 0 .. MaxSlots]
  /\ spi_asked \in [Spidevs -> Settings \cup {Unset}]
  /\ ~is_shutdown =>
       /\ handlers = {} /\ ~stale
       /\ \A o \in Spidevs : spi_config[o] # Unset =>
            /\ spi_config[o] \in live /\ spi_asked[o] \in Settings
            /\ spi_devices[spi_config[o]] = Used(spi_asked[o])

StoppedInv == is_shutdown /\ "spi_shutdown" \notin handlers => live = {} /\ owned = {}

SpiInv == TableInv /\ TwinsInv /\ RunInv /\ StoppedInv

\* A slot is free or holds the settings of its device.
LEMMA SlotKinds ==
  /\ Free \in Kinds /\ ~Free.in_use
  /\ \A s \in Settings : Used(s) \in Kinds /\ Used(s).in_use /\ Used(s).settings = s
  /\ \A d \in Kinds : d.in_use =>
       d.settings \in Settings /\ d = Used(d.settings)
<1>1. Free \in Kinds /\ ~Free.in_use
  BY DEF Kinds, Free
<1>2. \A s \in Settings : Used(s) \in Kinds /\ Used(s).in_use /\ Used(s).settings = s
  BY DEF Kinds, Used
<1>3. \A d \in Kinds : d.in_use => \E s \in Settings : d = Used(s)
  BY <1>1 DEF Kinds
<1> QED BY <1>1, <1>2, <1>3

\* An initialised bus is one the driver has given, before a step of it and after.
LEMMA BusGiven ==
  ASSUME initialized = owned, NEW b, InitializeBus(b)
  PROVE  initialized' = owned' /\ owned \subseteq owned' /\ b \in owned'
BY DEF InitializeBus, marked

\* A setup that finds no slot of its settings takes a free one.
LEMMA SetupKeeps ==
  ASSUME SpiInv, NEW o \in Spidevs, NEW s \in Settings, spi_setup(o, s)
  PROVE  SpiInv'
<1>0. ~is_shutdown /\ ~is_shutdown' /\ MaxSlots \in Nat \ {0} /\ handlers = {} /\ ~stale
      /\ UNCHANGED <<is_shutdown, handlers, stale>>
      /\ spi_asked' = [spi_asked EXCEPT ![o] = s]
  BY SpiAssumption DEF spi_setup, SpiInv, RunInv
<1>1. CASE Found(s) # {} /\ spi_config' = [spi_config EXCEPT ![o] = Min(Found(s))]
           /\ UNCHANGED spi
  <2>1. Min(Found(s)) \in Found(s)
    BY <1>1, FirstSlot DEF Found
  <2>2. PICK i \in Slots : /\ i = Min(Found(s)) /\ i \in live
                           /\ spi_devices[i] = Used(s)
    BY <2>1, SlotKinds DEF Found, matches, SpiInv, TableInv
  <2>3. UNCHANGED <<spi_devices, spi_device_count, initialized, owned, live>>
    BY <1>1 DEF spi
  <2>4. TableInv' /\ TwinsInv' /\ StoppedInv'
    BY <2>3, <1>0 DEF SpiInv, TableInv, TwinsInv, StoppedInv
  <2>5. RunInv'
    BY <1>0, <1>1, <2>2, <2>3 DEF SpiInv, RunInv, Slots, Unset
  <2> QED BY <2>4, <2>5 DEF SpiInv
<1>2. CASE /\ Found(s) = {} /\ Available # {}
           /\ InitializeBus(s.bus)
           /\ LET slot == Min(Available)
              IN  /\ spi_devices' = [spi_devices EXCEPT ![slot] = Used(s)]
                  /\ spi_device_count' = count_with(slot)
                  /\ live' = live \cup {slot}
                  /\ spi_config' = [spi_config EXCEPT ![o] = slot]
  <2>1. Min(Available) \in Available
    BY <1>2, FirstSlot DEF Available
  <2>2. PICK k \in Slots :
          /\ k \notin live
          /\ spi_devices' = [spi_devices EXCEPT ![k] = Used(s)]
          /\ spi_device_count' = count_with(k)
          /\ live' = live \cup {k}
          /\ spi_config' = [spi_config EXCEPT ![o] = k]
    BY <1>2, <2>1 DEF Available, SpiInv, TableInv
  <2>3. /\ k \in Nat /\ k < MaxSlots /\ spi_devices'[k] = Used(s)
        /\ \A j \in Slots \ {k} : spi_devices'[j] = spi_devices[j]
        /\ spi_devices' \in [Slots -> Kinds]
    BY <1>0, <2>2, SlotKinds DEF Slots, SpiInv, TableInv
  <2>4. spi_device_count' \in Nat /\ spi_device_count =< spi_device_count'
        /\ k < spi_device_count'
    BY <2>2, <2>3 DEF count_with, SpiInv, TableInv
  <2>5. initialized' = owned' /\ owned \subseteq owned' /\ s.bus \in owned'
    BY <1>2, BusGiven DEF SpiInv, TableInv
  <2>6. live' = {i \in Slots : spi_devices'[i].in_use}
    BY <2>2, <2>3, SlotKinds DEF SpiInv, TableInv
  <2>7. \A i \in live' : i < spi_device_count' /\ spi_devices'[i].settings.bus \in owned'
    <3> SUFFICES ASSUME NEW j \in live'
                 PROVE  j < spi_device_count' /\ spi_devices'[j].settings.bus \in owned'
      OBVIOUS
    <3>1. CASE j = k
      BY <3>1, <2>3, <2>4, <2>5, SlotKinds
    <3>2. CASE j # k
      <4>1. j \in live /\ j \in Nat /\ spi_devices'[j] = spi_devices[j]
        BY <3>2, <2>2, <2>3 DEF SpiInv, TableInv, Slots
      <4> QED BY <4>1, <2>4, <2>5 DEF SpiInv, TableInv
    <3> QED BY <3>1, <3>2
  <2>8. TableInv'
    BY <2>3, <2>4, <2>5, <2>6, <2>7 DEF TableInv
  <2>9. TwinsInv'
    <3>1. \A j \in live : spi_devices[j].settings # s /\ spi_devices'[j] = spi_devices[j]
      BY <1>2, <2>2, <2>3 DEF Found, matches, SpiInv, TableInv
    <3> QED BY <3>1, <2>2, <2>3, SlotKinds DEF SpiInv, TwinsInv
  <2>10. RunInv'
    <3>1. \A p \in Spidevs \ {o} : spi_config'[p] = spi_config[p]
                                    /\ spi_asked'[p] = spi_asked[p]
      BY <1>0, <2>2 DEF SpiInv, RunInv
    <3>2. spi_config'[o] = k /\ spi_asked'[o] = s
      BY <1>0, <2>2 DEF SpiInv, RunInv
    <3>3. \A j \in live : spi_devices'[j] = spi_devices[j]
      BY <2>2, <2>3 DEF SpiInv, TableInv
    <3>4. /\ spi_config' \in [Spidevs -> 0 .. MaxSlots]
          /\ spi_asked' \in [Spidevs -> Settings \cup {Unset}]
      BY <1>0, <2>2, <2>3 DEF SpiInv, RunInv
    <3> QED BY <1>0, <2>2, <2>3, <3>1, <3>2, <3>3, <3>4 DEF SpiInv, RunInv, Unset
  <2> QED BY <2>8, <2>9, <2>10, <1>0 DEF SpiInv, StoppedInv
<1> QED BY <1>1, <1>2 DEF spi_setup

\* A setup that fails leaves at most its bus behind.
LEMMA SetupFailsKeeps ==
  ASSUME SpiInv, NEW o \in Spidevs, NEW s \in Settings, spi_setup_fails(o, s)
  PROVE  SpiInv'
<1>1. /\ is_shutdown' /\ "spi_shutdown" \in handlers'
      /\ UNCHANGED <<spi_devices, spi_device_count, live, spi_config, spi_asked, stale>>
  BY DEF spi_setup_fails, Raise, ShutdownFunctions
<1>2. initialized' = owned' /\ owned \subseteq owned'
  BY BusGiven DEF spi_setup_fails, SpiInv, TableInv
<1> QED BY <1>1, <1>2 DEF SpiInv, TableInv, TwinsInv, RunInv, StoppedInv

\* A transfer meets a live device.
LEMMA TransferKeeps ==
  ASSUME SpiInv, NEW o \in Spidevs, spi_transfer(o)
  PROVE  SpiInv'
<1>1. ~is_shutdown /\ spi_config[o] \in live /\ ~stale' /\ handlers = {}
      /\ UNCHANGED <<spi_devices, spi_device_count, initialized, owned, live,
                     spi_config, spi_asked>>
  BY DEF spi_transfer, SpiInv, RunInv, spi
<1>2. \/ UNCHANGED <<is_shutdown, handlers>>
      \/ is_shutdown' /\ "spi_shutdown" \in handlers'
  BY DEF spi_transfer, Raise, ShutdownFunctions
<1> QED BY <1>1, <1>2 DEF SpiInv, TableInv, TwinsInv, RunInv, StoppedInv

\* spi_shutdown walks over every device there is, so every bus is given back.
LEMMA ShutdownKeeps == SpiInv /\ is_shutdown /\ spi_shutdown => SpiInv'
<1> SUFFICES ASSUME SpiInv, is_shutdown, spi_shutdown PROVE SpiInv'
  OBVIOUS
<1>1. Removed = live
  BY DEF SpiInv, TableInv, Removed
<1>2. live' = {} /\ initialized' = {} /\ spi_device_count' = 0 /\ is_shutdown'
      /\ spi_devices' = [i \in Slots |-> IF i \in live THEN Free ELSE spi_devices[i]]
      /\ UNCHANGED <<spi_config, spi_asked>>
  BY <1>1 DEF spi_shutdown
<1>3. owned' = {}
  BY <1>2 DEF spi_shutdown, SpiInv, TableInv
<1>4. /\ spi_devices' \in [Slots -> Kinds]
      /\ \A i \in Slots : ~spi_devices'[i].in_use
  BY <1>2, SlotKinds DEF SpiInv, TableInv
<1> QED BY <1>2, <1>3, <1>4 DEF SpiInv, TableInv, TwinsInv, RunInv, StoppedInv

\* Every step of SPI and of Klipper's code around it.
LEMMA SpiKeeps == SpiInv /\ Step => SpiInv'
<1> SUFFICES ASSUME SpiInv, Step PROVE SpiInv'
  OBVIOUS
<1>1. CASE spi_shutdown
  <2>1. is_shutdown
    BY <1>1 DEF spi_shutdown, SpiInv, RunInv
  <2> QED BY <1>1, <2>1, ShutdownKeeps
<1>2. CASE spidev_shutdown
  <2>1. is_shutdown /\ is_shutdown'
        /\ ("spi_shutdown" \in handlers' <=> "spi_shutdown" \in handlers)
        /\ UNCHANGED <<spi_devices, spi_device_count, initialized, owned, live,
                       spi_config, spi_asked>>
    BY <1>2 DEF spidev_shutdown, SpiInv, RunInv, spi
  <2> QED BY <2>1 DEF SpiInv, TableInv, TwinsInv, RunInv, StoppedInv
<1>3. CASE OtherShutdown
  <2>1. is_shutdown' /\ "spi_shutdown" \in handlers'
        /\ UNCHANGED <<spi_devices, spi_device_count, initialized, owned, live,
                       spi_config, spi_asked>>
    BY <1>3 DEF OtherShutdown, Raise, ShutdownFunctions, spi
  <2> QED BY <2>1 DEF SpiInv, TableInv, TwinsInv, RunInv, StoppedInv
<1> QED BY <1>1, <1>2, <1>3, SetupKeeps, SetupFailsKeeps, TransferKeeps DEF Step

\* The port is given when the bus's handle is set, and only then.
I2cInv ==
  /\ i2c0_handle \in BOOLEAN /\ port_given = i2c0_handle
  /\ RefusedForCause

\* The bus is created when there is none, and so never refused for being given.
LEMMA I2cKeeps == I2cInv /\ I!Next => I2cInv'
<1> SUFFICES ASSUME I2cInv, I!Next PROVE I2cInv'
  OBVIOUS
<1> USE DEF I2cInv, RefusedForCause, I!RefusedForCause
<1>1. ASSUME I!HaveBus
      PROVE  i2c0_handle' \in BOOLEAN /\ port_given' = i2c0_handle'
  BY <1>1 DEF I!HaveBus, I!NeedsBus, I!NewBus, I!bus
<1>2. ASSUME NEW o \in Oids, NEW n \in Buses, NEW rate \in Rates, I!Setup(o, n, rate)
      PROVE  I2cInv'
  BY <1>1, <1>2 DEF I!Setup
<1>3. ASSUME NEW n \in Buses, NEW rate \in Rates, I!SetupFails(n, rate)
      PROVE  I2cInv'
  <2>1. CASE ~I!Asks(n, rate) /\ refusal' = "request" /\ UNCHANGED I!bus
    BY <2>1 DEF I!bus
  <2>2. CASE /\ I!NeedsBus /\ UNCHANGED I!bus
             /\ refusal' = IF port_given THEN "port given" ELSE "driver"
    BY <2>2 DEF I!NeedsBus, I!bus
  <2>3. CASE /\ I!HaveBus
             /\ refusal' = IF devices < MaxDevices THEN "driver" ELSE "memory"
    BY <1>1, <2>3
  <2> QED BY <1>3, <2>1, <2>2, <2>3 DEF I!SetupFails
<1>4. ASSUME UNCHANGED <<i2c0_handle, port_given, refusal>>
      PROVE  I2cInv'
  BY <1>4
<1> QED BY <1>2, <1>3, <1>4 DEF I!Next, I!Transfer, I!Shutdown, I!bus

BusesInv == SpiInv /\ I2cInv

\* The tables of both are empty out of reset.
LEMMA ResetKeeps ==
  /\ BusesInit => BusesInv
  /\ command_reset => BusesInv'
<1>1. ASSUME BusesInit PROVE BusesInv
  <2>1. SpiInv
    BY <1>1, SlotKinds, SpiAssumption
       DEF BusesInit, Init, SpiInit, SpiInv, TableInv, TwinsInv, RunInv, StoppedInv, Unset
  <2>2. I2cInv
    BY <1>1 DEF BusesInit, I!Init, I2cInv, RefusedForCause, I!RefusedForCause
  <2> QED BY <2>1, <2>2 DEF BusesInv
<1>2. ASSUME command_reset PROVE BusesInv'
  <2>1. SpiInv'
    BY <1>2, SlotKinds, SpiAssumption
       DEF command_reset, SpiRestart, SpiInv, TableInv, TwinsInv, RunInv, StoppedInv, Unset
  <2>2. I2cInv'
    BY <1>2 DEF command_reset, I2cInv, RefusedForCause, I!RefusedForCause
  <2> QED BY <2>1, <2>2 DEF BusesInv
<1> QED BY <1>1, <1>2

\* A step of I2C is at most a shutdown to SPI.
LEMMA I2cLeavesSpi == SpiInv /\ I2cStep => SpiInv'
<1> SUFFICES ASSUME SpiInv, I2cStep PROVE SpiInv'
  OBVIOUS
<1>1. UNCHANGED <<spi_devices, spi_device_count, initialized, owned, live,
                  spi_config, spi_asked, stale>>
  BY DEF I2cStep, spi_vars
<1>2. is_shutdown => is_shutdown'
  BY DEF I2cStep, I!Next, I!Setup, I!SetupFails, I!Transfer, I!Shutdown
<1>3. \/ is_shutdown' = is_shutdown /\ handlers' = handlers
      \/ is_shutdown' /\ is_shutdown /\ handlers' = handlers
      \/ is_shutdown' /\ "spi_shutdown" \in handlers'
      \/ ~is_shutdown' /\ ~is_shutdown /\ handlers' = handlers
  BY <1>2 DEF I2cStep, ShutdownFunctions
<1> QED BY <1>1, <1>3 DEF SpiInv, TableInv, TwinsInv, RunInv, StoppedInv

\* The invariant of both holds in every reachable state.
LEMMA BusesInvariance == BusesSpec => []BusesInv
<1>1. BusesInit => BusesInv
  BY ResetKeeps
<1>2. BusesInv /\ [BusesNext]_<<i2c_vars, spi_vars, is_shutdown, handlers>> => BusesInv'
  <2> SUFFICES ASSUME BusesInv, [BusesNext]_<<i2c_vars, spi_vars, is_shutdown, handlers>>
               PROVE  BusesInv'
    OBVIOUS
  <2>1. CASE I2cStep
    BY <2>1, I2cLeavesSpi, I2cKeeps DEF BusesInv, I2cStep
  <2>2. CASE SpiStep
    <3>1. I2cInv'
      BY <2>2 DEF SpiStep, i2c_vars, BusesInv, I2cInv, RefusedForCause, I!RefusedForCause
    <3> QED BY <2>2, <3>1, SpiKeeps DEF BusesInv, SpiStep
  <2>3. CASE command_reset
    BY <2>3, ResetKeeps
  <2>4. CASE UNCHANGED <<i2c_vars, spi_vars, is_shutdown, handlers>>
    BY <2>4 DEF i2c_vars, spi_vars, BusesInv, SpiInv, TableInv, TwinsInv, RunInv,
                StoppedInv, I2cInv, RefusedForCause, I!RefusedForCause
  <2> QED BY <2>1, <2>2, <2>3, <2>4 DEF BusesNext
<1> QED BY <1>1, <1>2, PTL DEF BusesSpec

-----------------------------------------------------------------------------
\* While the firmware runs every SPI object keeps a live handle of its own
\* settings, shared exactly with its likes (spi.c:53-61).
THEOREM SpiHandlesKept == BusesSpec => []HandlesKept
<1>1. BusesInv => HandlesKept
  BY SlotKinds DEF BusesInv, SpiInv, TableInv, TwinsInv, RunInv, HandlesKept
<1> QED BY <1>1, BusesInvariance, PTL

\* After spi_shutdown nothing of the driver is held (spi.c:193-213).
THEOREM SpiNothingHeld == BusesSpec => []NothingHeld
<1>1. BusesInv => NothingHeld
  BY DEF BusesInv, SpiInv, TableInv, StoppedInv, NothingHeld
<1> QED BY <1>1, BusesInvariance, PTL

\* No I2C device is ever refused because its bus was given already (i2c.c:45-56).
THEOREM I2cRefusedForCause == BusesSpec => []RefusedForCause
<1>1. BusesInv => RefusedForCause
  BY DEF BusesInv, I2cInv
<1> QED BY <1>1, BusesInvariance, PTL

-----------------------------------------------------------------------------
\* An input's handle and channel are those of the pin asked for, configured.
Gpios == [pin : Nat, handle : Units \cup {NULL}, chan : Nat]

OwnPin(in, configured) ==
  /\ in.pin \in DOMAIN adc_lookup /\ <<in.handle, in.chan>> \in configured
  /\ adc_lookup[in.pin] = [unit |-> in.handle, chan |-> in.chan]

AdcInv ==
  /\ adc_handles \in [Units -> Units \cup {NULL}]
  /\ \A u \in Units : adc_handles[u] \in {NULL, u}
  /\ input \in [Inputs -> Gpios]
  /\ \A o \in Inputs : input[o] = NoInput \/ OwnPin(input[o], channels)

\* A sum under way has none but readings of its own pin, and zeros of failed
\* ones only when the machine was shut down before it was begun.
SumInv ==
  /\ halted \in BOOLEAN
  /\ state \in [Inputs -> Nat] /\ made \in [Inputs -> [own : Nat, zero : Nat]]
  /\ \A o \in Inputs : state[o] =< SampleCount =>
       made[o].own + made[o].zero = state[o] /\ (~halted => made[o].zero = 0)
  /\ ReportsAreReal

\* No two pins have one channel, so that a channel names its pin.
LEMMA PinNamed ==
  ASSUME NEW in \in Gpios, OwnPin(in, channels)
  PROVE  PinOf(in.handle, in.chan) = in.pin
<1> DEFINE P(q) == /\ q \in DOMAIN adc_lookup
                   /\ adc_lookup[q] = [unit |-> in.handle, chan |-> in.chan]
<1>1. DOMAIN adc_lookup = 0 .. 5
  BY DEF adc_lookup
<1>2. \A q \in 0 .. 5 : adc_lookup[q] = IF q < 5 THEN [unit |-> "UNIT_1", chan |-> q]
                                           ELSE [unit |-> "UNIT_2", chan |-> 0]
  BY DEF adc_lookup
<1>3. \A p, q \in 0 .. 5 : adc_lookup[p] = adc_lookup[q] => p = q
  <2> SUFFICES ASSUME NEW p \in 0 .. 5, NEW q \in 0 .. 5,
                      adc_lookup[p] = adc_lookup[q]
               PROVE  p = q
    OBVIOUS
  <2>1. p < 5 <=> q < 5
    BY <1>2
  <2> QED BY <1>2, <2>1
<1>4. P(in.pin)
  BY DEF OwnPin
<1>5. PinOf(in.handle, in.chan) = CHOOSE q \in DOMAIN adc_lookup :
         adc_lookup[q] = [unit |-> in.handle, chan |-> in.chan]
  BY DEF PinOf
<1>6. P(PinOf(in.handle, in.chan))
  BY <1>4, <1>5
<1> QED BY <1>1, <1>3, <1>4, <1>6

\* Opening a unit gives its handle, and no other unit's changes.
LEMMA UnitOpened ==
  ASSUME AdcInv, NEW u \in Units, OpenUnit(u)
  PROVE  /\ adc_handles' \in [Units -> Units \cup {NULL}]
         /\ \A v \in Units : adc_handles'[v] \in {NULL, v}
BY DEF AdcInv, OpenUnit

\* Every unit of the table is one of the converter's.
LEMMA LookedUp ==
  ASSUME NEW pin \in DOMAIN adc_lookup
  PROVE  /\ adc_lookup[pin].unit \in Units /\ adc_lookup[pin].chan \in Nat
         /\ adc_lookup[pin] = [unit |-> adc_lookup[pin].unit,
                                 chan |-> adc_lookup[pin].chan]
         /\ pin \in Nat
BY DEF adc_lookup, Units

\* Every step keeps both, whether it counts a reading or drops a sum.
LEMMA AdcStep ==
  ASSUME AdcInv, SumInv, [AdcNext]_adc_vars
  PROVE  AdcInv' /\ SumInv'
<1>0. ASSUME NEW o \in Inputs, NEW zero \in {0, 1}, zero = 1 => halted,
             Count(o, Readings(1 - zero, zero)), UNCHANGED halted, UNCHANGED report
      PROVE  SumInv'
  BY <1>0, AdcAssumption DEF Count, Readings, SumInv, ReportsAreReal
<1>1. ASSUME Shutdown, UNCHANGED made, UNCHANGED report PROVE SumInv'
  BY <1>1, AdcAssumption DEF SumInv, Shutdown, NotSampling, ReportsAreReal
<1>2. ASSUME UNCHANGED setup PROVE AdcInv'
  BY <1>2 DEF AdcInv, OwnPin, setup, NoInput
<1>3. ASSUME UNCHANGED sample, UNCHANGED halted, UNCHANGED report PROVE SumInv'
  BY <1>3 DEF SumInv, sample, ReportsAreReal
<1>4. ASSUME NEW o \in Inputs, NEW pin \in Asked, gpio_adc_setup(o, pin)
      PROVE  AdcInv' /\ SumInv'
  <2> DEFINE a == adc_lookup[pin]
             new == [pin |-> pin, chan |-> a.chan, handle |-> adc_handles'[a.unit]]
  <2>1. pin \in DOMAIN adc_lookup
    BY <1>4 DEF gpio_adc_setup
  <2>2. a.unit \in Units /\ a.chan \in Nat /\ a = [unit |-> a.unit, chan |-> a.chan]
        /\ pin \in Nat
    BY <2>1, LookedUp
  <2> HIDE DEF a
  <2>3. /\ OpenUnit(a.unit) /\ adc_handles'[a.unit] # NULL
        /\ channels' = channels \cup {<<adc_handles'[a.unit], a.chan>>}
        /\ input' = [input EXCEPT ![o] = new]
    BY <1>4 DEF gpio_adc_setup, HandleOf, a
  <2>4. /\ adc_handles' \in [Units -> Units \cup {NULL}]
        /\ \A v \in Units : adc_handles'[v] \in {NULL, v}
    BY <2>2, <2>3, UnitOpened
  <2>5. adc_handles'[a.unit] = a.unit
    BY <2>2, <2>3, <2>4
  <2>6. new \in Gpios /\ new.pin = pin /\ new.handle = a.unit /\ new.chan = a.chan
    BY <2>2, <2>5 DEF Gpios
  <2> HIDE DEF new
  <2>7. OwnPin(new, channels')
    BY <2>1, <2>2, <2>3, <2>5, <2>6 DEF OwnPin, a
  <2>8. \A p \in Inputs : input'[p] = NoInput \/ OwnPin(input'[p], channels')
    <3> TAKE p \in Inputs
    <3>1. CASE p = o
      BY <2>3, <2>7, <3>1 DEF AdcInv
    <3>2. CASE p # o
      BY <2>3, <3>2 DEF AdcInv, OwnPin
    <3> QED BY <3>1, <3>2
  <2>9. UNCHANGED sample /\ UNCHANGED halted /\ UNCHANGED report
    BY <1>4 DEF gpio_adc_setup
  <2> QED BY <1>3, <2>3, <2>4, <2>6, <2>8, <2>9 DEF AdcInv, NoInput
<1>5. ASSUME NEW o \in Inputs, NEW pin \in Asked, gpio_adc_setup_fails(o, pin)
      PROVE  AdcInv' /\ SumInv'
  <2>1. SumInv'
    BY <1>1, <1>5 DEF gpio_adc_setup_fails
  <2>2. /\ adc_handles' \in [Units -> Units \cup {NULL}]
        /\ \A v \in Units : adc_handles'[v] \in {NULL, v}
    BY <1>5, UnitOpened, LookedUp DEF gpio_adc_setup_fails, AdcInv
  <2>3. UNCHANGED <<input, channels>>
    BY <1>5 DEF gpio_adc_setup_fails
  <2> QED BY <2>1, <2>2, <2>3 DEF AdcInv, OwnPin, NoInput
<1>6. ASSUME NEW o \in Inputs, Sample(o) PROVE AdcInv' /\ SumInv'
  <2>1. o \in Configured /\ UNCHANGED <<setup, report>>
    BY <1>6 DEF Sample
  <2>2. CASE gpio_adc_read(o)
    <3>1. input[o] \in Gpios /\ OwnPin(input[o], channels)
      BY <2>1 DEF AdcInv, Configured
    <3>2. PinOf(input[o].handle, input[o].chan) = input[o].pin
      BY <3>1, PinNamed
    <3>3. Count(o, Readings(1, 0)) /\ UNCHANGED halted
      BY <2>2, <3>1, <3>2 DEF gpio_adc_read, OwnPin
    <3> QED BY <1>0, <1>2, <2>1, <3>3
  <2>3. CASE halted /\ Count(o, Readings(0, 1)) /\ UNCHANGED halted
    BY <1>0, <1>2, <2>1, <2>3
  <2>4. CASE Shutdown /\ UNCHANGED made
    BY <1>1, <1>2, <2>1, <2>4
  <2> QED BY <1>6, <2>2, <2>3, <2>4 DEF Sample, ReadFails
<1>7. ASSUME NEW o \in Inputs, Report(o) PROVE AdcInv' /\ SumInv'
  <2>1. SumInv'
    BY <1>7, AdcAssumption DEF Report, SumInv, ReportsAreReal
  <2>2. UNCHANGED setup
    BY <1>7 DEF Report
  <2> QED BY <1>2, <2>1, <2>2
<1>8. ASSUME HaltElsewhere PROVE AdcInv' /\ SumInv'
  BY <1>1, <1>2, <1>8 DEF HaltElsewhere
<1>9. ASSUME UNCHANGED adc_vars PROVE AdcInv' /\ SumInv'
  BY <1>2, <1>3, <1>9 DEF adc_vars, setup, sample
<1> QED BY <1>4, <1>5, <1>6, <1>7, <1>8, <1>9 DEF AdcNext

(***************************************************************************)
(* What is reported is the sum of sample_count readings of the input's own *)
(* pin, in whatever order the units' pins are set up and whatever fails in *)
(* the middle of a sum; a failed reading's zero is among them only after a *)
(* shutdown (adc.c:111-133, adc.c:149-153).                                *)
(***************************************************************************)
THEOREM AdcReportsReal == AdcSpec => []ReportsAreReal
<1>1. AdcInit => AdcInv /\ SumInv
  <2> SUFFICES ASSUME AdcInit PROVE AdcInv /\ SumInv
    OBVIOUS
  <2>1. AdcInv
    BY DEF AdcInit, AdcInv, NoInput, Gpios
  <2>2. SumInv
    <3>1. SampleCount \in Nat /\ NotSampling \in Nat /\ ~(NotSampling =< SampleCount)
      BY AdcAssumption DEF NotSampling
    <3>2. ReportsAreReal
      BY <3>1 DEF AdcInit, ReportsAreReal, Readings
    <3>3. Readings(0, 0) \in [own : Nat, zero : Nat]
      BY DEF Readings
    <3> QED BY <3>1, <3>2, <3>3 DEF AdcInit, SumInv
  <2> QED BY <2>1, <2>2
<1>2. (AdcInv /\ SumInv) /\ [AdcNext]_adc_vars => (AdcInv /\ SumInv)'
  BY AdcStep
<1>3. AdcInv /\ SumInv => ReportsAreReal
  BY DEF SumInv
<1> QED BY <1>1, <1>2, <1>3, PTL DEF AdcSpec
=============================================================================
