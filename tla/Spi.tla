--------------------------------- MODULE Spi ---------------------------------
(***************************************************************************)
(* SPI (spi.c): a table of device slots over the driver's devices, one per *)
(* bus, mode and rate and shared by the objects that ask for the same; the *)
(* buses, each initialised with its first device; and the shutdown         *)
(* function that gives all of it back.                                     *)
(*                                                                         *)
(* Klipper's spicmds.c, which keeps a handle in each of its objects and    *)
(* sends shutdown messages with a shutdown function of its own, is         *)
(* external.  All of it runs in the Klipper task; shutdown functions run   *)
(* in an order the linker chooses, and again when one raises a shutdown.   *)
(***************************************************************************)
EXTENDS Naturals, FiniteSets, FiniteSetsExt

CONSTANTS
  Spidevs,                     \* object ids of SPI devices
  SpiBuses, Modes, SpiRates,   \* what the host asks for, good or not
  NumBuses,                    \* ARRAY_SIZE(spi_bus)
  MaxSlots                     \* MAX_SPI_DEVICES

ASSUME SpiAssumption ==
  /\ IsFiniteSet(Spidevs) /\ SpiBuses \subseteq Nat
  /\ NumBuses \in Nat /\ MaxSlots \in Nat \ {0}

Slots    == 0 .. MaxSlots - 1
Settings == [bus : SpiBuses, mode : Modes, rate : SpiRates]
Free     == [in_use |-> FALSE]
Used(s)  == [in_use |-> TRUE, settings |-> s]
Unset    == MaxSlots       \* no handle

VARIABLES
  spi_devices,        \* the slots; a handle is named by the slot that holds it
  spi_device_count,
  initialized,        \* buses marked initialised
  owned,              \* external: buses the driver has given
  live,               \* external: slots whose device the driver has
  spi_config,         \* external: the handle each object keeps, or Unset
  spi_asked,          \* external: what each object asked for
  is_shutdown,
  handlers,           \* external: shutdown functions still to run
  stale               \* history: a transfer went through a removed device

spi  == <<spi_devices, spi_device_count, initialized, owned, live>>
vars == <<spi, spi_config, spi_asked, is_shutdown, handlers, stale>>

SpiInit ==
  /\ spi_devices = [i \in Slots |-> Free] /\ spi_device_count = 0
  /\ initialized = {} /\ owned = {} /\ live = {}
  /\ spi_config = [o \in Spidevs |-> Unset] /\ spi_asked = [o \in Spidevs |-> Unset]
  /\ stale = FALSE

Init == SpiInit /\ is_shutdown = FALSE /\ handlers = {}

ShutdownFunctions == {"spi_shutdown", "spidev_shutdown"}
Raise == is_shutdown' = TRUE /\ handlers' = ShutdownFunctions

-----------------------------------------------------------------------------
\* Mutants: slips in spi.c.

\* The mode left out of the search for a slot.
matches_any_mode(i, s) == spi_devices[i].settings.bus = s.bus
                          /\ spi_devices[i].settings.rate = s.rate

\* A bus not marked until a device is on it, and then forgotten.
marked_never(b) == initialized

-----------------------------------------------------------------------------
\* spi_get_device: the first slot in use with the settings asked for.
matches(i, s) == spi_devices[i].settings = s

Found(s) == {i \in Slots : i < spi_device_count /\ spi_devices[i].in_use /\ matches(i, s)}

Available == {i \in Slots : ~spi_devices[i].in_use}

count_with(i) == IF i >= spi_device_count THEN i + 1 ELSE spi_device_count

marked(b) == initialized \cup {b}

\* spi_bus_initialize, unless the bus is marked: it gives a bus once.
InitializeBus(b) ==
  IF b \in initialized
  THEN UNCHANGED <<initialized, owned>>
  ELSE b \notin owned /\ initialized' = marked(b) /\ owned' = owned \cup {b}

spi_setup(o, s) ==
  /\ ~is_shutdown /\ spi_config[o] = Unset
  /\ \/ /\ Found(s) # {}
        /\ spi_config' = [spi_config EXCEPT ![o] = Min(Found(s))]
        /\ UNCHANGED spi
     \/ /\ Found(s) = {} /\ Available # {} /\ s.bus < NumBuses
        /\ InitializeBus(s.bus)
        /\ LET slot == Min(Available)
           IN  /\ spi_devices' = [spi_devices EXCEPT ![slot] = Used(s)]
               /\ spi_device_count' = count_with(slot)
               /\ live' = live \cup {slot}
               /\ spi_config' = [spi_config EXCEPT ![o] = slot]
  /\ spi_asked' = [spi_asked EXCEPT ![o] = s]
  /\ UNCHANGED <<is_shutdown, handlers, stale>>

\* No slot, no such bus, a bus or a device that the driver refuses: the last
\* of these leaves the bus initialised.
spi_setup_fails(o, s) ==
  /\ ~is_shutdown /\ spi_config[o] = Unset /\ Found(s) = {}
  /\ Raise
  /\ \/ UNCHANGED <<initialized, owned>>
     \/ Available # {} /\ s.bus < NumBuses /\ InitializeBus(s.bus)
  /\ UNCHANGED <<spi_devices, spi_device_count, live, spi_config, spi_asked, stale>>

\* spi_transfer of at least a byte; its failure is a try_shutdown.
spi_transfer(o) ==
  /\ ~is_shutdown /\ spi_config[o] # Unset
  /\ stale' = (stale \/ spi_config[o] \notin live)
  /\ Raise \/ UNCHANGED <<is_shutdown, handlers>>
  /\ UNCHANGED <<spi, spi_config, spi_asked>>

\* The walk of spi_shutdown over the first spi_device_count slots, then the
\* buses: one that still has devices is not given back, and marked free.
Removed == {i \in Slots : i < spi_device_count /\ spi_devices[i].in_use}

spi_shutdown ==
  /\ "spi_shutdown" \in handlers
  /\ handlers' = handlers \ {"spi_shutdown"}
  /\ spi_devices' = [i \in Slots |-> IF i \in Removed THEN Free ELSE spi_devices[i]]
  /\ spi_device_count' = 0
  /\ live' = live \ Removed
  /\ initialized' = {}
  /\ owned' = owned \ {b \in initialized : \A i \in live' : spi_devices[i].settings.bus # b}
  /\ UNCHANGED <<spi_config, spi_asked, is_shutdown, stale>>

-----------------------------------------------------------------------------
\* External: a shutdown message to every object that has a bus.
spidev_shutdown ==
  /\ "spidev_shutdown" \in handlers
  /\ handlers' = handlers \ {"spidev_shutdown"}
  /\ stale' = (stale \/ \E o \in Spidevs : spi_config[o] \in Slots \ live)
  /\ UNCHANGED <<spi, spi_config, spi_asked, is_shutdown>>

\* External: a shutdown, or one raised again: by another shutdown function, or
\* by emergency_stop, which is taken in a shutdown too.
OtherShutdown == Raise /\ UNCHANGED <<spi, spi_config, spi_asked, stale>>

\* A reset: everything as out of power.
SpiRestart ==
  /\ spi_devices' = [i \in Slots |-> Free] /\ spi_device_count' = 0
  /\ initialized' = {} /\ owned' = {} /\ live' = {}
  /\ spi_config' = [o \in Spidevs |-> Unset] /\ spi_asked' = [o \in Spidevs |-> Unset]
  /\ stale' = FALSE

Step ==
  \/ \E o \in Spidevs :
       spi_transfer(o) \/ \E s \in Settings : spi_setup(o, s) \/ spi_setup_fails(o, s)
  \/ spi_shutdown \/ spidev_shutdown \/ OtherShutdown

Next == Step \/ (SpiRestart /\ is_shutdown' = FALSE /\ handlers' = {})

Spec == Init /\ [][Next]_vars

-----------------------------------------------------------------------------
(***************************************************************************)
(* While the firmware runs an object's handle is a live device of the bus, *)
(* mode and rate it asked for, and two objects share one exactly when they *)
(* asked for the same (spi.c:53-61); no transfer has met a removed device. *)
(***************************************************************************)
HandlesKept ==
  ~is_shutdown =>
    /\ ~stale
    /\ \A o \in Spidevs : spi_config[o] # Unset =>
         /\ spi_config[o] \in live
         /\ spi_devices[spi_config[o]] = Used(spi_asked[o])
         /\ spi_asked[o].bus \in owned
         /\ \A p \in Spidevs : spi_config[p] # Unset /\ spi_asked[p] = spi_asked[o]
                                 => spi_config[p] = spi_config[o]

(***************************************************************************)
(* Whatever failed, and in the middle of which setup, a shutdown gives     *)
(* back every device and bus the driver has given (spi.c:193-213).         *)
(***************************************************************************)
NothingHeld ==
  is_shutdown /\ "spi_shutdown" \notin handlers =>
    live = {} /\ owned = {} /\ \A i \in Slots : ~spi_devices[i].in_use
=============================================================================
