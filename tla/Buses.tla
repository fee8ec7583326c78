-------------------------------- MODULE Buses --------------------------------
(***************************************************************************)
(* SPI and I2C in one firmware.  Both run in the Klipper task and fail     *)
(* into the same shutdown, whose functions give back SPI's devices and     *)
(* leave I2C's; a reset clears both.                                       *)
(***************************************************************************)
EXTENDS Spi

CONSTANTS Oids, Buses, Rates, MaxRate, MaxDevices

ASSUME I2cAssumption ==
  /\ IsFiniteSet(Oids) /\ Buses \subseteq Nat /\ Rates \subseteq Nat
  /\ MaxRate \in Nat /\ MaxDevices \in Nat

VARIABLES i2c0_handle, port_given, devices, config, refusal

I == INSTANCE I2c

i2c_vars == <<i2c0_handle, port_given, devices, config, refusal>>
spi_vars == <<spi_devices, spi_device_count, initialized, owned, live,
              spi_config, spi_asked, stale>>

BusesInit == Init /\ I!Init

\* A step of i2c.c; a shutdown it raises makes all shutdown functions due.
I2cStep ==
  /\ I!Next
  /\ handlers' = IF is_shutdown' /\ ~is_shutdown THEN ShutdownFunctions ELSE handlers
  /\ UNCHANGED spi_vars

SpiStep == Step /\ UNCHANGED i2c_vars

command_reset ==
  /\ SpiRestart
  /\ i2c0_handle' = FALSE /\ port_given' = FALSE /\ devices' = 0
  /\ config' = [o \in Oids |-> 0] /\ refusal' = "none"
  /\ is_shutdown' = FALSE /\ handlers' = {}

BusesNext == I2cStep \/ SpiStep \/ command_reset

BusesSpec == BusesInit /\ [][BusesNext]_<<i2c_vars, spi_vars, is_shutdown, handlers>>

-----------------------------------------------------------------------------
(***************************************************************************)
(* No I2C device is refused because its bus has been given to an earlier   *)
(* one: the driver gives a port once, so the bus is created with the first *)
(* device, kept when the device then fails, shared by all that follow and  *)
(* forgotten in a reset with the driver's own state (i2c.c:45-56).         *)
(***************************************************************************)
RefusedForCause == I!RefusedForCause
=============================================================================
