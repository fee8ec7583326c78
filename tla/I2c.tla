--------------------------------- MODULE I2c ---------------------------------
(***************************************************************************)
(* The hardware I2C bus (i2c.c): one bus, created with the first device    *)
(* and shared by all, since the driver gives a port only once.  Addresses  *)
(* and rates in range go to the driver as they are, and are left out.      *)
(*                                                                         *)
(* Klipper's i2ccmds.c, which keeps the handle in each of its objects,     *)
(* issues transfers and shuts the machine down when one fails, is          *)
(* external; it lets the host set up an object more than once.             *)
(***************************************************************************)
EXTENDS Naturals

CONSTANTS
  Oids,
  Buses, Rates,   \* what the host asks for, good or not
  MaxRate,        \* 1000000
  MaxDevices      \* external: devices the driver has memory for

Errors == {"ESP_OK", "ESP_ERR_TIMEOUT", "ESP_ERR_INVALID_STATE", "ESP_FAIL"}

VARIABLES
  i2c0_handle,    \* the bus's handle is set
  port_given,     \* external: the driver has given I2C_NUM_0 away
  devices,        \* external: devices the driver has added to the bus
  config,         \* struct i2c_config of each object, 0 for none
  is_shutdown,
  refusal         \* history: why a set-up ended without a device

bus  == <<i2c0_handle, port_given>>
vars == <<bus, devices, config, is_shutdown, refusal>>

Init ==
  /\ i2c0_handle = FALSE /\ port_given = FALSE /\ devices = 0
  /\ config = [o \in Oids |-> 0]
  /\ is_shutdown = FALSE /\ refusal = "none"

-----------------------------------------------------------------------------
(* Mutants: slips in i2c.c.                                                *)

(* A bus created for every device.                                         *)
NeedsBus_always == TRUE

-----------------------------------------------------------------------------
Asks(n, rate) == n = 0 /\ rate \in 1 .. MaxRate

(* The bus is created when there is no handle of it.                       *)
NeedsBus == ~i2c0_handle

(* External: i2c_new_master_bus, which gives a port once.                  *)
NewBus == ~port_given /\ port_given' = TRUE /\ i2c0_handle' = TRUE

HaveBus == IF NeedsBus THEN NewBus ELSE UNCHANGED bus

(* i2c_setup: the bus on first use, then a device on it.                   *)
Setup(o, n, rate) ==
  /\ ~is_shutdown /\ Asks(n, rate)
  /\ HaveBus
  /\ devices < MaxDevices /\ devices' = devices + 1
  /\ config' = [config EXCEPT ![o] = devices']
  /\ UNCHANGED <<is_shutdown, refusal>>

(* Every failure is a shutdown, one after the bus was created leaves it.   *)
(* The driver may fail of itself at either call.                           *)
SetupFails(n, rate) ==
  /\ ~is_shutdown /\ is_shutdown' = TRUE
  /\ \/ ~Asks(n, rate) /\ refusal' = "request" /\ UNCHANGED bus
     \/ /\ Asks(n, rate) /\ NeedsBus /\ UNCHANGED bus
        /\ refusal' = IF port_given THEN "port given" ELSE "driver"
     \/ /\ Asks(n, rate) /\ HaveBus
        /\ refusal' = IF devices < MaxDevices THEN "driver" ELSE "memory"
  /\ UNCHANGED <<devices, config>>

(* i2c_write and i2c_read end with the driver's error, and their result    *)
(* goes to i2ccmds.c.                                                      *)
i2c_result(error) ==
  CASE error = "ESP_OK"          -> "I2C_BUS_SUCCESS"
    [] error = "ESP_ERR_TIMEOUT" -> "I2C_BUS_TIMEOUT"
    [] OTHER                     -> "I2C_BUS_NACK"

(* External: i2c_shutdown_on_err.                                          *)
Transfer(o, error) ==
  /\ ~is_shutdown /\ config[o] # 0
  /\ is_shutdown' = (i2c_result(error) # "I2C_BUS_SUCCESS")
  /\ UNCHANGED <<bus, devices, config, refusal>>

(* External: another part of the firmware shuts the machine down.          *)
Shutdown ==
  /\ is_shutdown' = TRUE
  /\ UNCHANGED <<bus, devices, config, refusal>>

Next ==
  \/ \E n \in Buses, rate \in Rates :
       SetupFails(n, rate) \/ \E o \in Oids : Setup(o, n, rate)
  \/ \E o \in Oids, error \in Errors : Transfer(o, error)
  \/ Shutdown

Spec == Init /\ [][Next]_vars

-----------------------------------------------------------------------------
(* A request in range is refused only because the driver fails of itself,  *)
(* or has no memory for one device more: never because the bus it needs    *)
(* has been given already, to an earlier device.                           *)
RefusedForCause == refusal # "port given"

=============================================================================
