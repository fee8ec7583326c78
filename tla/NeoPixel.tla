------------------------------- MODULE NeoPixel -------------------------------
(***************************************************************************)
(* NeoPixel strips on the RMT peripheral (neopixel_rmt.c): configuration,  *)
(* updates of a strip's colour buffer, and sends of it.  The peripheral    *)
(* reads the buffer while it transmits, so after a send that timed out the *)
(* two run at once.  The strip is external: it keeps its own bytes, passes *)
(* on what follows them, and shows what it holds once its line has been    *)
(* quiet for the reset time.                                               *)
(***************************************************************************)
EXTENDS Naturals, FiniteSets

CONSTANTS
  Oids, Colours,
  Foreign,          \* a byte that is not the buffer's
  MaxData,          \* NEOPIXEL_MAX_DATA_SIZE
  Room,             \* bytes of memory looked at from a buffer's start
  Channels          \* transmit channels of the RMT peripheral

ASSUME NeoPixelAssumption ==
  /\ IsFiniteSet(Oids) /\ 0 \in Colours /\ Foreign \notin Colours
  /\ MaxData \in Nat \ {0} /\ Room \in Nat /\ Room > MaxData
  /\ Channels \in Nat

VARIABLES
  data_size,        \* 0 while the object is not allocated
  data,             \* data[], and the memory behind it
  claimed, enabled, \* external: channels created, and those enabled
  is_shutdown,
  pc, oid,          \* where a send is, and whose
  queued, sent,     \* external: transmissions under way, bytes clocked out
  held, latch,      \* external: bytes in the strip since its reset, and which
  shown,            \* external: what the strip shows
  late              \* history: strips a timed-out frame may run into

object == <<data_size, data, claimed, enabled, is_shutdown>>
line   == <<queued, sent, held, latch, shown>>
vars   == <<object, pc, oid, line, late>>

Cells    == 0 .. Room - 1
Fresh(n) == [i \in Cells |-> IF i < n THEN 0 ELSE Foreign]
Dark     == [i \in 0 .. MaxData - 1 |-> 0]

Init ==
  /\ data_size = [o \in Oids |-> 0] /\ data = [o \in Oids |-> Fresh(0)]
  /\ claimed = {} /\ enabled = {} /\ is_shutdown = FALSE
  /\ pc = "idle" /\ oid \in Oids /\ queued = {} /\ late = {}
  /\ sent = [o \in Oids |-> 0] /\ held = [o \in Oids |-> 0]
  /\ latch = [o \in Oids |-> Dark] /\ shown = [o \in Oids |-> Dark]

(* External: commands run one at a time, these not at all while shut down. *)
Command == pc = "idle" /\ ~is_shutdown

-----------------------------------------------------------------------------
(* Mutants: slips in neopixel_rmt.c.                                       *)

(* The update is checked by where it begins.                               *)
Fits_by_start(o, pos, len) == pos <= data_size[o]

(* No reset time after a transmission.                                     *)
WaitDone_no_reset ==
  /\ pc = "wait" /\ oid \notin queued
  /\ pc' = "succeeded"
  /\ UNCHANGED <<object, oid, line, late>>

(* rmt_transmit's result is the send's.                                    *)
Transmit_no_wait ==
  /\ pc = "transmit" /\ oid \notin queued
  /\ queued' = queued \cup {oid} /\ sent' = [sent EXCEPT ![oid] = 0]
  /\ late' = IF held[oid] = 0 THEN late \ {oid} ELSE late
  /\ pc' = "failed"
  /\ UNCHANGED <<object, oid, held, latch, shown>>

(* A failed encoder or enable is let pass.                                 *)
ConfigFails_quietly(o, n) ==
  /\ Command /\ data_size[o] = 0 /\ n \in 1 .. MaxData
  /\ Cardinality(claimed) < Channels
  /\ data_size' = [data_size EXCEPT ![o] = n]
  /\ data' = [data EXCEPT ![o] = Fresh(n)]
  /\ claimed' = claimed \cup {o}
  /\ UNCHANGED <<enabled, is_shutdown, pc, oid, line, late>>

-----------------------------------------------------------------------------
(* command_config_neopixel.  The object is allocated before the channel,   *)
(* the encoder and their enabling are tried; any failure is a shutdown.    *)
Allocate(o, n) ==
  /\ data_size' = [data_size EXCEPT ![o] = n]
  /\ data' = [data EXCEPT ![o] = Fresh(n)]

Config(o, n) ==
  /\ Command /\ data_size[o] = 0 /\ n \in 1 .. MaxData
  /\ Cardinality(claimed) < Channels
  /\ Allocate(o, n)
  /\ claimed' = claimed \cup {o} /\ enabled' = enabled \cup {o}
  /\ UNCHANGED <<is_shutdown, pc, oid, line, late>>

ConfigFails(o, n) ==
  /\ Command /\ is_shutdown' = TRUE
  /\ IF data_size[o] # 0 \/ n \notin 1 .. MaxData
     THEN UNCHANGED <<data_size, data, claimed>>
     ELSE /\ Allocate(o, n)
          /\ claimed' \in {claimed} \cup
               {claimed \cup {o} : c \in 1 .. Channels - Cardinality(claimed)}
  /\ UNCHANGED <<enabled, pc, oid, line, late>>

(* command_neopixel_update: the bytes must lie in the buffer.              *)
Fits(o, pos, len) == pos + len <= data_size[o]

Update(o, pos, len) ==
  /\ Command /\ data_size[o] # 0
  /\ IF Fits(o, pos, len)
     THEN /\ \E bytes \in [pos .. pos + len - 1 -> Colours] :
               data' = [data EXCEPT ![o] = [i \in Cells |->
                 IF i \in DOMAIN bytes THEN bytes[i] ELSE data[o][i]]]
          /\ UNCHANGED is_shutdown
     ELSE is_shutdown' = TRUE /\ UNCHANGED data
  /\ UNCHANGED <<data_size, claimed, enabled, pc, oid, line, late>>

(* command_neopixel_send: rmt_transmit, for which an earlier transmission  *)
(* must have ended as its queue holds one; a wait of 20 ms for its end;    *)
(* the reset time; and the reply, its success or not.                      *)
SendStart(o) ==
  /\ Command /\ data_size[o] # 0
  /\ pc' = "transmit" /\ oid' = o
  /\ UNCHANGED <<object, line, late>>

Transmit ==
  /\ pc = "transmit" /\ oid \notin queued
  /\ queued' = queued \cup {oid} /\ sent' = [sent EXCEPT ![oid] = 0]
  /\ late' = IF held[oid] = 0 THEN late \ {oid} ELSE late
  /\ pc' = "wait"
  /\ UNCHANGED <<object, oid, held, latch, shown>>

TransmitFails ==
  /\ pc = "transmit" /\ pc' = "failed"
  /\ UNCHANGED <<object, oid, line, late>>

WaitDone ==
  /\ pc = "wait" /\ oid \notin queued
  /\ pc' = "reset"
  /\ UNCHANGED <<object, oid, line, late>>

WaitTimesOut ==
  /\ pc = "wait" /\ oid \in queued
  /\ pc' = "failed" /\ late' = late \cup {oid}
  /\ UNCHANGED <<object, oid, line>>

ResetDelay ==
  /\ pc = "reset" /\ held[oid] = 0
  /\ pc' = "succeeded"
  /\ UNCHANGED <<object, oid, line, late>>

Reply ==
  /\ pc \in {"succeeded", "failed"} /\ pc' = "idle"
  /\ UNCHANGED <<object, oid, line, late>>

(* External: another part of the firmware shuts the machine down.          *)
Shutdown ==
  /\ Command /\ is_shutdown' = TRUE
  /\ UNCHANGED <<data_size, data, claimed, enabled, pc, oid, line, late>>

-----------------------------------------------------------------------------
(* External: the peripheral clocks a byte out of the buffer; the strip     *)
(* takes it while it has room.                                             *)
ClockOut(o) ==
  /\ o \in queued
  /\ sent' = [sent EXCEPT ![o] = @ + 1]
  /\ queued' = IF sent'[o] = data_size[o] THEN queued \ {o} ELSE queued
  /\ IF held[o] < data_size[o]
     THEN /\ latch' = [latch EXCEPT ![o][held[o]] = data[o][sent[o]]]
          /\ held' = [held EXCEPT ![o] = @ + 1]
     ELSE UNCHANGED <<latch, held>>
  /\ UNCHANGED <<object, pc, oid, shown, late>>

(* External: the line has been quiet for the reset time.                   *)
Latch(o) ==
  /\ o \notin queued /\ held[o] > 0
  /\ shown' = [shown EXCEPT ![o] = latch[o]]
  /\ held' = [held EXCEPT ![o] = 0]
  /\ UNCHANGED <<object, pc, oid, queued, sent, latch, late>>

Next ==
  \/ \E o \in Oids :
       \/ \E n \in 0 .. MaxData + 1 : Config(o, n) \/ ConfigFails(o, n)
       \/ \E pos \in 0 .. Room, len \in 0 .. Room : Update(o, pos, len)
       \/ SendStart(o) \/ ClockOut(o) \/ Latch(o)
  \/ Transmit \/ TransmitFails \/ WaitDone \/ WaitTimesOut
  \/ ResetDelay \/ Reply \/ Shutdown

Spec == Init /\ [][Next]_vars

-----------------------------------------------------------------------------
(* A reply of success means that the strip shows the buffer, whole and as  *)
(* it is, unless an earlier send timed out and its frame was not latched   *)
(* when this one began (neopixel_rmt.c:103-109).                           *)
SuccessShown ==
  pc = "succeeded" /\ oid \notin late =>
    \A i \in 0 .. data_size[oid] - 1 : shown[oid][i] = data[oid][i]

(* The buffer stands still while the peripheral reads it: only a timed-out *)
(* send leaves a transmission behind that an update can tear.              *)
BufferStill ==
  [][\A o \in queued : data'[o] # data[o] => o \in late]_vars

(* What a strip shows changes to nothing but the buffer, whole and as it   *)
(* stands, however sends fail and updates come between them: only one that *)
(* timed out puts a frame on the strip that is torn or behind              *)
(* (neopixel_rmt.c:103-109).                                               *)
NoTornFrame ==
  [][\A o \in Oids \ late :
       shown'[o] # shown[o] =>
         \A i \in 0 .. data_size[o] - 1 : shown'[o][i] = data[o][i]]_vars

(* No command uses what its object does not have: an update writes no byte *)
(* behind the buffer, wherever it starts and however long it is            *)
(* (neopixel_rmt.c:88), and a send runs on a channel that is set up,       *)
(* although the object exists before its channel and stays when that fails *)
(* (neopixel_rmt.c:41-74).                                                 *)
UsesOnlyItsOwn ==
  /\ \A o \in Oids, i \in Cells : i >= data_size[o] => data[o][i] = Foreign
  /\ pc # "idle" => oid \in enabled
=============================================================================
