---------------------------- MODULE NeoPixelProofs ----------------------------
(***************************************************************************)
(* What a NeoPixel send's success means, and that nothing is used which is *)
(* not the strip's own, for any strips, buffers, colours and channels.  The*)
(* heart is the frame under way: as long as no send has timed out, the     *)
(* strip has taken what the peripheral has read, and that is the buffer.   *)
(***************************************************************************)
EXTENDS NeoPixel, TLAPS

Bytes == Colours \cup {Foreign}
Strip == 0 .. MaxData - 1

TypeInv ==
  /\ data_size \in [Oids -> 0 .. MaxData] /\ data \in [Oids -> [Cells -> Bytes]]
  /\ enabled \subseteq Oids /\ oid \in Oids
  /\ pc \in {"idle", "transmit", "wait", "reset", "succeeded", "failed"}
  /\ queued \subseteq Oids /\ late \subseteq Oids
  /\ sent \in [Oids -> Nat] /\ held \in [Oids -> 0 .. MaxData]
  /\ latch \in [Oids -> [Strip -> Bytes]] /\ shown \in [Oids -> [Strip -> Bytes]]

\* What lies behind a buffer is not touched.
BehindInv == \A o \in Oids, i \in Cells : i >= data_size[o] => data[o][i] = Foreign

\* An object may be without its channel in a shutdown only, when no send begins.
ReadyInv ==
  /\ ~is_shutdown => \A o \in Oids : data_size[o] # 0 => o \in enabled
  /\ pc # "idle" => oid \in enabled /\ data_size[oid] # 0 /\ ~is_shutdown

\* The peripheral is inside the buffer it reads, and the strip within its bytes.
LineInv ==
  \A o \in Oids : /\ o \in queued => sent[o] < data_size[o]
                  /\ held[o] <= data_size[o]

\* Without a timed-out frame, a line is busy for the send under way only.
QuietInv ==
  \A o \in Oids \ late :
    /\ o \in queued => pc = "wait" /\ o = oid
    /\ held[o] > 0 => pc \in {"wait", "reset"} /\ o = oid

\* Bytes before n are those of the buffer.
Same(bytes, n) == \A i \in 0 .. n - 1 : bytes[i] = data[oid][i]

\* How far a send without a timed-out frame has come.
FrameInv ==
  oid \notin late =>
    /\ pc = "wait" /\ oid \in queued =>
         held[oid] = sent[oid] /\ Same(latch[oid], sent[oid])
    /\ pc \in {"wait", "reset"} /\ oid \notin queued =>
         \/ held[oid] = data_size[oid] /\ Same(latch[oid], data_size[oid])
         \/ held[oid] = 0 /\ Same(shown[oid], data_size[oid])
    /\ pc = "succeeded" => Same(shown[oid], data_size[oid])

IInv == TypeInv /\ BehindInv /\ ReadyInv /\ LineInv /\ QuietInv /\ FrameInv

-----------------------------------------------------------------------------
LEMMA Sizes ==
  MaxData \in Nat /\ MaxData > 0 /\ Room \in Nat /\ Room > MaxData /\ 0 \in Colours
BY NeoPixelAssumption

\* An object without a buffer has nothing in it but what is behind it.
LEMMA FreshBytes ==
  ASSUME NEW n \in 0 .. MaxData
  PROVE  /\ Fresh(n) \in [Cells -> Bytes]
         /\ \A i \in Cells : i >= n => Fresh(n)[i] = Foreign
BY Sizes DEF Fresh, Bytes, Cells

LEMMA InitHolds == Init => IInv
<1> SUFFICES ASSUME Init PROVE IInv
  OBVIOUS
<1>1. 0 \in 0 .. MaxData /\ Dark \in [Strip -> Bytes]
  BY Sizes DEF Dark, Strip, Bytes
<1>2. TypeInv
  <2>1. data \in [Oids -> [Cells -> Bytes]] /\ data_size \in [Oids -> 0 .. MaxData]
    BY <1>1, FreshBytes DEF Init
  <2>2. latch \in [Oids -> [Strip -> Bytes]] /\ shown \in [Oids -> [Strip -> Bytes]]
    BY <1>1 DEF Init
  <2> QED BY <1>1, <2>1, <2>2 DEF Init, TypeInv
<1>3. BehindInv
  BY <1>1, FreshBytes DEF Init, BehindInv
<1>4. ReadyInv /\ LineInv /\ QuietInv /\ FrameInv
  BY DEF Init, ReadyInv, LineInv, QuietInv, FrameInv
<1> QED BY <1>2, <1>3, <1>4 DEF IInv

\* A command that changes no line finds no send under way, and starts none: what it
\* does to buffers and channels is all that counts.
LEMMA CommandKeeps ==
  ASSUME IInv, Command, UNCHANGED <<pc, oid, line, late>>,
         data_size' \in [Oids -> 0 .. MaxData], data' \in [Oids -> [Cells -> Bytes]],
         enabled' \subseteq Oids,
         BehindInv',
         \A o \in Oids : data_size'[o] # data_size[o] => data_size[o] = 0,
         ~is_shutdown' => \A o \in Oids : data_size'[o] # 0 => o \in enabled'
  PROVE  IInv'
<1>1. pc = "idle" /\ UNCHANGED <<queued, sent, held, latch, shown>>
  BY DEF Command, line
<1>2. TypeInv'
  BY <1>1 DEF IInv, TypeInv
<1>3. ReadyInv'
  BY <1>1 DEF ReadyInv
<1>4. LineInv'
  <2> SUFFICES ASSUME NEW o \in Oids
               PROVE  /\ o \in queued => sent[o] < data_size'[o]
                      /\ held[o] <= data_size'[o]
    BY <1>1 DEF LineInv
  <2>1. /\ o \in queued => sent[o] < data_size[o]
        /\ held[o] <= data_size[o]
    BY DEF IInv, LineInv
  <2>2. sent[o] \in Nat /\ held[o] \in Nat /\ data_size[o] \in Nat /\ data_size'[o] \in Nat
    BY Sizes DEF IInv, TypeInv
  <2>3. data_size'[o] = data_size[o] \/ data_size[o] = 0
    OBVIOUS
  <2> QED BY <2>1, <2>2, <2>3
<1>5. QuietInv' /\ FrameInv'
  BY <1>1 DEF IInv, QuietInv, FrameInv
<1> QED BY <1>2, <1>3, <1>4, <1>5 DEF IInv

LEMMA ConfigKeeps ==
  ASSUME IInv, NEW o \in Oids, NEW n, Config(o, n) \/ ConfigFails(o, n)
  PROVE  IInv'
<1>1. Command /\ UNCHANGED <<pc, oid, line, late>>
  BY DEF Config, ConfigFails
<1>2. CASE UNCHANGED <<data_size, data>> /\ ConfigFails(o, n)
  <2>1. enabled' = enabled /\ is_shutdown'
    BY <1>2 DEF ConfigFails
  <2> QED BY <1>1, <1>2, <2>1, CommandKeeps DEF IInv, TypeInv, BehindInv
<1>3. CASE /\ Allocate(o, n) /\ data_size[o] = 0 /\ n \in 1 .. MaxData
           /\ Config(o, n) \/ ConfigFails(o, n)
  <2>1. n \in 0 .. MaxData /\ n \in Nat
    BY <1>3, Sizes
  <2>2. /\ data_size' = [data_size EXCEPT ![o] = n] /\ data' = [data EXCEPT ![o] = Fresh(n)]
        /\ data_size \in [Oids -> 0 .. MaxData] /\ data \in [Oids -> [Cells -> Bytes]]
    BY <1>3 DEF Allocate, IInv, TypeInv
  <2>3. /\ data_size' \in [Oids -> 0 .. MaxData] /\ data' \in [Oids -> [Cells -> Bytes]]
        /\ data_size'[o] = n /\ data'[o] = Fresh(n)
        /\ \A x \in Oids \ {o} : data_size'[x] = data_size[x] /\ data'[x] = data[x]
    BY <2>1, <2>2, FreshBytes
  <2>4. BehindInv'
    BY <2>1, <2>3, FreshBytes DEF BehindInv, IInv
  <2>5. enabled' \subseteq Oids
        /\ (~is_shutdown' => o \in enabled' /\ enabled \subseteq enabled' /\ ~is_shutdown)
    BY <1>3 DEF Config, ConfigFails, IInv, TypeInv
  <2>6. ~is_shutdown' => \A x \in Oids : data_size'[x] # 0 => x \in enabled'
    BY <2>3, <2>5 DEF IInv, ReadyInv
  <2> QED BY <1>1, <1>3, <2>3, <2>4, <2>5, <2>6, CommandKeeps
<1> QED BY <1>2, <1>3 DEF Config, ConfigFails

\* An update that fits writes inside its buffer; one that does not writes nothing.
LEMMA UpdateKeeps ==
  ASSUME IInv, NEW o \in Oids, NEW pos \in Nat, NEW len \in Nat, Update(o, pos, len)
  PROVE  IInv'
<1>1. /\ Command /\ UNCHANGED <<data_size, enabled, pc, oid, line, late>>
      /\ is_shutdown => is_shutdown'
  BY DEF Update, Command
<1>2. data' \in [Oids -> [Cells -> Bytes]] /\ BehindInv'
  <2>1. CASE data' = data
    BY <1>1, <2>1 DEF IInv, TypeInv, BehindInv
  <2>2. CASE data' # data
    <3>1. PICK bytes \in [pos .. pos + len - 1 -> Colours] :
            /\ Fits(o, pos, len)
            /\ data' = [data EXCEPT ![o] = [i \in Cells |->
                          IF i \in DOMAIN bytes THEN bytes[i] ELSE data[o][i]]]
      BY <2>2 DEF Update
    <3>2. data_size[o] \in Nat /\ data \in [Oids -> [Cells -> Bytes]]
      BY Sizes DEF IInv, TypeInv
    <3>3. \A i \in Cells : i >= data_size[o] => i \notin DOMAIN bytes
      BY <3>1, <3>2, Sizes DEF Fits, Cells
    <3>4. \A i \in DOMAIN bytes : bytes[i] \in Bytes
      BY DEF Bytes
    <3>5. data' \in [Oids -> [Cells -> Bytes]]
          /\ \A i \in Cells : i \notin DOMAIN bytes => data'[o][i] = data[o][i]
      BY <3>1, <3>2, <3>4
    <3>6. \A x \in Oids \ {o} : data'[x] = data[x]
      BY <3>1, <3>2
    <3> QED BY <1>1, <3>3, <3>5, <3>6 DEF IInv, BehindInv
  <2> QED BY <2>1, <2>2
<1>3. ~is_shutdown' => \A x \in Oids : data_size'[x] # 0 => x \in enabled'
  BY <1>1 DEF IInv, ReadyInv
<1> QED BY <1>1, <1>2, <1>3, CommandKeeps DEF IInv, TypeInv

LEMMA ShutdownKeeps == IInv /\ Shutdown => IInv'
<1> SUFFICES ASSUME IInv, Shutdown PROVE IInv'
  OBVIOUS
<1>1. Command /\ UNCHANGED <<data_size, data, enabled, pc, oid, line, late>> /\ is_shutdown'
  BY DEF Shutdown
<1> QED BY <1>1, CommandKeeps DEF IInv, TypeInv, BehindInv

\* A step of a send: the line may be given a new frame once it is quiet.
LEMMA SendKeeps ==
  ASSUME IInv,
         \/ \E o \in Oids : SendStart(o)
         \/ Transmit \/ TransmitFails \/ WaitDone \/ WaitTimesOut \/ ResetDelay \/ Reply
  PROVE  IInv'
<1>1. UNCHANGED <<data_size, data, enabled, is_shutdown, held, latch, shown>>
  BY DEF SendStart, Transmit, TransmitFails, WaitDone, WaitTimesOut, ResetDelay, Reply,
         object, line
<1>2. BehindInv'
  BY <1>1 DEF IInv, BehindInv
<1>3. \A o \in Oids : data_size[o] \in Nat /\ held[o] \in Nat /\ sent[o] \in Nat
  BY Sizes DEF IInv, TypeInv
<1>4. CASE \E o \in Oids : SendStart(o)
  <2>1. PICK o \in Oids : SendStart(o)
    BY <1>4
  <2>2. /\ pc = "idle" /\ ~is_shutdown /\ data_size[o] # 0 /\ pc' = "transmit" /\ oid' = o
        /\ UNCHANGED <<queued, sent, late>>
    BY <2>1 DEF SendStart, Command, line
  <2>3. TypeInv' /\ LineInv'
    BY <1>1, <2>2 DEF IInv, TypeInv, LineInv
  <2>4. ReadyInv'
    BY <1>1, <2>2 DEF IInv, ReadyInv
  <2>5. QuietInv' /\ FrameInv'
    BY <1>1, <2>2 DEF IInv, QuietInv, FrameInv
  <2> QED BY <1>2, <2>3, <2>4, <2>5 DEF IInv
<1>5. CASE Transmit
  <2>1. /\ pc = "transmit" /\ pc' = "wait" /\ oid' = oid /\ oid \notin queued
        /\ queued' = queued \cup {oid} /\ sent' = [sent EXCEPT ![oid] = 0]
        /\ late' = IF held[oid] = 0 THEN late \ {oid} ELSE late
        /\ oid \in Oids /\ data_size[oid] # 0
    BY <1>5 DEF Transmit, IInv, TypeInv, ReadyInv
  <2>2. sent'[oid] = 0 /\ \A o \in Oids \ {oid} : sent'[o] = sent[o]
    BY <2>1 DEF IInv, TypeInv
  <2>3. TypeInv' /\ ReadyInv'
    BY <1>1, <2>1 DEF IInv, TypeInv, ReadyInv
  <2>4. LineInv'
    BY <1>1, <1>3, <2>1, <2>2 DEF IInv, LineInv
  <2>5. oid \notin late' => held[oid] = 0
    BY <1>3, <2>1 DEF IInv, QuietInv
  <2>6. QuietInv'
    BY <1>1, <1>3, <2>1, <2>5 DEF IInv, QuietInv
  <2>7. FrameInv'
    BY <1>1, <2>1, <2>2, <2>5 DEF FrameInv, Same
  <2> QED BY <1>2, <2>3, <2>4, <2>6, <2>7 DEF IInv
<1>6. CASE TransmitFails \/ Reply
  <2>1. /\ pc \in {"transmit", "succeeded", "failed"} /\ pc' \in {"failed", "idle"}
        /\ UNCHANGED <<oid, queued, sent, late>>
    BY <1>6 DEF TransmitFails, Reply, line
  <2> QED BY <1>1, <1>2, <2>1 DEF IInv, TypeInv, ReadyInv, LineInv, QuietInv, FrameInv
<1>7. CASE WaitDone
  <2>1. /\ pc = "wait" /\ oid \notin queued /\ pc' = "reset"
        /\ UNCHANGED <<oid, queued, sent, late>>
    BY <1>7 DEF WaitDone, line
  <2>2. TypeInv' /\ ReadyInv' /\ LineInv' /\ QuietInv'
    BY <1>1, <2>1 DEF IInv, TypeInv, ReadyInv, LineInv, QuietInv
  <2>3. FrameInv'
    BY <1>1, <2>1 DEF IInv, FrameInv, Same
  <2> QED BY <1>2, <2>2, <2>3 DEF IInv
<1>8. CASE WaitTimesOut
  <2>1. /\ pc = "wait" /\ oid \in queued /\ pc' = "failed" /\ late' = late \cup {oid}
        /\ UNCHANGED <<oid, queued, sent>>
    BY <1>8 DEF WaitTimesOut, line
  <2> QED BY <1>1, <1>2, <2>1 DEF IInv, TypeInv, ReadyInv, LineInv, QuietInv, FrameInv
<1>9. CASE ResetDelay
  <2>1. /\ pc = "reset" /\ held[oid] = 0 /\ pc' = "succeeded"
        /\ UNCHANGED <<oid, queued, sent, late>>
    BY <1>9 DEF ResetDelay, line
  <2>2. TypeInv' /\ ReadyInv' /\ LineInv'
    BY <1>1, <2>1 DEF IInv, TypeInv, ReadyInv, LineInv
  <2>3. QuietInv'
    BY <1>1, <1>3, <2>1 DEF IInv, QuietInv
  <2>4. oid \notin late => Same(shown[oid], data_size[oid])
    <3>1. data_size[oid] # 0 /\ (oid \notin late => oid \notin queued)
      BY <2>1 DEF IInv, ReadyInv, QuietInv, TypeInv
    <3> QED BY <2>1, <3>1 DEF IInv, FrameInv
  <2>5. FrameInv'
    BY <1>1, <2>1, <2>4 DEF FrameInv, Same
  <2> QED BY <1>2, <2>2, <2>3, <2>5 DEF IInv
<1> QED BY <1>4, <1>5, <1>6, <1>7, <1>8, <1>9

\* The peripheral reads on: a strip without a timed-out frame takes what it reads.
LEMMA ClockOutKeeps ==
  ASSUME IInv, NEW o \in Oids, ClockOut(o)
  PROVE  IInv'
<1>1. /\ UNCHANGED <<data_size, data, enabled, is_shutdown, pc, oid, shown, late>>
      /\ o \in queued /\ sent' = [sent EXCEPT ![o] = @ + 1]
      /\ queued' = IF sent'[o] = data_size[o] THEN queued \ {o} ELSE queued
  BY DEF ClockOut, object
<1>2. /\ sent[o] \in Nat /\ held[o] \in Nat /\ data_size[o] \in Nat
      /\ sent[o] < data_size[o] /\ held[o] <= data_size[o] /\ data_size[o] <= MaxData
  BY <1>1, Sizes DEF IInv, TypeInv, LineInv
<1>3. /\ sent' \in [Oids -> Nat] /\ sent'[o] = sent[o] + 1
      /\ \A x \in Oids \ {o} : sent'[x] = sent[x]
  BY <1>1, <1>2 DEF IInv, TypeInv
<1>4. sent[o] \in Cells /\ data[o][sent[o]] \in Bytes
  <2>1. sent[o] \in Cells
    BY <1>2, Sizes DEF Cells
  <2> QED BY <2>1 DEF IInv, TypeInv
<1>5. /\ held' \in [Oids -> 0 .. MaxData] /\ latch' \in [Oids -> [Strip -> Bytes]]
      /\ \A x \in Oids \ {o} : held'[x] = held[x] /\ latch'[x] = latch[x]
      /\ held[o] < data_size[o] =>
           /\ held'[o] = held[o] + 1 /\ latch'[o][held[o]] = data[o][sent[o]]
           /\ \A i \in Strip \ {held[o]} : latch'[o][i] = latch[o][i]
      /\ held'[o] <= data_size[o] /\ held'[o] \in Nat
  <2>1. CASE held[o] < data_size[o]
    <3>1. /\ held' = [held EXCEPT ![o] = held[o] + 1]
          /\ latch' = [latch EXCEPT ![o][held[o]] = data[o][sent[o]]]
      BY <2>1 DEF ClockOut
    <3>2. held[o] + 1 \in 0 .. MaxData /\ held[o] \in Strip
      BY <1>2, <2>1, Sizes DEF Strip
    <3>3. held \in [Oids -> 0 .. MaxData] /\ latch \in [Oids -> [Strip -> Bytes]]
      BY DEF IInv, TypeInv
    <3>4. /\ held' \in [Oids -> 0 .. MaxData] /\ held'[o] = held[o] + 1
          /\ \A x \in Oids \ {o} : held'[x] = held[x]
      BY <3>1, <3>2, <3>3
    <3>5. /\ latch' \in [Oids -> [Strip -> Bytes]]
          /\ latch'[o][held[o]] = data[o][sent[o]]
          /\ \A x \in Oids \ {o} : latch'[x] = latch[x]
          /\ \A i \in Strip \ {held[o]} : latch'[o][i] = latch[o][i]
      BY <1>4, <3>1, <3>2, <3>3
    <3> QED BY <1>2, <2>1, <3>4, <3>5
  <2>2. CASE ~(held[o] < data_size[o])
    <3>1. UNCHANGED <<latch, held>>
      BY <2>2 DEF ClockOut
    <3> QED BY <1>2, <2>2, <3>1 DEF IInv, TypeInv
  <2> QED BY <2>1, <2>2
<1>6. TypeInv'
  BY <1>1, <1>3, <1>5 DEF IInv, TypeInv
<1>7. BehindInv' /\ ReadyInv'
  BY <1>1 DEF IInv, BehindInv, ReadyInv
<1>8. LineInv'
  <2>1. o \in queued' => sent'[o] < data_size[o]
    BY <1>1, <1>2, <1>3
  <2>2. \A x \in Oids \ {o} : /\ x \in queued' => x \in queued
                             /\ sent'[x] = sent[x] /\ held'[x] = held[x]
    BY <1>1, <1>3, <1>5
  <2> QED BY <1>1, <1>5, <2>1, <2>2 DEF IInv, LineInv
<1>9. QuietInv'
  BY <1>1, <1>5 DEF IInv, QuietInv
<1>10. FrameInv'
  <2>1. CASE o # oid \/ oid \in late
    BY <1>1, <1>3, <1>5, <2>1 DEF IInv, TypeInv, FrameInv, Same
  <2>2. CASE o = oid /\ oid \notin late
    <3>1. /\ pc = "wait" /\ held[o] = sent[o]
          /\ \A i \in 0 .. sent[o] - 1 : latch[o][i] = data[o][i]
      BY <1>1, <2>2 DEF IInv, QuietInv, FrameInv, Same
    <3>2. held'[o] = sent'[o] /\ \A i \in 0 .. sent'[o] - 1 : latch'[o][i] = data[o][i]
      <4>1. held'[o] = sent'[o] /\ latch'[o][sent[o]] = data[o][sent[o]]
        BY <1>2, <1>3, <1>5, <3>1
      <4>2. \A i \in 0 .. sent[o] - 1 : latch'[o][i] = data[o][i]
        BY <1>2, <1>5, <3>1, Sizes DEF Strip
      <4>3. 0 .. sent'[o] - 1 = (0 .. sent[o] - 1) \cup {sent[o]}
        BY <1>2, <1>3
      <4> QED BY <4>1, <4>2, <4>3
    <3>3. CASE sent'[o] = data_size[o]
      BY <1>1, <2>2, <3>1, <3>2, <3>3 DEF FrameInv, Same
    <3>4. CASE sent'[o] # data_size[o]
      BY <1>1, <2>2, <3>1, <3>2, <3>4 DEF FrameInv, Same
    <3> QED BY <3>3, <3>4
  <2> QED BY <2>1, <2>2
<1> QED BY <1>6, <1>7, <1>8, <1>9, <1>10 DEF IInv

\* A quiet line: the strip shows what it took.
LEMMA LatchKeeps ==
  ASSUME IInv, NEW o \in Oids, Latch(o)
  PROVE  IInv'
<1>1. /\ UNCHANGED <<data_size, data, enabled, is_shutdown, pc, oid, queued, sent,
                     latch, late>>
      /\ o \notin queued /\ held[o] > 0
      /\ shown' = [shown EXCEPT ![o] = latch[o]] /\ held' = [held EXCEPT ![o] = 0]
  BY DEF Latch, object
<1>2. /\ held' \in [Oids -> 0 .. MaxData] /\ shown' \in [Oids -> [Strip -> Bytes]]
      /\ held'[o] = 0 /\ shown'[o] = latch[o]
      /\ \A x \in Oids \ {o} : held'[x] = held[x] /\ shown'[x] = shown[x]
  BY <1>1, Sizes DEF IInv, TypeInv
<1>3. TypeInv' /\ BehindInv' /\ ReadyInv'
  BY <1>1, <1>2 DEF IInv, TypeInv, BehindInv, ReadyInv
<1>4. LineInv'
  BY <1>1, <1>2, Sizes DEF IInv, TypeInv, LineInv
<1>5. QuietInv'
  BY <1>1, <1>2 DEF IInv, QuietInv
<1>6. FrameInv'
  <2>1. CASE o # oid \/ oid \in late
    BY <1>1, <1>2, <2>1 DEF IInv, TypeInv, FrameInv, Same
  <2>2. CASE o = oid /\ oid \notin late
    <3>1. pc \in {"wait", "reset"} /\ Same(latch[o], data_size[o])
      BY <1>1, <2>2 DEF IInv, QuietInv, FrameInv
    <3> QED BY <1>1, <1>2, <2>2, <3>1 DEF FrameInv, Same
  <2> QED BY <2>1, <2>2
<1> QED BY <1>3, <1>4, <1>5, <1>6 DEF IInv

LEMMA Invariance == Spec => []IInv
<1>1. IInv /\ [Next]_vars => IInv'
  <2> SUFFICES ASSUME IInv, [Next]_vars PROVE IInv'
    OBVIOUS
  <2>1. ASSUME NEW o \in Oids, NEW n \in 0 .. MaxData + 1, Config(o, n) \/ ConfigFails(o, n)
        PROVE  IInv'
    BY <2>1, ConfigKeeps
  <2>2. ASSUME NEW o \in Oids, NEW pos \in 0 .. Room, NEW len \in 0 .. Room,
               Update(o, pos, len)
        PROVE  IInv'
    <3>1. pos \in Nat /\ len \in Nat
      BY Sizes
    <3> QED BY <2>2, <3>1, UpdateKeeps
  <2>3. ASSUME NEW o \in Oids, ClockOut(o) PROVE IInv'
    BY <2>3, ClockOutKeeps
  <2>4. ASSUME NEW o \in Oids, Latch(o) PROVE IInv'
    BY <2>4, LatchKeeps
  <2>5. CASE Shutdown
    BY <2>5, ShutdownKeeps
  <2>6. CASE UNCHANGED vars
    BY <2>6 DEF vars, object, line, IInv, TypeInv, BehindInv, ReadyInv, LineInv, QuietInv,
                FrameInv, Same
  <2> QED BY <2>1, <2>2, <2>3, <2>4, <2>5, <2>6, SendKeeps DEF Next
<1> QED BY <1>1, InitHolds, PTL DEF Spec

-----------------------------------------------------------------------------
(* A send that reports success has shown the buffer, whole and as it is,   *)
(* unless it began on a line an earlier one had left busy.                 *)
THEOREM StripSuccessShown == Spec => []SuccessShown
<1>1. IInv => SuccessShown
  BY DEF IInv, FrameInv, Same, SuccessShown
<1> QED BY <1>1, Invariance, PTL

(* No update writes behind its buffer, and no send runs without a channel  *)
(* that is set up, though a failed configuration leaves its object behind. *)
THEOREM StripUsesOnlyItsOwn == Spec => []UsesOnlyItsOwn
<1>1. IInv => UsesOnlyItsOwn
  BY DEF IInv, BehindInv, ReadyInv, UsesOnlyItsOwn
<1> QED BY <1>1, Invariance, PTL

(* A buffer the peripheral is reading is changed only after a send of it   *)
(* has timed out.                                                          *)
THEOREM StripBufferStill == Spec => BufferStill
<1>1. IInv /\ [Next]_vars
      => [\A o \in queued : data'[o] # data[o] => o \in late]_vars
  <2> SUFFICES ASSUME IInv, Next, NEW o \in queued, data' # data, o \notin late
               PROVE  FALSE
    OBVIOUS
  <2>1. pc = "idle"
    BY DEF Next, Config, ConfigFails, Update, SendStart, ClockOut, Latch, Transmit,
           TransmitFails, WaitDone, WaitTimesOut, ResetDelay, Reply, Shutdown, object,
           Command
  <2> QED BY <2>1 DEF IInv, TypeInv, QuietInv
<1> QED BY <1>1, Invariance, PTL DEF Spec, BufferStill

(* A strip never shows a frame that is torn, short or not the buffer's,    *)
(* unless a send of it has timed out.                                      *)
THEOREM StripNoTornFrame == Spec => NoTornFrame
<1>1. IInv /\ [Next]_vars
      => [\A o \in Oids \ late :
            shown'[o] # shown[o] =>
              \A i \in 0 .. data_size[o] - 1 : shown'[o][i] = data[o][i]]_vars
  <2> SUFFICES ASSUME IInv, Next, NEW o \in Oids \ late, shown'[o] # shown[o]
               PROVE  \A i \in 0 .. data_size[o] - 1 : shown'[o][i] = data[o][i]
    OBVIOUS
  <2>1. PICK x \in Oids : Latch(x)
    BY DEF Next, Config, ConfigFails, Update, SendStart, ClockOut, Transmit,
           TransmitFails, WaitDone, WaitTimesOut, ResetDelay, Reply, Shutdown, line
  <2>2. x \notin queued /\ held[x] > 0 /\ shown' = [shown EXCEPT ![x] = latch[x]]
    BY <2>1 DEF Latch
  <2>3. o = x /\ shown'[o] = latch[o]
    BY <2>2 DEF IInv, TypeInv
  <2>4. pc \in {"wait", "reset"} /\ o = oid
    BY <2>2, <2>3 DEF IInv, QuietInv
  <2>5. Same(latch[o], data_size[o])
    BY <2>2, <2>3, <2>4 DEF IInv, FrameInv
  <2> QED BY <2>3, <2>4, <2>5 DEF Same
<1> QED BY <1>1, Invariance, PTL DEF Spec, NoTornFrame

=============================================================================
