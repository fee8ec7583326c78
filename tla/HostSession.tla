----------------------------- MODULE HostSession -----------------------------
(***************************************************************************)
(* The host side of a session with the firmware: probe_mcu.py's calls, and *)
(* what hw_test.py, rollover_soak.py and latency_probe.py build on them.   *)
(* The tools retransmit nothing and look at no sequence number: a call     *)
(* returns on a reply of the right name, or on any acknowledgement.        *)
(*                                                                         *)
(* Klipper's command.c is external: it runs a command whose sequence       *)
(* number is the next one, acknowledges it after its reply, and answers    *)
(* any other with a bare acknowledgement.  Commands are numbered from 1 in *)
(* the order they are sent; a frame names the command it answers (0: none).*)
(***************************************************************************)
EXTENDS Naturals, Sequences

CONSTANTS
  SeqCount,      \* 16: the sequence numbers, MESSAGE_SEQ_MASK + 1
  Chunks,      \* the chunks of the command dictionary
  BurstSize,   \* latency_probe.py's --burst
  MaxRun,      \* most commands a tool sends between two replies it waits for
  MaxCalls,    \* bound of the model: commands sent after identify
  MaxStats,    \* bound of the model: stats messages
  MaxRestarts, \* bound of the model: restarts of the MCU in the session
  Links        \* "clean": opening the port resets the MCU, nothing is lost
               \* or late; "lossy": any frame may be, on either way

ASSUME SessionAssumption ==
  /\ SeqCount \in Nat /\ Chunks \in Nat \ {0} /\ MaxCalls \in Nat
  /\ MaxStats \in Nat /\ MaxRestarts \in Nat
  /\ MaxRun \in Nat /\ MaxRun <= SeqCount
  /\ BurstSize \in 1 .. MaxRun /\ Links \subseteq {"clean", "lossy"}

(* The commands sent with request(), and those of them that the firmware   *)
(* runs while it is shut down.                                             *)
Requests   == {"clock", "config", "neopixel"}
InShutdown == {"clock", "config"}

(* A frame from the MCU; shut is get_config's is_shutdown.                 *)
Msg(name, id) == [name |-> name, id |-> id, shut |-> FALSE]
Ack           == Msg("ack", 0)

VARIABLES
  pc,           \* the call the tool is in
  want,         \* the name of the reply it waits for
  missing,      \* replies of a burst still to come
  sequence,
  output,       \* identify's chunks so far
  data,         \* receive_buffer: complete packets not parsed yet
  down, up,     \* external: frames on the line to the MCU and from it
  expected,     \* external: the MCU's next sequence number
  halted,       \* external: the MCU is shut down
  armed,        \* external: queries whose report has not been sent
  calls, run,   \* commands sent: after identify, and since the last reply
  stats,        \* stats messages sent
  link,         \* external: the kind of link
  restarts,     \* restarts of the MCU so far
  taken, ran,   \* history: commands the MCU accepted, and those it executed
  got           \* history: the last reply returned, and the command it was for

host == <<pc, want, missing, sequence, output, calls, run, got>>
mcu  == <<expected, halted, armed, taken, ran>>
env  == <<stats, link, restarts>>
vars == <<host, mcu, data, down, up, env>>

Clean == link = "clean"

(* The packet p, returned by the call that sent command n.                 *)
Answer(p, n) == [call |-> n, id |-> p.id, name |-> p.name, shut |-> p.shut]

Init ==
  /\ link \in Links
  /\ pc = "open" /\ want = "none" /\ missing = 0 /\ sequence = 0
  /\ output = <<>> /\ data = <<>> /\ down = <<>>
  /\ halted = FALSE /\ armed = {}
  /\ expected \in IF Clean THEN {0} ELSE 0 .. SeqCount - 1
  /\ up \in IF Clean THEN {<<>>}
            ELSE {<<>>} \cup {<<Msg("identify_response", offset)>> :
                                  offset \in 0 .. Chunks}
  /\ calls = 0 /\ run = 0 /\ stats = 0 /\ restarts = 0 /\ taken = {} /\ ran = {}
  /\ got = Answer(Msg("none", 0), 0)

Next1(s) == (s + 1) % SeqCount

(* frame(): numbered with the call's sequence.  An identify carries its    *)
(* offset, any other command its number.                                   *)
Frame(s, cmd, id) == [seq |-> s, cmd |-> cmd, id |-> id]

-----------------------------------------------------------------------------
(* read_packet(): a packet already buffered is returned at once; with none *)
(* it waits for a byte and takes all that has arrived with it, unless the  *)
(* deadline has passed.  Bytes of a damaged frame are skipped one by one,  *)
(* so that the frame after it is found.                                    *)
Waiting == pc \in {"identify", "request", "send", "report", "burst"}

ReadPort ==
  /\ Waiting /\ data = <<>>
  /\ \E n \in 1 .. Len(up) :
       data' = SubSeq(up, 1, n) /\ up' = SubSeq(up, n + 1, Len(up))
  /\ UNCHANGED <<host, mcu, down, env>>

(* One turn of a call's loop, which consumes the first packet buffered.    *)
Packet(call) ==
  /\ pc = call /\ data # <<>>
  /\ data' = Tail(data)
  /\ UNCHANGED <<mcu, up, env>>

Skip == UNCHANGED <<host, down>>

(* A call that sends one command and then waits.                           *)
Call(cmd, call, reply) ==
  /\ pc = "idle" /\ calls < MaxCalls /\ run < MaxRun
  /\ down' = Append(down, Frame(sequence, cmd, calls + 1))
  /\ calls' = calls + 1 /\ run' = run + 1
  /\ pc' = call /\ want' = reply
  /\ UNCHANGED <<missing, output, got, mcu, data, up, env>>

-----------------------------------------------------------------------------
(* Mutants: slips in the tools.                                            *)

(* identify takes any chunk for the next one.                              *)
IdentifyPacket_no_offset(p) ==
  /\ Packet("identify")
  /\ IF p.name # "identify_response" THEN Skip
     ELSE /\ sequence' = Next1(sequence)
          /\ IF p.id = Chunks
             THEN pc' = "idle" /\ UNCHANGED <<output, down>>
             ELSE /\ output' = Append(output, p.id)
                  /\ down' = Append(down,
                       Frame(sequence', "identify", Len(output')))
                  /\ UNCHANGED pc
          /\ UNCHANGED <<want, missing, calls, run, got>>

(* request returns on the first acknowledgement, as send_command does.     *)
RequestPacket_ack_ends(p) ==
  /\ Packet("request")
  /\ IF p.name \in {want, "ack"}
     THEN /\ pc' = "idle" /\ sequence' = Next1(sequence) /\ run' = 0
          /\ got' = Answer(p, calls)
          /\ UNCHANGED <<want, missing, output, calls, down>>
     ELSE Skip

(* send_command does not wait.                                             *)
SendStart_no_wait == Call("set", "idle", "ack") /\ sequence' = Next1(sequence)

(* The query sent without waiting is not counted.                          *)
QueryStart_not_counted ==
  Call("query", "report", "report") /\ UNCHANGED sequence

-----------------------------------------------------------------------------
(* The deadline of the call: five seconds, far more than a round trip on a *)
(* clean link.                                                             *)
Timeout ==
  /\ Waiting /\ data = <<>>
  /\ Clean => up = <<>> /\ down = <<>> /\ armed = {}
  /\ pc' = "timed out"
  /\ UNCHANGED <<want, missing, sequence, output, calls, run, got, mcu, data,
                 down, up, env>>

(* identify(): the dictionary, chunk by chunk, the first empty one its end *)
IdentifyStart ==
  /\ pc = "open" /\ pc' = "identify"
  /\ down' = Append(down, Frame(0, "identify", 0))
  /\ UNCHANGED <<want, missing, sequence, output, calls, run, got, mcu, data,
                 up, env>>

IdentifyPacket(p) ==
  /\ Packet("identify")
  /\ \/ p.name # "identify_response" /\ Skip
     \/ /\ p.name = "identify_response" /\ p.id # Len(output)
        /\ pc' = "offset mismatch"
        /\ UNCHANGED <<want, missing, sequence, output, calls, run, got, down>>
     \/ /\ p.name = "identify_response" /\ p.id = Len(output)
        /\ sequence' = Next1(sequence)
        /\ IF p.id = Chunks
           THEN pc' = "idle" /\ UNCHANGED <<output, down>>
           ELSE /\ output' = Append(output, p.id)
                /\ down' = Append(down, Frame(sequence', "identify", p.id + 1))
                /\ UNCHANGED pc
        /\ UNCHANGED <<want, missing, calls, run, got>>

(* request() and timed_request(): any frame but the reply is skipped       *)
RequestStart(name) == Call(name, "request", name) /\ UNCHANGED sequence

RequestPacket(p) ==
  /\ Packet("request")
  /\ IF p.name = want
     THEN /\ pc' = "idle" /\ sequence' = Next1(sequence) /\ run' = 0
          /\ got' = Answer(p, calls)
          /\ UNCHANGED <<want, missing, output, calls, down>>
     ELSE Skip

(* send_command(): the first acknowledgement, whose-ever it is, ends it    *)
SendStart == Call("set", "send", "ack") /\ UNCHANGED sequence

SendPacket(p) ==
  /\ Packet("send")
  /\ \/ p.name = "ack" /\ pc' = "idle" /\ sequence' = Next1(sequence)
     \/ p.name \in {"shutdown", "is_shutdown"} /\ pc' = "raised"
        /\ UNCHANGED sequence
     \/ p.name \notin {"ack", "shutdown", "is_shutdown"}
        /\ UNCHANGED <<pc, sequence>>
  /\ UNCHANGED <<want, missing, output, calls, run, got, down>>

(* test_adc(): query_analog_in is sent without waiting for its             *)
(* acknowledgement, and wait_for_adc() reads on to the channel's report,   *)
(* or to word of a shutdown, which ends this channel's test.               *)
QueryStart == Call("query", "report", "report") /\ sequence' = Next1(sequence)

ReportPacket(p) ==
  /\ Packet("report")
  /\ \/ /\ p.name = "report" /\ p.id = calls
        /\ pc' = "idle" /\ run' = 0 /\ got' = Answer(p, calls)
     \/ p.name \in {"shutdown", "is_shutdown"} /\ pc' = "idle"
        /\ UNCHANGED <<run, got>>
     \/ /\ p.name \notin {"shutdown", "is_shutdown"}
        /\ ~(p.name = "report" /\ p.id = calls)
        /\ UNCHANGED <<pc, run, got>>
  /\ UNCHANGED <<want, missing, sequence, output, calls, down>>

(* burst_test(): BurstSize requests back to back, then their replies       *)
BurstStart ==
  /\ pc = "idle" /\ calls + BurstSize <= MaxCalls /\ run + BurstSize <= MaxRun
  /\ down' = down \o [i \in 1 .. BurstSize |->
       Frame((sequence + i - 1) % SeqCount, "clock", calls + i)]
  /\ sequence' = (sequence + BurstSize) % SeqCount
  /\ calls' = calls + BurstSize /\ run' = run + BurstSize
  /\ pc' = "burst" /\ want' = "clock" /\ missing' = BurstSize
  /\ UNCHANGED <<output, got, mcu, data, up, env>>

BurstPacket(p) ==
  /\ Packet("burst")
  /\ IF p.name # "clock" THEN Skip
     ELSE /\ missing' = missing - 1
          /\ IF missing' = 0
             THEN pc' = "idle" /\ run' = 0 /\ got' = Answer(p, calls)
             ELSE UNCHANGED <<pc, run, got>>
          /\ UNCHANGED <<want, sequence, output, calls, down>>

-----------------------------------------------------------------------------
(* External: the firmware's command.c and what it runs.                    *)

(* The frames one accepted command sends back before its acknowledgement;  *)
(* a command that is refused in a shutdown gets word of that.              *)
Reply(f) ==
  CASE f.cmd = "identify" -> <<Msg("identify_response", f.id)>>
    [] f.cmd = "clock"    -> <<Msg("clock", f.id)>>
    [] f.cmd = "config"   -> <<[Msg("config", f.id) EXCEPT !.shut = halted]>>
    [] f.cmd = "neopixel" ->
         IF halted THEN <<Msg("is_shutdown", 0)>> ELSE <<Msg("neopixel", f.id)>>
    [] f.cmd \in {"set", "query"} ->
         IF halted THEN <<Msg("is_shutdown", 0)>> ELSE <<>>

McuReceive ==
  /\ down # <<>> /\ down' = Tail(down)
  /\ LET f == Head(down)
         runs == f.cmd # "identify" /\ (halted => f.cmd \in InShutdown)
     IN IF f.seq = expected
        THEN /\ up' = (up \o Reply(f)) \o <<Ack>>
             /\ expected' = Next1(expected)
             /\ taken' = taken \cup {i \in {f.id} : f.cmd # "identify"}
             /\ ran' = ran \cup {i \in {f.id} : runs}
             /\ armed' = armed \cup {i \in {f.id} : runs /\ f.cmd = "query"}
        ELSE up' = Append(up, Ack) /\ UNCHANGED <<expected, taken, ran, armed>>
  /\ UNCHANGED <<host, data, halted, env>>

McuReport ==
  /\ ~halted
  /\ \E q \in armed : /\ up' = Append(up, Msg("report", q))
                      /\ armed' = armed \ {q}
  /\ UNCHANGED <<host, data, down, expected, halted, taken, ran, env>>

McuStats ==
  /\ stats < MaxStats /\ stats' = stats + 1
  /\ up' = Append(up, Msg("stats", 0))
  /\ UNCHANGED <<host, mcu, data, down, link, restarts>>

McuShutdown ==
  /\ ~halted /\ halted' = TRUE /\ armed' = {}
  /\ up' = Append(up, Msg("shutdown", 0))
  /\ UNCHANGED <<host, data, down, expected, taken, ran, env>>

(* The watchdog, or the supply: the MCU starts over, with what it had not  *)
(* read or not finished sending lost, and says so; no call listens for it. *)
McuRestart ==
  /\ restarts < MaxRestarts /\ restarts' = restarts + 1
  /\ expected' = 0 /\ halted' = FALSE /\ armed' = {}
  /\ \E n \in 0 .. Len(down) : down' = SubSeq(down, n + 1, Len(down))
  /\ \E n \in 0 .. Len(up) : up' = Append(SubSeq(up, 1, n), Msg("starting", 0))
  /\ UNCHANGED <<host, data, taken, ran, stats, link>>

(* A frame damaged on the way: dropped, and on the way down perhaps        *)
(* answered with a bare acknowledgement.                                   *)
Lose ==
  /\ ~Clean
  /\ \/ up # <<>> /\ up' = Tail(up) /\ UNCHANGED down
     \/ /\ down # <<>> /\ down' = Tail(down)
        /\ up' \in {up, Append(up, Ack)}
  /\ UNCHANGED <<host, mcu, data, env>>

-----------------------------------------------------------------------------
TakePacket ==
  /\ data # <<>>
  /\ LET p == Head(data)
     IN \/ IdentifyPacket(p) \/ RequestPacket(p) \/ SendPacket(p)
        \/ ReportPacket(p) \/ BurstPacket(p)

Start == \/ IdentifyStart \/ SendStart \/ QueryStart \/ BurstStart
         \/ \E name \in Requests : RequestStart(name)

Next == \/ Start \/ TakePacket \/ ReadPort \/ Timeout
        \/ McuReceive \/ McuReport \/ McuStats \/ McuShutdown \/ McuRestart \/ Lose

Spec == Init /\ [][Next]_vars

-----------------------------------------------------------------------------
Ended == {"timed out", "offset mismatch", "raised"}

(* identify returns every chunk once and in order (probe_mcu.py:89-99),    *)
(* whatever an earlier session left on the line.                           *)
DictionaryWhole ==
  pc \notin {"open", "identify"} \cup Ended
    => output = [i \in 1 .. Chunks |-> i - 1]

(* The reply a call returns answers its own command, though replies are    *)
(* told apart by their names alone (probe_mcu.py:128), and vouches for     *)
(* everything sent before it, acknowledged or not: the MCU accepted every  *)
(* earlier command, and a configuration read back as not shut down means   *)
(* that all of them were executed (hw_test.py:103).  A restart of the MCU  *)
(* hides what came before only if a later command carried number zero.     *)
Number(n) == (Chunks + n) % SeqCount

Hidden(n) == restarts > 0 /\ \E m \in (n + 1 .. got.call) \cap taken : Number(m) = 0

ReplyVouches ==
  /\ got.id = got.call
  /\ \A n \in 1 .. got.call :
       /\ n \in taken \/ Hidden(n)
       /\ got.name = "config" /\ ~got.shut => n \in ran \/ Hidden(n)

(* On a clean link to an MCU that keeps running, a call that has returned  *)
(* leaves at most its own command unaccepted: the acknowledgement that     *)
(* ends send_command may be the previous command's, and never one older    *)
(* (probe_mcu.py:147).  Word of a shutdown may end a call early, so this   *)
(* is of an MCU that is not shut down.                                     *)
SendsLagByOne ==
  Clean /\ restarts = 0 /\ ~halted /\ pc = "idle" => 1 .. calls - 1 \subseteq taken

(* On a clean link to an MCU that does not restart, the numbers the tools  *)
(* count stay in step with the MCU's through every kind of call.  So one   *)
(* call alone can time out: neopixel_send to an MCU that is shut down,     *)
(* which accepts it and refuses to run it, and whose word of that          *)
(* request() skips (probe_mcu.py:123-129, 256-265).                        *)
StaysInStep ==
  Clean /\ restarts = 0 /\ pc = "timed out"
    => want = "neopixel" /\ calls \in taken \ ran

=============================================================================
