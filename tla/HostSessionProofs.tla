-------------------------- MODULE HostSessionProofs --------------------------
(***************************************************************************)
(* What probe_mcu.py and the tools on top of it may rely on, for a         *)
(* dictionary of any size, bursts and runs of any length up to the         *)
(* sequence numbers there are, any number of commands and restarts, and    *)
(* queues on the line of any length.                                       *)
(***************************************************************************)
EXTENDS HostSession, SequenceTheorems, TLAPS

Names == {"none", "ack", "identify_response", "clock", "config", "is_shutdown",
          "neopixel", "report", "stats", "shutdown", "starting"}
Commands == {"identify", "clock", "config", "neopixel", "set", "query"}
Packets == [name : Names, id : Nat, shut : BOOLEAN]
Frames  == [seq : Nat, cmd : Commands, id : Nat]
Calls   == {"request", "send", "report", "burst"}

TypeOK ==
  /\ pc \in {"open", "identify", "idle"} \cup Calls \cup Ended
  /\ want \in Names /\ missing \in Int /\ sequence \in Nat
  /\ output \in Seq(Nat) /\ data \in Seq(Packets) /\ up \in Seq(Packets)
  /\ down \in Seq(Frames)
  /\ expected \in Nat /\ halted \in BOOLEAN /\ armed \subseteq Nat
  /\ calls \in Nat /\ run \in Nat /\ stats \in Nat /\ restarts \in Nat
  /\ taken \subseteq Nat /\ ran \subseteq Nat
  /\ got \in [call : Nat, id : Nat, name : Names, shut : BOOLEAN]

(***************************************************************************)
(* The inductive invariant.  All that is on the line is looked at as two   *)
(* sequences: down, and Line, which is what the host has buffered and what *)
(* is on its way to it.  Commands are counted through: the identifies      *)
(* first, then the others, so that the number of a frame is its place in   *)
(* that count modulo SeqCount.  The host has sent the commands up to Sent, *)
(* and those up to Seen are no longer on their way.                        *)
(***************************************************************************)
Line == data \o up
Sent == IF pc = "open" THEN -1 ELSE Len(output) + calls
Seen == Sent - Len(down)
Pos(f) == IF f.cmd = "identify" THEN f.id ELSE Chunks + f.id

\* The dictionary is complete.
Past == pc = "idle" \/ calls > 0

\* A session of which the properties of a clean link speak.
Steady == Clean /\ restarts = 0

\* Word of a shutdown.
Words == {"shutdown", "is_shutdown"}

\* The chunks taken are the first ones, in order.
ChunksInv ==
  /\ \A i \in 1 .. Len(output) : output[i] = i - 1
  /\ Len(output) <= Chunks /\ (Past => Len(output) = Chunks)

\* The tool's counters: the next number is that of the next command, or of
\* the command under way where the call adds one when it returns.
HostInv ==
  /\ pc \in Calls \cup {"raised"} => calls > 0
  /\ pc \in {"open", "identify"} => calls = 0
  /\ pc = "open" => down = <<>> /\ output = <<>> /\ data = <<>>
  /\ pc \in {"open", "identify"} => sequence = Len(output) % SeqCount
  /\ pc \in {"idle", "report", "burst"} => sequence = Number(calls + 1)
  /\ pc \in {"request", "send"} => sequence = Number(calls)
  /\ calls = got.call + run /\ run <= MaxRun
  /\ pc = "request" => want \in Requests
  /\ pc = "burst" => missing \in 1 .. BurstSize /\ BurstSize <= calls

\* The commands on their way are the last ones sent, in order.
DownInv ==
  /\ Len(down) <= Sent + 1
  /\ Past => Len(down) <= calls
  /\ \A i \in 1 .. Len(down) :
       /\ Pos(down[i]) = Seen + i /\ down[i].seq = (Seen + i) % SeqCount
       /\ down[i].cmd # "identify" <=> Seen + i > Chunks

(***************************************************************************)
(* The heart of ReplyVouches.  Of what was sent before a command the MCU   *)
(* accepted, it accepted all, but for what a restart hides: it takes a     *)
(* command only at its number, a gap would need MaxRun + 1 commands before *)
(* the number comes round, and the host never has more than MaxRun out.    *)
(***************************************************************************)
Hid(n, c) == restarts > 0 /\ \E m \in (n + 1 .. c) \cap taken : Number(m) = 0
TakenThrough(c) == \A n \in 1 .. c : n \in taken \/ Hid(n, c)
RanThrough(c) == \A n \in 1 .. c : n \in ran \/ Hid(n, c)

TakenInv ==
  /\ \A n \in taken : n \in 1 .. Seen - Chunks /\ TakenThrough(n)
  /\ armed \subseteq taken /\ ran \subseteq taken
  /\ got.call \in taken \cup {0}

\* The MCU expects the command after the last it took, unless it restarted.
TracksInv ==
  Past => \/ restarts > 0 /\ expected = 0
          \/ \E l \in taken \cup {0} :
                /\ \A n \in taken : n <= l
                /\ expected = Number(l + 1)
                /\ ~halted => RanThrough(l)

\* A chunk on the line is of a request the MCU has read, or the first packet
\* of all, left by an earlier session; and the chunk the host waits for is
\* the last thing the MCU did.
ResponseInv ==
  \A i \in 1 .. Len(Line) : Line[i].name = "identify_response" =>
    /\ Line[i].id <= Seen \/ (i = 1 /\ Len(output) = 0 /\ ~Past /\ ~Clean)
    /\ Line[i].id > 0 /\ Line[i].id = Len(output) /\ pc = "identify" =>
         /\ down = <<>>
         /\ \/ expected = (Len(output) + 1) % SeqCount
            \/ restarts > 0 /\ expected = 0

\* A reply on the line vouches already for what it will when it is returned,
\* and the replies to requests come in the order of their commands.
AnswerInv ==
  /\ \A i \in 1 .. Len(Line) :
       Line[i].name \in Requests \cup {"report"} =>
       /\ Line[i].id \in taken
       /\ Line[i].name = "config" /\ ~Line[i].shut => RanThrough(Line[i].id)
  /\ \A i, j \in 1 .. Len(Line) :
       i < j /\ Line[i].name \in Requests /\ Line[j].name \in Requests
         => Line[i].id < Line[j].id

\* Requests and their replies are on the line only during the call they are
\* of, or for good when the session is over: a name tells replies apart since
\* no call leaves one of its own behind.
Due(name, id) ==
  \/ pc = "request" /\ id = calls /\ name = want
  \/ pc = "burst" /\ id > calls - missing /\ name = "clock"
  \/ pc \in Ended

DueInv ==
  /\ \A i \in 1 .. Len(Line) :
       Line[i].name \in Requests => Due(Line[i].name, Line[i].id)
  /\ \A i \in 1 .. Len(down) :
       down[i].cmd \in Requests => Due(down[i].cmd, down[i].id)

\* On a clean link the MCU has taken all it has read, and word of a shutdown
\* is the truth.
InStepInv == Steady =>
  /\ expected = (Seen + 1) % SeqCount
  /\ taken = 1 .. Seen - Chunks
  /\ \A i \in 1 .. Len(Line) : Line[i].name \in Words => halted

\* What a call waits for is on the line, or will be sent for a command that is;
\* or it is neopixel_send's reply, which a shut-down MCU does not send.
InLine(name) == \E i \in 1 .. Len(Line) : Line[i].name = name
LastDown(cmd) == down # <<>> /\ down[Len(down)].cmd = cmd
Refused == want = "neopixel" /\ calls \in taken \ ran

Coming ==
  /\ pc = "identify" => down # <<>> \/ InLine("identify_response")
  /\ pc = "request" => LastDown(want) \/ InLine(want) \/ Refused
  /\ pc = "send" => down # <<>> \/ InLine("ack")
  /\ pc = "report" =>
       \/ LastDown("query") \/ calls \in armed
       \/ \E i \in 1 .. Len(Line) : Line[i].name = "report" /\ Line[i].id = calls
       \/ InLine("shutdown") \/ InLine("is_shutdown")
  /\ pc = "burst" => \A k \in calls - missing + 1 .. calls :
       \/ \E i \in 1 .. Len(down) : down[i].cmd = "clock" /\ down[i].id = k
       \/ \E i \in 1 .. Len(Line) : Line[i].name = "clock" /\ Line[i].id = k

Expired == pc = "timed out" => Refused

ComingInv == Steady => Coming /\ Expired

(***************************************************************************)
(* The acknowledgements.  Between calls at most one is still owed, by the  *)
(* line or by a command on its way; during send_command at most two.  The  *)
(* reply to the last command sent, which a call of another kind returns    *)
(* on, has at most one acknowledgement behind it.                          *)
(***************************************************************************)
APos(p) == IF p.name = "identify_response" THEN p.id ELSE Chunks + p.id
Replies == Requests \cup {"report", "identify_response"}
Acks == {i \in 1 .. Len(Line) : Line[i].name = "ack"}

Lag1 ==
  /\ Len(down) <= 1
  /\ Acks # {} => down = <<>>
  /\ \A i, j \in Acks : i = j

Lag2 ==
  /\ Len(down) <= 2
  /\ Acks # {} => Len(down) <= 1
  /\ (\E i, j \in Acks : i < j) => down = <<>>
  /\ \A i, j, k \in Acks : ~(i < j /\ j < k)

AckInv == Steady =>
  /\ pc = "idle" /\ ~halted => Lag1
  /\ pc = "send" /\ ~halted => Lag2
  /\ \A i \in 1 .. Len(Line) :
       Line[i].name \in Replies /\ APos(Line[i]) = Sent =>
         \A j, k \in Acks : i < j /\ i < k => j = k

IInv ==
  /\ TypeOK /\ ChunksInv /\ HostInv /\ DownInv /\ TakenInv /\ TracksInv
  /\ ResponseInv /\ AnswerInv /\ DueInv
  /\ InStepInv /\ ComingInv /\ AckInv /\ ReplyVouches

-----------------------------------------------------------------------------
\* Division with remainder.
LEMMA DivMod ==
  ASSUME NEW a \in Nat, NEW n \in Nat \ {0}
  PROVE  /\ a \div n \in Nat
         /\ a % n \in 0 .. n - 1
         /\ a = n * (a \div n) + (a % n)
OBVIOUS

\* Quotient and remainder are unique.
LEMMA QuotientUnique ==
  ASSUME NEW n \in Nat \ {0}, NEW q \in Int, NEW p \in Int,
         NEW r \in 0 .. n - 1, NEW s \in 0 .. n - 1,
         n * q + r = n * p + s
  PROVE  q = p /\ r = s
<1>1. ~ q < p
  <2> SUFFICES ASSUME q < p PROVE FALSE OBVIOUS
  <2>1. n * (p - q) = r - s
    OBVIOUS
  <2>2. n * (p - q) >= n
    OBVIOUS
  <2> QED BY <2>1, <2>2
<1>2. ~ p < q
  <2> SUFFICES ASSUME p < q PROVE FALSE OBVIOUS
  <2>1. n * (q - p) = s - r
    OBVIOUS
  <2>2. n * (q - p) >= n
    OBVIOUS
  <2> QED BY <2>1, <2>2
<1> QED BY <1>1, <1>2

\* A product by a sum.
LEMMA Distribute ==
  ASSUME NEW n \in Int, NEW x \in Int, NEW y \in Int
  PROVE  n * (x + y) = n * x + n * y
OBVIOUS

\* A remainder may be taken before a sum or after it.
LEMMA ModSum ==
  ASSUME NEW a \in Nat, NEW b \in Nat, NEW n \in Nat \ {0}
  PROVE  ((a % n) + b) % n = (a + b) % n
<1> DEFINE c == (a % n) + b
<1>1. c \in Nat /\ a + b \in Nat /\ a % n \in Nat
  BY DivMod
<1>2. c = n * (c \div n) + (c % n) /\ c % n \in 0 .. n - 1 /\ c \div n \in Nat
  BY <1>1, DivMod
<1>3. a + b = n * ((a + b) \div n) + ((a + b) % n)
       /\ (a + b) % n \in 0 .. n - 1 /\ (a + b) \div n \in Nat
  BY <1>1, DivMod
<1>4. a = n * (a \div n) + (a % n) /\ a \div n \in Nat
  BY DivMod
<1> HIDE DEF c
<1>5. a + b = n * (a \div n) + c
  BY <1>4, <1>1 DEF c
<1>6. a + b = n * ((a \div n) + (c \div n)) + (c % n)
  <2>1. n * ((a \div n) + (c \div n)) = n * (a \div n) + n * (c \div n)
    <3>1. n \in Int /\ a \div n \in Int /\ c \div n \in Int
      BY <1>2, <1>4
    <3> QED BY <3>1, Distribute, Zenon
  <2> QED BY <2>1, <1>5, <1>2, <1>4, <1>1
<1>7. (a \div n) + (c \div n) \in Int /\ (a + b) \div n \in Int
  BY <1>2, <1>3, <1>4
<1>8. (a + b) % n = c % n
  <2> DEFINE q == (a + b) \div n
             p == (a \div n) + (c \div n)
             r == (a + b) % n
             s == c % n
  <2>1. /\ q \in Int /\ p \in Int /\ r \in 0 .. n - 1 /\ s \in 0 .. n - 1
        /\ n * q + r = n * p + s
    BY <1>2, <1>3, <1>6, <1>7
  <2> HIDE DEF q, p, r, s
  <2>2. r = s
    BY <2>1, QuotientUnique
  <2> QED BY <2>2 DEF r, s
<1> QED BY <1>8 DEF c

\* Two numbers less than n apart with the same remainder are equal.
LEMMA ModNear ==
  ASSUME NEW a \in Nat, NEW b \in Nat, NEW n \in Nat \ {0},
         a <= b, b < a + n, a % n = b % n
  PROVE  a = b
<1>1. a = n * (a \div n) + (a % n) /\ a \div n \in Nat /\ a % n \in 0 .. n - 1
  BY DivMod
<1>2. b = n * (b \div n) + (b % n) /\ b \div n \in Nat /\ b % n \in 0 .. n - 1
  BY DivMod
<1> DEFINE q == a \div n
           p == b \div n
<1>3. n * q \in Nat /\ n * p \in Nat /\ q \in Nat /\ p \in Nat
  BY <1>1, <1>2
<1> HIDE DEF q, p
<1>4. n * p - n * q = b - a
  BY <1>1, <1>2, <1>3 DEF q, p
<1>5. ~ q < p
  <2> SUFFICES ASSUME q < p PROVE FALSE OBVIOUS
  <2>1. n * (p - q) >= n
    BY <1>3
  <2>2. n * (p - q) = n * p - n * q
    BY <1>3
  <2> QED BY <2>1, <2>2, <1>4, <1>3
<1>6. ~ p < q
  <2> SUFFICES ASSUME p < q PROVE FALSE OBVIOUS
  <2>1. n * (q - p) >= n
    BY <1>3
  <2>2. n * (q - p) = n * q - n * p
    BY <1>3
  <2> QED BY <2>1, <2>2, <1>4, <1>3
<1> QED BY <1>3, <1>4, <1>5, <1>6

-----------------------------------------------------------------------------
\* The assumption on the constants, in the form the proofs use.
LEMMA Constants ==
  /\ SeqCount \in Nat \ {0} /\ Chunks \in Nat \ {0} /\ MaxRun \in Nat
  /\ MaxRun <= SeqCount /\ BurstSize \in 1 .. MaxRun /\ BurstSize \in Nat
  /\ Links \subseteq {"clean", "lossy"}
BY SessionAssumption

\* Number(n) is a natural number.
LEMMA NumberType == \A n \in Nat : Number(n) \in Nat
<1> TAKE n \in Nat
<1>1. Chunks + n \in Nat
  BY Constants
<1> QED BY <1>1, Constants, DivMod DEF Number

\* The initial states are of the type.
LEMMA InitType == Init => TypeOK
<1> SUFFICES ASSUME Init PROVE TypeOK OBVIOUS
<1>1. up \in Seq(Packets)
  <2>1. \A offset \in 0 .. Chunks : Msg("identify_response", offset) \in Packets
    BY Constants DEF Msg, Packets, Names
  <2>2. \A offset \in 0 .. Chunks : <<Msg("identify_response", offset)>> \in Seq(Packets)
    BY <2>1
  <2>3. <<>> \in Seq(Packets)
    OBVIOUS
  <2>4. CASE Clean
    BY <2>3, <2>4 DEF Init
  <2>5. CASE ~Clean
    BY <2>2, <2>3, <2>5 DEF Init
  <2> QED BY <2>4, <2>5
<1>2. expected \in Nat
  BY Constants DEF Init
<1>3. got \in [call : Nat, id : Nat, name : Names, shut : BOOLEAN]
  BY DEF Init, Answer, Msg, Names
<1>4. /\ pc = "open" /\ want = "none" /\ missing = 0 /\ sequence = 0
      /\ output = <<>> /\ data = <<>> /\ down = <<>> /\ halted = FALSE /\ armed = {}
      /\ calls = 0 /\ run = 0 /\ stats = 0 /\ restarts = 0 /\ taken = {} /\ ran = {}
  BY DEF Init
<1>5. /\ output \in Seq(Nat) /\ data \in Seq(Packets) /\ down \in Seq(Frames)
      /\ armed \subseteq Nat /\ taken \subseteq Nat /\ ran \subseteq Nat
  BY <1>4
<1>6. halted \in BOOLEAN
  BY Zenon DEF Init
<1> QED BY <1>1, <1>2, <1>3, <1>4, <1>5, <1>6 DEF TypeOK, Names

\* The MCU's frames are of the type.
LEMMA MsgType ==
  \A name \in Names, id \in Nat : Msg(name, id) \in Packets
BY DEF Msg, Packets

\* The host's frames are of the type.
LEMMA FrameType ==
  \A s \in Nat, cmd \in Commands, id \in Nat : Frame(s, cmd, id) \in Frames
BY DEF Frame, Frames

\* What a call returns is of the type.
LEMMA AnswerType ==
  \A p \in Packets, n \in Nat :
    Answer(p, n) \in [call : Nat, id : Nat, name : Names, shut : BOOLEAN]
BY DEF Answer, Packets

\* The next sequence number is a natural number.
LEMMA Next1Type == \A s \in Nat : Next1(s) \in Nat
<1> TAKE s \in Nat
<1> QED BY Constants, DivMod DEF Next1

\* A command is answered with packets.
LEMMA ReplyType ==
  ASSUME NEW f \in Frames, halted \in BOOLEAN
  PROVE  Reply(f) \in Seq(Packets)
<1>1. f.id \in Nat /\ f.cmd \in Commands
  BY DEF Frames
<1>2. Msg("identify_response", f.id) \in Packets /\ Msg("clock", f.id) \in Packets
      /\ Msg("neopixel", f.id) \in Packets
      /\ Msg("is_shutdown", 0) \in Packets
  BY <1>1, MsgType DEF Names
<1>3. [Msg("config", f.id) EXCEPT !.shut = halted] \in Packets
  BY <1>1 DEF Msg, Packets, Names
<1> QED BY <1>1, <1>2, <1>3 DEF Reply, Commands

\* Every step keeps the type.
LEMMA TypeStep == TypeOK /\ [Next]_vars => TypeOK'
<1> SUFFICES ASSUME TypeOK, [Next]_vars PROVE TypeOK' OBVIOUS
<1> USE DEF TypeOK
<1> DEFINE Rest == UNCHANGED <<mcu, env>>
<1>0. /\ Commands \subseteq Names \cup {"identify", "set", "query"}
      /\ Requests \subseteq Names /\ Requests \subseteq Commands
  BY DEF Commands, Names, Requests
<1>1. ASSUME NEW cmd \in Commands, NEW call \in Calls \cup {"idle"}, NEW reply \in Names,
             Call(cmd, call, reply), sequence' \in Nat
      PROVE TypeOK'
  <2>1. Frame(sequence, cmd, calls + 1) \in Frames
    BY FrameType
  <2>2. down' \in Seq(Frames)
    BY <2>1, <1>1, AppendProperties DEF Call
  <2> QED BY <2>2, <1>1 DEF Call, mcu, env
<1>2. CASE Start
  <2>1. CASE IdentifyStart
    BY <2>1, FrameType, AppendProperties DEF IdentifyStart, mcu, env, Commands
  <2>2. CASE SendStart
    BY <2>2, <1>1, <1>0 DEF SendStart, Commands, Calls, Names
  <2>3. CASE QueryStart
    BY <2>3, <1>1, <1>0, Next1Type DEF QueryStart, Commands, Calls, Names
  <2>4. CASE BurstStart
    <3> DEFINE b == [i \in 1 .. BurstSize |->
                Frame((sequence + i - 1) % SeqCount, "clock", calls + i)]
    <3>1. \A i \in 1 .. BurstSize : b[i] \in Frames
      <4> TAKE i \in 1 .. BurstSize
      <4>1. (sequence + i - 1) \in Nat /\ calls + i \in Nat
        BY Constants
      <4>2. (sequence + i - 1) % SeqCount \in Nat
        BY <4>1, Constants, DivMod
      <4> QED BY <4>1, <4>2, FrameType DEF Commands
    <3>2. b \in Seq(Frames)
      BY <3>1, Constants
    <3>3. down' \in Seq(Frames)
      BY <3>2, <2>4, ConcatProperties DEF BurstStart
    <3>4. sequence' \in Nat
      BY <2>4, Constants, DivMod DEF BurstStart
    <3> QED BY <3>3, <3>4, <2>4, Constants DEF BurstStart, mcu, env, Calls, Names
  <2>5. ASSUME NEW name \in Requests, RequestStart(name) PROVE TypeOK'
    BY <2>5, <1>1, <1>0 DEF RequestStart, Calls
  <2> QED BY <1>2, <2>1, <2>2, <2>3, <2>4, <2>5 DEF Start
<1>3. CASE TakePacket
  <2> DEFINE p == Head(data)
  <2>1. data # <<>> /\ p \in Packets /\ Tail(data) \in Seq(Packets)
        /\ up \in Seq(Packets) /\ down \in Seq(Frames)
    BY <1>3, HeadTailProperties DEF TakePacket
  <2>2. p.id \in Nat /\ p.name \in Names /\ p.shut \in BOOLEAN
    BY <2>1 DEF Packets
  <2>3. Answer(p, calls) \in [call : Nat, id : Nat, name : Names, shut : BOOLEAN]
    BY <2>1, AnswerType
  <2>4. Next1(sequence) \in Nat
    BY Next1Type
  <2> HIDE DEF p
  <2>5. CASE IdentifyPacket(p)
    <3>1. data' \in Seq(Packets) /\ up' = up
      BY <2>1, <2>5 DEF IdentifyPacket, Packet
    <3>3. pc' \in {"identify", "idle", "offset mismatch"} /\ sequence' \in Nat
          /\ UNCHANGED <<want, missing, calls, run, got, mcu, env>>
      <4>1. CASE p.name # "identify_response"
        BY <2>5, <4>1 DEF IdentifyPacket, Packet, Skip, host
      <4>2. CASE p.name = "identify_response"
        BY <2>4, <2>5, <4>2 DEF IdentifyPacket, Packet
      <4> QED BY <4>1, <4>2
    <3>2. down' \in Seq(Frames) /\ output' \in Seq(Nat)
      <4>1. Frame(Next1(sequence), "identify", p.id + 1) \in Frames
        BY <2>2, <2>4, FrameType DEF Commands
      <4>2. Append(output, p.id) \in Seq(Nat)
            /\ Append(down, Frame(Next1(sequence), "identify", p.id + 1)) \in Seq(Frames)
        BY <4>1, <2>2, AppendProperties
      <4>3. CASE p.name # "identify_response"
        BY <2>5, <4>3 DEF IdentifyPacket, Skip, host
      <4>4. CASE p.name = "identify_response"
        BY <2>5, <4>2, <4>4 DEF IdentifyPacket
      <4> QED BY <4>3, <4>4
    <3> QED BY <3>1, <3>2, <3>3 DEF mcu, env, Ended
  <2>6. CASE RequestPacket(p)
    <3>1. CASE p.name = want
      BY <2>1, <2>3, <2>4, <2>6, <3>1 DEF RequestPacket, Packet, mcu, env
    <3>2. CASE p.name # want
      BY <2>1, <2>6, <3>2 DEF RequestPacket, Packet, Skip, host, mcu, env
    <3> QED BY <3>1, <3>2
  <2>7. CASE SendPacket(p)
    <3>1. /\ data' \in Seq(Packets)
          /\ UNCHANGED <<mcu, up, env, want, missing, output, calls, run, got, down>>
      BY <2>1, <2>7 DEF SendPacket, Packet
    <3>2. /\ pc' \in {pc, "idle", "raised"}
          /\ sequence' \in {sequence, Next1(sequence)}
      BY <2>7 DEF SendPacket, Packet
    <3> QED BY <2>4, <3>1, <3>2 DEF mcu, env, Ended
  <2>8. CASE ReportPacket(p)
    <3>1. /\ data' \in Seq(Packets)
          /\ UNCHANGED <<mcu, up, env, want, missing, sequence, output, calls, down>>
      BY <2>1, <2>8 DEF ReportPacket, Packet
    <3>2. /\ pc' \in {pc, "idle"} /\ run' \in {run, 0}
          /\ got' \in {got, Answer(p, calls)}
      BY <2>8 DEF ReportPacket, Packet
    <3> QED BY <2>3, <3>1, <3>2 DEF mcu, env
  <2>9. CASE BurstPacket(p)
    <3>1. CASE p.name = "clock"
      <4>1. /\ data' \in Seq(Packets)
            /\ UNCHANGED <<mcu, up, env, want, sequence, output, calls, down>>
        BY <2>1, <2>9, <3>1 DEF BurstPacket, Packet
      <4>2. missing' \in Int
        BY <2>9, <3>1 DEF BurstPacket
      <4>3. /\ pc' \in {pc, "idle"} /\ run' \in {run, 0}
            /\ got' \in {got, Answer(p, calls)}
        <5>1. CASE missing' = 0
          BY <2>9, <3>1, <5>1 DEF BurstPacket
        <5>2. CASE missing' # 0
          BY <2>9, <3>1, <5>2 DEF BurstPacket
        <5> QED BY <5>1, <5>2
      <4>4. /\ pc' \in {"open", "identify", "idle"} \cup Calls \cup Ended
            /\ run' \in Nat
            /\ got' \in [call : Nat, id : Nat, name : Names, shut : BOOLEAN]
        BY <2>3, <4>3
      <4> QED BY <4>1, <4>2, <4>4 DEF mcu, env
    <3>2. CASE p.name # "clock"
      BY <2>1, <2>9, <3>2 DEF BurstPacket, Packet, Skip, host, mcu, env
    <3> QED BY <3>1, <3>2
  <2> QED BY <1>3, <2>5, <2>6, <2>7, <2>8, <2>9 DEF TakePacket, p
<1>4. CASE ReadPort
  <2> PICK n \in 1 .. Len(up) :
       data' = SubSeq(up, 1, n) /\ up' = SubSeq(up, n + 1, Len(up))
    BY <1>4 DEF ReadPort
  <2>1. data' \in Seq(Packets) /\ up' \in Seq(Packets)
    OBVIOUS
  <2> QED BY <1>4, <2>1 DEF ReadPort, host, mcu, env
<1>5. CASE Timeout
  BY <1>5 DEF Timeout, mcu, env, Ended
<1>6. CASE McuReceive
  <2> DEFINE f == Head(down)
  <2>1. f \in Frames /\ Tail(down) \in Seq(Frames)
    BY <1>6, HeadTailProperties DEF McuReceive
  <2>2. f.id \in Nat
    BY <2>1 DEF Frames
  <2>3. Reply(f) \in Seq(Packets) /\ Ack \in Packets
    BY <2>1, ReplyType, MsgType DEF Ack, Names
  <2>4. <<Ack>> \in Seq(Packets)
    BY <2>3
  <2>5. /\ (up \o Reply(f)) \o <<Ack>> \in Seq(Packets)
        /\ Append(up, Ack) \in Seq(Packets)
    BY <2>3, <2>4, ConcatProperties, AppendProperties
  <2>6. Next1(expected) \in Nat
    BY Next1Type
  <2> HIDE DEF f
  <2>7. CASE f.seq = expected
    BY <1>6, <2>1, <2>2, <2>5, <2>6, <2>7 DEF McuReceive, f, host, env
  <2>8. CASE f.seq # expected
    BY <1>6, <2>1, <2>2, <2>5, <2>6, <2>8 DEF McuReceive, f, host, env
  <2> QED BY <2>7, <2>8
<1>7. CASE McuReport
  <2> PICK q \in armed : up' = Append(up, Msg("report", q)) /\ armed' = armed \ {q}
    BY <1>7 DEF McuReport
  <2>1. up' \in Seq(Packets)
    BY MsgType, AppendProperties DEF Names
  <2> QED BY <1>7, <2>1 DEF McuReport, host, env
<1>8. CASE McuStats
  <2>1. up' \in Seq(Packets)
    BY <1>8, MsgType, AppendProperties DEF Names, McuStats
  <2> QED BY <1>8, <2>1 DEF McuStats, host, mcu
<1>9. CASE McuShutdown
  <2>1. up' \in Seq(Packets)
    BY <1>9, MsgType, AppendProperties DEF Names, McuShutdown
  <2> QED BY <1>9, <2>1 DEF McuShutdown, host, env
<1>10. CASE McuRestart
  <2> PICK n \in 0 .. Len(down) : down' = SubSeq(down, n + 1, Len(down))
    BY <1>10 DEF McuRestart
  <2> PICK k \in 0 .. Len(up) : up' = Append(SubSeq(up, 1, k), Msg("starting", 0))
    BY <1>10 DEF McuRestart
  <2>1. SubSeq(up, 1, k) \in Seq(Packets) /\ down' \in Seq(Frames)
    <3>1. \A i \in 1 .. k : up[i] \in Packets
      BY ElementOfSeq
    <3>2. \A i \in n + 1 .. Len(down) : down[i] \in Frames
      BY ElementOfSeq
    <3>3. k \in Int /\ n + 1 \in Int /\ Len(down) \in Int
      OBVIOUS
    <3>4. SubSeq(up, 1, k) \in Seq(Packets)
      BY <3>1, <3>3, SubSeqProperties
    <3>5. SubSeq(down, n + 1, Len(down)) \in Seq(Frames)
      BY <3>2, <3>3, SubSeqProperties
    <3> QED BY <3>4, <3>5
  <2>2. up' \in Seq(Packets)
    BY <2>1, MsgType, AppendProperties DEF Names
  <2>3. /\ restarts' = restarts + 1 /\ expected' = 0 /\ halted' = FALSE
        /\ armed' = {} /\ UNCHANGED <<host, data, taken, ran, stats, link>>
    BY <1>10 DEF McuRestart
  <2>4. restarts' \in Nat /\ expected' \in Nat /\ armed' \subseteq Nat
    BY <2>3
  <2>5. halted' \in BOOLEAN
    BY <1>10, Zenon DEF McuRestart
  <2> QED BY <2>1, <2>2, <2>3, <2>4, <2>5 DEF host
<1>11. CASE Lose
  <2>1. Append(up, Ack) \in Seq(Packets)
    BY MsgType, AppendProperties DEF Names, Ack
  <2>2. up' \in Seq(Packets) /\ down' \in Seq(Frames)
    <3>1. up # <<>> => Tail(up) \in Seq(Packets)
      OBVIOUS
    <3>2. down # <<>> => Tail(down) \in Seq(Frames)
      OBVIOUS
    <3> QED BY <1>11, <2>1, <3>1, <3>2 DEF Lose
  <2> QED BY <1>11, <2>2 DEF Lose, host, mcu, env
<1>12. CASE UNCHANGED vars
  BY <1>12 DEF vars, host, mcu, env
<1> QED BY <1>2, <1>3, <1>4, <1>5, <1>6, <1>7, <1>8, <1>9, <1>10, <1>11, <1>12
           DEF Next

-----------------------------------------------------------------------------
\* What a step does to a sequence of frames: the line loses the one after k,
LineDrop(k) ==
  /\ Len(Line') = Len(Line) - 1
  /\ \A i \in 1 .. Len(Line') : Line'[i] = IF i <= k THEN Line[i] ELSE Line[i + 1]

\* gains n at its end,
LineGrow(n) ==
  /\ Len(Line') = Len(Line) + n
  /\ \A i \in 1 .. Len(Line) : Line'[i] = Line[i]

\* is cut after n frames by a restart;
LineCut(n) ==
  /\ n \in 0 .. Len(Line) /\ Len(Line') = n + 1
  /\ \A i \in 1 .. n : Line'[i] = Line[i]
  /\ Line'[n + 1] = Msg("starting", 0)

\* and the commands on their way gain n at the end,
DownGrow(n) ==
  /\ Len(down') = Len(down) + n
  /\ \A i \in 1 .. Len(down) : down'[i] = down[i]

\* or lose the first n.
DownShift(n) ==
  /\ Len(down') = Len(down) - n
  /\ \A i \in 1 .. Len(down') : down'[i] = down[i + n]

\* The frames of the line, one by one.
LEMMA LineType ==
  ASSUME TypeOK
  PROVE  /\ Line \in Seq(Packets) /\ Len(Line) \in Nat
         /\ Len(Line) = Len(data) + Len(up)
         /\ Len(data) \in Nat /\ Len(up) \in Nat /\ Len(down) \in Nat
         /\ Len(output) \in Nat
         /\ \A i \in 1 .. Len(Line) :
              /\ Line[i] = IF i <= Len(data) THEN data[i] ELSE up[i - Len(data)]
              /\ Line[i].name \in Names /\ Line[i].id \in Nat
              /\ Line[i].shut \in BOOLEAN
         /\ \A i \in 1 .. Len(down) :
              down[i].seq \in Nat /\ down[i].cmd \in Commands /\ down[i].id \in Nat
<1>1. /\ data \in Seq(Packets) /\ up \in Seq(Packets) /\ down \in Seq(Frames)
      /\ output \in Seq(Nat)
  BY DEF TypeOK
<1>2. /\ Line \in Seq(Packets) /\ Len(Line) = Len(data) + Len(up)
      /\ \A i \in 1 .. Len(data) + Len(up) :
           Line[i] = IF i <= Len(data) THEN data[i] ELSE up[i - Len(data)]
  BY <1>1, ConcatProperties DEF Line
<1>3. \A i \in 1 .. Len(Line) : Line[i] \in Packets
  BY <1>2, ElementOfSeq
<1>4. \A i \in 1 .. Len(down) : down[i] \in Frames
  BY <1>1, ElementOfSeq
<1>5. /\ Len(data) \in Nat /\ Len(up) \in Nat /\ Len(down) \in Nat
      /\ Len(output) \in Nat
  BY <1>1
<1>6. \A i \in 1 .. Len(Line) :
        Line[i].name \in Names /\ Line[i].id \in Nat /\ Line[i].shut \in BOOLEAN
  BY <1>3 DEF Packets
<1>7. \A i \in 1 .. Len(down) :
        down[i].seq \in Nat /\ down[i].cmd \in Commands /\ down[i].id \in Nat
  BY <1>4 DEF Frames
<1> QED BY <1>2, <1>5, <1>6, <1>7

\* Taking a buffered packet takes the first of the line.
LEMMA TakeFacts ==
  ASSUME TypeOK, TypeOK', data # <<>>, data' = Tail(data), up' = up
  PROVE  Len(Line) > 0 /\ Head(data) = Line[1] /\ LineDrop(0)
<1>1. data \in Seq(Packets)
  BY DEF TypeOK
<1>2. /\ Len(data) > 0 /\ Head(data) = data[1] /\ Len(data') = Len(data) - 1
      /\ \A i \in 1 .. Len(data') : data'[i] = data[i + 1]
  BY <1>1
<1>3. Line' = data' \o up'
  BY DEF Line
<1>4. /\ Len(Line') = Len(data') + Len(up') /\ Len(data') \in Nat
      /\ \A i \in 1 .. Len(Line') :
           Line'[i] = IF i <= Len(data') THEN data'[i] ELSE up'[i - Len(data')]
  <2>1. data' \in Seq(Packets) /\ up' \in Seq(Packets)
    BY DEF TypeOK
  <2> QED BY <2>1, <1>3, ConcatProperties
<1>5. Len(Line') = Len(Line) - 1
  BY <1>2, <1>4, LineType
<1>6. ASSUME NEW i \in 1 .. Len(Line')
      PROVE  Line'[i] = Line[i + 1]
  <2>1. i + 1 \in 1 .. Len(Line)
    BY <1>5, LineType
  <2>2. CASE i <= Len(data')
    <3>1. i \in 1 .. Len(data') /\ i + 1 <= Len(data)
      BY <2>2, <1>2, <1>4, LineType
    <3>2. Line'[i] = data'[i] /\ Line[i + 1] = data[i + 1]
      BY <2>1, <2>2, <3>1, <1>4, LineType
    <3> QED BY <3>1, <3>2, <1>2
  <2>3. CASE ~ i <= Len(data')
    <3>1. i - Len(data') = (i + 1) - Len(data) /\ ~ i + 1 <= Len(data)
      BY <2>3, <1>2, <1>4, LineType
    <3>2. Line'[i] = up'[i - Len(data')] /\ Line[i + 1] = up[(i + 1) - Len(data)]
      BY <2>1, <2>3, <3>1, <1>4, LineType
    <3> QED BY <3>1, <3>2
  <2> QED BY <2>2, <2>3
<1> QED BY <1>2, <1>5, <1>6, LineType DEF LineDrop

\* read_packet moves what has arrived into the buffer: the line is the same.
LEMMA ReadFacts ==
  ASSUME TypeOK, TypeOK', ReadPort
  PROVE  Line' = Line
<1> PICK n \in 1 .. Len(up) :
      data' = SubSeq(up, 1, n) /\ up' = SubSeq(up, n + 1, Len(up))
  BY DEF ReadPort
<1>1. data = <<>> /\ up \in Seq(Packets)
  BY DEF ReadPort, TypeOK
<1>2. SubSeq(up, 1, n) \o SubSeq(up, n + 1, Len(up)) = SubSeq(up, 1, Len(up))
  BY <1>1, ConcatAdjacentSubSeq
<1>3. Line = up
  BY <1>1, ConcatEmptySeq DEF Line
<1>4. Line' = up
  BY <1>1, <1>2, SubSeqFull DEF Line
<1> QED BY <1>3, <1>4

\* What the MCU sends goes to the end of the line,
LEMMA GrowFacts ==
  ASSUME TypeOK, NEW s \in Seq(Packets), data' = data, up' = up \o s
  PROVE  /\ LineGrow(Len(s))
         /\ \A i \in 1 .. Len(s) : Line'[Len(Line) + i] = s[i]
<1>1. data \in Seq(Packets) /\ up \in Seq(Packets)
  BY DEF TypeOK
<1>2. Line' = Line \o s
  <2>1. data \o (up \o s) = (data \o up) \o s
    BY <1>1, ConcatAssociative
  <2>2. Line' = data \o (up \o s)
    BY Zenon DEF Line
  <2> QED BY <2>1, <2>2, Zenon DEF Line
<1>3. /\ Len(Line \o s) = Len(Line) + Len(s)
      /\ \A i \in 1 .. Len(Line) + Len(s) :
           (Line \o s)[i] = IF i <= Len(Line) THEN Line[i] ELSE s[i - Len(Line)]
  BY LineType, ConcatProperties
<1>4. Len(s) \in Nat /\ Len(Line) \in Nat
  BY LineType
<1>5. ASSUME NEW i \in 1 .. Len(s) PROVE (Line \o s)[Len(Line) + i] = s[i]
  BY <1>3, <1>4
<1> QED BY <1>2, <1>3, <1>4, <1>5 DEF LineGrow

\* also when it is a single frame.
LEMMA AppendFacts ==
  ASSUME TypeOK, NEW p \in Packets, data' = data, up' = Append(up, p)
  PROVE  LineGrow(1) /\ Line'[Len(Line) + 1] = p
<1>1. up \in Seq(Packets)
  BY DEF TypeOK
<1>2. up' = up \o <<p>>
  BY <1>1, AppendIsConcat
<1> DEFINE s == <<p>>
<1>3. s \in Seq(Packets) /\ Len(s) = 1 /\ s[1] = p
  OBVIOUS
<1>4. up' = up \o s
  BY <1>2
<1> HIDE DEF s
<1>5. LineGrow(Len(s)) /\ \A i \in 1 .. Len(s) : Line'[Len(Line) + i] = s[i]
  BY <1>3, <1>4, GrowFacts
<1>6. 1 \in 1 .. Len(s)
  BY <1>3
<1> QED BY <1>3, <1>5, <1>6

\* Losing a frame takes the first that is not in the buffer.
LEMMA LoseFacts ==
  ASSUME TypeOK, TypeOK', data' = data, up # <<>>, up' = Tail(up)
  PROVE  Len(data) \in Nat /\ Len(Line) > 0 /\ LineDrop(Len(data))
<1>1. up \in Seq(Packets) /\ data \in Seq(Packets)
  BY DEF TypeOK
<1>2. Len(up) > 0 /\ Len(up') = Len(up) - 1 /\ \A i \in 1 .. Len(up') : up'[i] = up[i + 1]
  BY <1>1
<1>3. Line' = data' \o up'
  BY DEF Line
<1>4. /\ Len(Line') = Len(data) + Len(up')
      /\ \A i \in 1 .. Len(Line') :
           Line'[i] = IF i <= Len(data) THEN data[i] ELSE up'[i - Len(data)]
  <2>1. data' \in Seq(Packets) /\ up' \in Seq(Packets)
    BY DEF TypeOK
  <2> QED BY <2>1, <1>3, ConcatProperties
<1>5. Len(Line') = Len(Line) - 1
  BY <1>2, <1>4, LineType
<1>6. ASSUME NEW i \in 1 .. Len(Line')
      PROVE  Line'[i] = IF i <= Len(data) THEN Line[i] ELSE Line[i + 1]
  <2>1. CASE i <= Len(data)
    <3>1. i \in 1 .. Len(Line)
      BY <2>1, <1>5, LineType
    <3> QED BY <2>1, <3>1, <1>4, LineType
  <2>2. CASE ~ i <= Len(data)
    <3>1. /\ i + 1 \in 1 .. Len(Line) /\ ~ i + 1 <= Len(data)
          /\ (i + 1) - Len(data) = (i - Len(data)) + 1
          /\ i - Len(data) \in 1 .. Len(up')
      BY <2>2, <1>2, <1>4, <1>5, LineType
    <3>2. Line[i + 1] = up[(i - Len(data)) + 1]
      BY <3>1, LineType
    <3>3. Line'[i] = up'[i - Len(data)]
      BY <2>2, <1>4
    <3> QED BY <2>2, <3>1, <3>2, <3>3, <1>2
  <2> QED BY <2>1, <2>2
<1> QED BY <1>2, <1>5, <1>6, LineType DEF LineDrop

\* A restart cuts the line short and ends it with the word of the start.
LEMMA CutFacts ==
  ASSUME TypeOK, TypeOK', data' = data, NEW n \in 0 .. Len(up),
         up' = Append(SubSeq(up, 1, n), Msg("starting", 0))
  PROVE  LineCut(Len(data) + n)
<1>1. /\ up \in Seq(Packets) /\ data \in Seq(Packets)
      /\ Msg("starting", 0) \in Packets
  BY MsgType DEF TypeOK, Names
<1>2. /\ SubSeq(up, 1, n) \in Seq(Packets) /\ Len(SubSeq(up, 1, n)) = n
      /\ \A i \in 1 .. n : SubSeq(up, 1, n)[i] = up[i]
  BY <1>1
<1>3. /\ Len(up') = n + 1 /\ up'[n + 1] = Msg("starting", 0)
      /\ \A i \in 1 .. n : up'[i] = up[i]
  BY <1>1, <1>2, AppendProperties
<1>4. Line' = data' \o up'
  BY DEF Line
<1>5. /\ Len(Line') = Len(data) + n + 1
      /\ \A i \in 1 .. Len(Line') :
           Line'[i] = IF i <= Len(data) THEN data[i] ELSE up'[i - Len(data)]
  <2>1. data' \in Seq(Packets) /\ up' \in Seq(Packets)
    BY DEF TypeOK
  <2>2. /\ Len(Line') = Len(data') + Len(up')
        /\ \A i \in 1 .. Len(data') + Len(up') :
             Line'[i] = IF i <= Len(data') THEN data'[i] ELSE up'[i - Len(data')]
    BY <2>1, <1>4, ConcatProperties
  <2>3. Len(data) \in Nat /\ data' = data
    BY LineType
  <2>4. Len(Line') = Len(data) + n + 1
    BY <2>2, <2>3, <1>3
  <2> QED BY <2>2, <2>3, <2>4
<1>6. ASSUME NEW i \in 1 .. Len(data) + n
      PROVE  Line'[i] = Line[i]
  <2>1. i \in 1 .. Len(Line) /\ i \in 1 .. Len(Line')
    BY <1>5, LineType
  <2>2. CASE i <= Len(data)
    BY <2>1, <2>2, <1>5, LineType
  <2>3. CASE ~ i <= Len(data)
    <3>1. i - Len(data) \in 1 .. n
      BY <2>3, LineType
    <3> QED BY <2>1, <2>3, <3>1, <1>3, <1>5, LineType
  <2> QED BY <2>2, <2>3
<1>7. Line'[Len(data) + n + 1] = Msg("starting", 0)
  <2>1. /\ Len(data) + n + 1 \in 1 .. Len(Line') /\ ~ Len(data) + n + 1 <= Len(data)
        /\ (Len(data) + n + 1) - Len(data) = n + 1
    BY <1>5, LineType
  <2> QED BY <2>1, <1>3, <1>5
<1> QED BY <1>5, <1>6, <1>7, LineType DEF LineCut

-----------------------------------------------------------------------------
\* Numbers follow each other,
LEMMA NumberNext == \A n \in Nat : Next1(Number(n)) = Number(n + 1)
<1> TAKE n \in Nat
<1>1. (((Chunks + n) % SeqCount) + 1) % SeqCount = (Chunks + n + 1) % SeqCount
  <2>1. Chunks + n \in Nat /\ 1 \in Nat /\ SeqCount \in Nat \ {0}
    BY Constants
  <2> QED BY <2>1, ModSum
<1>2. Chunks + n + 1 = Chunks + (n + 1)
  BY Constants
<1> QED BY <1>1, <1>2 DEF Next1, Number

\* and so do remainders.
LEMMA ModNext ==
  \A n \in Nat : Next1(n % SeqCount) = (n + 1) % SeqCount
<1> TAKE n \in Nat
<1>1. 1 \in Nat /\ SeqCount \in Nat \ {0}
  BY Constants
<1> QED BY <1>1, ModSum DEF Next1

\* Zero leaves no remainder.
LEMMA ZeroMod == 0 % SeqCount = 0
BY Constants

\* The invariant holds initially.
LEMMA InitInv == Init => IInv
<1> SUFFICES ASSUME Init PROVE IInv OBVIOUS
<1>1. TypeOK
  BY InitType
<1>2. /\ pc = "open" /\ sequence = 0 /\ output = <<>> /\ data = <<>> /\ down = <<>>
      /\ calls = 0 /\ run = 0 /\ restarts = 0 /\ taken = {} /\ ran = {}
      /\ armed = {} /\ Len(output) = 0 /\ Len(down) = 0
  BY DEF Init
<1>3. got.call = 0 /\ got.id = 0 /\ got.name = "none"
  BY DEF Init, Answer, Msg
<1>4. ~Past /\ Sent = -1 /\ Seen = -1
  BY <1>2 DEF Past, Sent, Seen
<1>5. Clean => Line = <<>> /\ Len(Line) = 0 /\ expected = 0
  BY <1>2 DEF Init, Line
<1>6. \A i \in 1 .. Len(Line) : i = 1 /\ Line[i].name = "identify_response" /\ ~Clean
  <2>1. CASE up = <<>>
    BY <1>2, <2>1 DEF Line
  <2>2. CASE up # <<>>
    <3>1. ~Clean
      BY <2>2 DEF Init
    <3>2. PICK offset \in 0 .. Chunks : up = <<Msg("identify_response", offset)>>
      BY <2>2, <3>1 DEF Init
    <3>3. Line = up
      BY <1>1, <1>2, ConcatEmptySeq DEF Line, TypeOK
    <3> QED BY <3>1, <3>2, <3>3 DEF Msg
  <2> QED BY <2>1, <2>2
<1>7. ChunksInv
  BY <1>2, <1>4, Constants DEF ChunksInv
<1>8. HostInv
  BY <1>2, <1>3, Constants, ZeroMod DEF HostInv, Calls
<1>9. DownInv
  BY <1>2, <1>4 DEF DownInv
<1>10. TakenInv /\ TracksInv
  BY <1>2, <1>3, <1>4 DEF TakenInv, TracksInv
<1>11. ResponseInv
  BY <1>2, <1>4, <1>6 DEF ResponseInv
<1>12. AnswerInv /\ DueInv
  BY <1>2, <1>6 DEF AnswerInv, DueInv, Requests
<1>13. InStepInv
  BY <1>2, <1>4, <1>5, Constants, ZeroMod DEF InStepInv, Steady
<1>14. ComingInv
  BY <1>2 DEF ComingInv, Coming, Expired
<1>15. AckInv
  BY <1>2, <1>5 DEF AckInv, Steady
<1>16. ReplyVouches
  BY <1>3 DEF ReplyVouches
<1> QED BY <1>1, <1>7, <1>8, <1>9, <1>10, <1>11, <1>12, <1>13, <1>14, <1>15,
           <1>16 DEF IInv

-----------------------------------------------------------------------------
\* What the first packet buffered is.
LEMMA HeadFacts ==
  ASSUME TypeOK, TypeOK', NEW call, Packet(call)
  PROVE  /\ Len(Line) > 0 /\ Head(data) = Line[1] /\ LineDrop(0)
         /\ pc = call
         /\ UNCHANGED <<expected, halted, armed, taken, ran, stats, link, restarts>>
BY TakeFacts DEF Packet, mcu, env

\* The two sides of the session.
HostStep == Start \/ TakePacket \/ ReadPort \/ Timeout
McuStep  == McuReceive \/ McuReport \/ McuStats \/ McuShutdown \/ McuRestart \/ Lose

\* The MCU and the line leave the tool alone.
LEMMA McuKeeps ==
  ASSUME McuStep
  PROVE  UNCHANGED <<pc, want, missing, sequence, output, calls, run, got>>
BY DEF McuStep, McuReceive, McuReport, McuStats, McuShutdown, McuRestart, Lose, host

\* The steps of the tools, one for each thing they do.
Sends ==   \* a call that sends one command
  /\ pc = "idle" /\ calls' = calls + 1 /\ run' = run + 1 /\ run < MaxRun
  /\ UNCHANGED <<missing, output, got>>
  /\ Line' = Line /\ DownGrow(1)
  /\ down'[Len(down) + 1].seq = sequence /\ down'[Len(down) + 1].id = calls + 1
  /\ \/ /\ pc' = "request" /\ want' \in Requests
        /\ down'[Len(down) + 1].cmd = want' /\ sequence' = sequence
     \/ pc' = "send" /\ down'[Len(down) + 1].cmd = "set" /\ sequence' = sequence
     \/ /\ pc' = "report" /\ down'[Len(down) + 1].cmd = "query"
        /\ sequence' = Next1(sequence)

Bursts ==
  /\ pc = "idle" /\ pc' = "burst"
  /\ calls' = calls + BurstSize /\ run' = run + BurstSize /\ run' <= MaxRun
  /\ sequence' = (sequence + BurstSize) % SeqCount /\ missing' = BurstSize
  /\ UNCHANGED <<output, got>>
  /\ Line' = Line /\ DownGrow(BurstSize)
  /\ \A i \in 1 .. BurstSize :
       /\ down'[Len(down) + i].seq = (sequence + i - 1) % SeqCount
       /\ down'[Len(down) + i].id = calls + i
       /\ down'[Len(down) + i].cmd = "clock"

Identifies ==   \* the first chunk is asked for
  /\ pc = "open" /\ pc' = "identify" /\ Line' = Line /\ DownGrow(1)
  /\ down'[Len(down) + 1] = Frame(0, "identify", 0)
  /\ UNCHANGED <<want, missing, sequence, output, calls, run, got>>

Takes == /\ Len(Line) > 0 /\ LineDrop(0)
         /\ Head(data) = Line[1]
         /\ UNCHANGED <<want, calls>>

Chunk ==   \* a chunk is taken and the next one asked for
  /\ Takes /\ pc = "identify" /\ pc' = pc
  /\ Line[1].name = "identify_response" /\ Line[1].id = Len(output)
  /\ Line[1].id # Chunks
  /\ sequence' = Next1(sequence) /\ output' = Append(output, Line[1].id)
  /\ DownGrow(1)
  /\ down'[Len(down) + 1] = Frame(sequence', "identify", Line[1].id + 1)
  /\ UNCHANGED <<missing, run, got>>

LastChunk ==
  /\ Takes /\ pc = "identify" /\ pc' = "idle"
  /\ Line[1].name = "identify_response" /\ Line[1].id = Len(output)
  /\ Line[1].id = Chunks
  /\ sequence' = Next1(sequence)
  /\ UNCHANGED <<missing, run, got, output, down>>

Skips ==   \* a packet the call does not wait for
  /\ Takes /\ UNCHANGED <<pc, missing, sequence, output, run, got, down>>
  /\ \/ pc = "identify" /\ Line[1].name # "identify_response"
     \/ pc = "request" /\ Line[1].name # want
     \/ pc = "send" /\ Line[1].name \notin {"ack", "shutdown", "is_shutdown"}
     \/ /\ pc = "report" /\ Line[1].name \notin {"shutdown", "is_shutdown"}
        /\ ~(Line[1].name = "report" /\ Line[1].id = calls)
     \/ pc = "burst" /\ Line[1].name # "clock"

Gives(name) ==   \* the call returns the packet
  /\ Takes /\ pc' = "idle" /\ Line[1].name = name
  /\ run' = 0 /\ got' = Answer(Line[1], calls)
  /\ UNCHANGED <<output, down>>

Returns ==
  /\ \/ pc = "request" /\ Gives(want) /\ sequence' = Next1(sequence) /\ missing' = missing
     \/ /\ pc = "report" /\ Gives("report") /\ Line[1].id = calls
        /\ UNCHANGED <<sequence, missing>>
     \/ /\ pc = "burst" /\ Gives("clock") /\ missing = 1 /\ missing' = 0
        /\ sequence' = sequence

Counts ==   \* one more reply of a burst
  /\ Takes /\ pc = "burst" /\ Line[1].name = "clock"
  /\ missing' = missing - 1 /\ missing' # 0
  /\ UNCHANGED <<pc, sequence, output, run, got, down>>

Acked ==
  /\ Takes /\ pc = "send" /\ pc' = "idle" /\ Line[1].name = "ack"
  /\ sequence' = Next1(sequence)
  /\ UNCHANGED <<missing, output, run, got, down>>

Halts ==    \* word of a shutdown ends wait_for_adc
  /\ Takes /\ pc = "report" /\ pc' = "idle" /\ Line[1].name \in Words
  /\ UNCHANGED <<missing, sequence, output, run, got, down>>

Fails ==    \* a call gives up on the packet it took
  /\ Takes /\ pc \in {"identify", "send"}
  /\ pc' = IF pc = "send" THEN "raised" ELSE "offset mismatch"
  /\ UNCHANGED <<missing, sequence, output, run, got, down>>

Expires ==
  /\ pc \in Calls \cup {"identify"} /\ pc' = "timed out" /\ data = <<>>
  /\ Clean => up = <<>> /\ down = <<>> /\ armed = {}
  /\ Line' = Line
  /\ UNCHANGED <<want, missing, sequence, output, calls, run, got, down>>

Reads ==
  /\ Line' = Line
  /\ pc # "open"
  /\ UNCHANGED <<pc, want, missing, sequence, output, calls, run, got, down>>

HostFacts ==
  /\ UNCHANGED <<expected, halted, armed, taken, ran, link, restarts>>
  /\ \/ Identifies \/ Sends \/ Bursts \/ Chunk \/ LastChunk \/ Skips \/ Returns
     \/ Counts \/ Acked \/ Halts \/ Fails \/ Expires \/ Reads

\* The steps of the MCU and of the line.
Accepts ==
  /\ Len(down) > 0 /\ DownShift(1)
  /\ down[1].seq = expected /\ expected' = Next1(expected)
  /\ IF down[1].cmd = "identify" THEN taken' = taken ELSE taken' = taken \cup {down[1].id}
  /\ ran \subseteq ran' /\ ran' \subseteq ran \cup {down[1].id}
  /\ down[1].cmd = "identify" \/ (down[1].cmd = "neopixel" /\ halted) => ran' = ran
  /\ down[1].cmd # "identify" /\ ~halted => down[1].id \in ran'
  /\ armed' \subseteq armed \cup {down[1].id} /\ armed \subseteq armed'
  /\ down[1].cmd # "query" => armed' = armed
  /\ down[1].cmd = "query" /\ ~halted => down[1].id \in armed'
  /\ \/ /\ down[1].cmd \in Requests \cup {"identify"} /\ LineGrow(2)
        /\ Line'[Len(Line) + 1].name = IF down[1].cmd = "identify" THEN "identify_response"
                                       ELSE down[1].cmd
        /\ Line'[Len(Line) + 1].id = down[1].id
        /\ down[1].cmd = "config" => Line'[Len(Line) + 1].shut = halted
        /\ Line'[Len(Line) + 2].name = "ack"
     \/ /\ down[1].cmd \in {"set", "query", "neopixel"} /\ halted /\ LineGrow(2)
        /\ Line'[Len(Line) + 1].name = "is_shutdown"
        /\ Line'[Len(Line) + 2].name = "ack"
     \/ /\ down[1].cmd \in {"set", "query"} /\ ~halted /\ LineGrow(1)
        /\ Line'[Len(Line) + 1].name = "ack"
  /\ UNCHANGED <<halted, restarts>>

Refuses ==
  /\ Len(down) > 0 /\ DownShift(1) /\ down[1].seq # expected
  /\ LineGrow(1) /\ Line'[Len(Line) + 1].name = "ack"
  /\ UNCHANGED <<expected, halted, armed, taken, ran, restarts>>

Reports ==
  /\ ~halted /\ LineGrow(1) /\ Line'[Len(Line) + 1].name = "report"
  /\ Line'[Len(Line) + 1].id \in armed /\ armed' = armed \ {Line'[Len(Line) + 1].id}
  /\ UNCHANGED <<down, expected, halted, taken, ran, restarts>>

Notes ==
  /\ LineGrow(1) /\ Line'[Len(Line) + 1].name = "stats"
  /\ UNCHANGED <<down, expected, halted, armed, taken, ran, restarts>>

ShutsDown ==
  /\ halted' = TRUE /\ armed' = {} /\ ~halted
  /\ LineGrow(1) /\ Line'[Len(Line) + 1].name = "shutdown"
  /\ UNCHANGED <<down, expected, taken, ran, restarts>>

Restarts ==
  /\ restarts' = restarts + 1 /\ expected' = 0 /\ ~halted' /\ armed' = {}
  /\ \E n \in 0 .. Len(down) : DownShift(n)
  /\ \E n \in 0 .. Len(Line) : LineCut(n)
  /\ UNCHANGED <<taken, ran>>

LosesReply ==
  /\ ~Clean /\ Len(Line) > 0 /\ LineDrop(Len(data))
  /\ UNCHANGED <<down, expected, halted, armed, taken, ran, restarts>>

LosesCommand ==
  /\ ~Clean /\ Len(down) > 0 /\ DownShift(1)
  /\ Line' = Line \/ (LineGrow(1) /\ Line'[Len(Line) + 1].name = "ack")
  /\ UNCHANGED <<expected, halted, armed, taken, ran, restarts>>

McuFacts ==
  /\ UNCHANGED <<pc, want, missing, sequence, output, data, calls, run, got, link>>
  /\ \/ Accepts \/ Refuses \/ Reports \/ Notes \/ ShutsDown \/ Restarts
     \/ LosesReply \/ LosesCommand

\* A command sent goes to the end of the line down.
LEMMA DownAppend ==
  ASSUME TypeOK, NEW f \in Frames, down' = Append(down, f)
  PROVE  DownGrow(1) /\ down'[Len(down) + 1] = f
<1>1. down \in Seq(Frames)
  BY DEF TypeOK
<1> QED BY <1>1, AppendProperties DEF DownGrow

\* What a call that sends one command does.
LEMMA CallFacts ==
  ASSUME TypeOK, NEW cmd \in Commands, NEW call, NEW reply, Call(cmd, call, reply)
  PROVE  /\ pc = "idle" /\ pc' = call /\ want' = reply
         /\ calls' = calls + 1 /\ run' = run + 1 /\ run < MaxRun
         /\ UNCHANGED <<missing, output, got>>
         /\ UNCHANGED <<expected, halted, armed, taken, ran, link, restarts>>
         /\ Line' = Line /\ DownGrow(1)
         /\ down'[Len(down) + 1].seq = sequence /\ down'[Len(down) + 1].id = calls + 1
         /\ down'[Len(down) + 1].cmd = cmd
<1>1. sequence \in Nat /\ calls + 1 \in Nat
  BY DEF TypeOK
<1>2. Frame(sequence, cmd, calls + 1) \in Frames
  BY <1>1, FrameType
<1>3. DownGrow(1) /\ down'[Len(down) + 1] = Frame(sequence, cmd, calls + 1)
  BY <1>2, DownAppend DEF Call
<1> QED BY <1>3 DEF Call, Frame, Line, mcu, env

\* Every step of the tool is one of HostFacts.
LEMMA HostStepFacts ==
  ASSUME TypeOK, TypeOK', HostStep
  PROVE  HostFacts
<1> DEFINE Still == UNCHANGED <<expected, halted, armed, taken, ran, link, restarts>>
<1>1. CASE IdentifyStart
  <2>1. Frame(0, "identify", 0) \in Frames
    BY FrameType DEF Commands
  <2>2. DownGrow(1) /\ down'[Len(down) + 1] = Frame(0, "identify", 0)
    BY <1>1, <2>1, DownAppend DEF IdentifyStart
  <2>4. Line' = Line /\ Still
    BY <1>1 DEF IdentifyStart, Line, mcu, env
  <2>5. Identifies
    BY <1>1, <2>2, <2>4 DEF IdentifyStart, Identifies
  <2> QED BY <2>4, <2>5 DEF HostFacts
<1>2. CASE SendStart
  <2>1. "set" \in Commands
    BY DEF Commands
  <2>2. Sends /\ Still
    BY <1>2, <2>1, CallFacts DEF SendStart, Sends
  <2> QED BY <2>2 DEF HostFacts
<1>3. CASE QueryStart
  <2>1. "query" \in Commands
    BY DEF Commands
  <2>2. Sends /\ Still
    BY <1>3, <2>1, CallFacts DEF QueryStart, Sends
  <2> QED BY <2>2 DEF HostFacts
<1>4. CASE \E name \in Requests : RequestStart(name)
  <2> PICK name \in Requests : RequestStart(name)
    BY <1>4
  <2>1. name \in Commands
    BY DEF Commands, Requests
  <2>2. Sends /\ Still
    BY <2>1, CallFacts DEF RequestStart, Sends
  <2> QED BY <2>2 DEF HostFacts
<1>5. CASE BurstStart
  <2> DEFINE b == [i \in 1 .. BurstSize |->
                     Frame((sequence + i - 1) % SeqCount, "clock", calls + i)]
  <2>1. \A i \in 1 .. BurstSize : b[i] \in Frames
    <3> TAKE i \in 1 .. BurstSize
    <3>1. (sequence + i - 1) \in Nat /\ calls + i \in Nat
      BY Constants DEF TypeOK
    <3>2. (sequence + i - 1) % SeqCount \in Nat
      BY <3>1, Constants, DivMod
    <3> QED BY <3>1, <3>2, FrameType DEF Commands
  <2>2. b \in Seq(Frames) /\ Len(b) = BurstSize
    BY <2>1, Constants
  <2>3. \A i \in 1 .. BurstSize :
          /\ b[i].seq = (sequence + i - 1) % SeqCount
          /\ b[i].id = calls + i /\ b[i].cmd = "clock"
    BY DEF Frame
  <2>4. down' = down \o b
    BY <1>5 DEF BurstStart
  <2> HIDE DEF b
  <2>5. /\ Len(down') = Len(down) + BurstSize
        /\ \A i \in 1 .. Len(down) + BurstSize :
             down'[i] = IF i <= Len(down) THEN down[i] ELSE b[i - Len(down)]
    BY <2>2, <2>4, ConcatProperties DEF TypeOK
  <2>6. DownGrow(BurstSize)
    BY <2>5, LineType, Constants DEF DownGrow
  <2>7. ASSUME NEW i \in 1 .. BurstSize PROVE down'[Len(down) + i] = b[i]
    BY <2>5, LineType, Constants
  <2>8. Bursts
    <3>1. Line' = Line /\ run' <= MaxRun
      BY <1>5 DEF BurstStart, Line
    <3> QED BY <1>5, <2>3, <2>6, <2>7, <3>1 DEF BurstStart, Bursts
  <2>9. Still
    BY <1>5 DEF BurstStart, mcu, env
  <2> QED BY <2>8, <2>9 DEF HostFacts
<1>6. CASE ReadPort
  <2>1. Line' = Line
    BY <1>6, ReadFacts
  <2> QED BY <1>6, <2>1 DEF ReadPort, Waiting, Calls, host, mcu, env, HostFacts, Reads
<1>7. CASE Timeout
  <2>1. Line' = Line /\ pc \in Calls \cup {"identify"}
    BY <1>7 DEF Timeout, Line, Waiting, Calls
  <2> QED BY <1>7, <2>1 DEF Timeout, mcu, env, HostFacts, Expires
<1>8. CASE TakePacket
  <2> DEFINE p == Line[1]
  <2>1. ASSUME NEW call, Packet(call) PROVE p = Head(data) /\ Len(Line) > 0 /\ LineDrop(0) /\ Still /\ pc = call
    BY <2>1, HeadFacts
  <2>2. IdentifyPacket(p) \/ RequestPacket(p) \/ SendPacket(p) \/ ReportPacket(p) \/ BurstPacket(p)
    <3>1. data # <<>>
      BY <1>8 DEF TakePacket
    <3>2. \E call : Packet(call)
      BY <1>8 DEF TakePacket, IdentifyPacket, RequestPacket, SendPacket,
         ReportPacket, BurstPacket
    <3>3. p = Head(data)
      BY <3>2, <2>1
    <3> QED BY <1>8, <3>3 DEF TakePacket
  <2>3. p.id \in Nat /\ Len(Line) > 0
    <3>1. \E call : Packet(call)
      BY <1>8 DEF TakePacket, IdentifyPacket, RequestPacket, SendPacket,
         ReportPacket, BurstPacket
    <3> QED BY <3>1, <2>1, LineType
  <2> HIDE DEF p
  <2>4. CASE IdentifyPacket(p)
    <3>1. /\ p = Head(data) /\ Len(Line) > 0 /\ LineDrop(0) /\ Still
          /\ pc = "identify"
      BY <2>4, <2>1 DEF IdentifyPacket
    <3>2. CASE p.name # "identify_response"
      <4>1. Skips
        BY <2>4, <3>1, <3>2 DEF IdentifyPacket, Skip, host, Skips, Takes, p
      <4> QED BY <3>1, <4>1 DEF HostFacts
    <3>3. CASE p.name = "identify_response" /\ p.id # Len(output)
      <4>1. Fails
        BY <2>4, <3>1, <3>3 DEF IdentifyPacket, Fails, Takes, p
      <4> QED BY <3>1, <4>1 DEF HostFacts
    <3>4. CASE p.name = "identify_response" /\ p.id = Len(output) /\ p.id = Chunks
      <4>1. LastChunk
        BY <2>4, <3>1, <3>4 DEF IdentifyPacket, LastChunk, Takes, p
      <4> QED BY <3>1, <4>1 DEF HostFacts
    <3>5. CASE p.name = "identify_response" /\ p.id = Len(output) /\ p.id # Chunks
      <4>1. Frame(sequence', "identify", p.id + 1) \in Frames
        <5>1. sequence' \in Nat
          BY DEF TypeOK
        <5>2. p.id + 1 \in Nat
          BY <2>3
        <5>3. "identify" \in Commands
          BY DEF Commands
        <5> QED BY <5>1, <5>2, <5>3, FrameType
      <4>2. down' = Append(down, Frame(sequence', "identify", p.id + 1))
        BY <2>4, <3>5 DEF IdentifyPacket
      <4>3. /\ DownGrow(1)
            /\ down'[Len(down) + 1] = Frame(sequence', "identify", p.id + 1)
        BY <4>1, <4>2, DownAppend
      <4>4. Chunk
        BY <2>4, <3>1, <3>5, <4>3 DEF IdentifyPacket, Chunk, Takes, p
      <4> QED BY <3>1, <4>4 DEF HostFacts
    <3> QED BY <3>2, <3>3, <3>4, <3>5
  <2>5. CASE RequestPacket(p)
    <3>1. /\ p = Head(data) /\ Len(Line) > 0 /\ LineDrop(0) /\ Still
          /\ pc = "request"
      BY <2>5, <2>1 DEF RequestPacket
    <3>2. CASE p.name = want
      <4>1. Returns
        BY <2>5, <3>1, <3>2 DEF RequestPacket, Returns, Gives, Takes, p
      <4> QED BY <3>1, <4>1 DEF HostFacts
    <3>3. CASE p.name # want
      <4>1. Skips
        BY <2>5, <3>1, <3>3 DEF RequestPacket, Skip, host, Skips, Takes, p
      <4> QED BY <3>1, <4>1 DEF HostFacts
    <3> QED BY <3>2, <3>3
  <2>6. CASE SendPacket(p)
    <3>1. p = Head(data) /\ Len(Line) > 0 /\ LineDrop(0) /\ Still /\ pc = "send"
      BY <2>6, <2>1 DEF SendPacket
    <3>2. Acked \/ Fails \/ Skips
      BY <2>6, <3>1 DEF SendPacket, Acked, Fails, Skips, Takes, p
    <3> QED BY <3>1, <3>2 DEF HostFacts
  <2>7. CASE ReportPacket(p)
    <3>1. p = Head(data) /\ Len(Line) > 0 /\ LineDrop(0) /\ Still /\ pc = "report"
      BY <2>7, <2>1 DEF ReportPacket
    <3>2. Returns \/ Halts \/ Skips
      BY <2>7, <3>1 DEF ReportPacket, Returns, Gives, Halts, Words, Skips, Takes, p
    <3> QED BY <3>1, <3>2 DEF HostFacts
  <2>8. CASE BurstPacket(p)
    <3>1. p = Head(data) /\ Len(Line) > 0 /\ LineDrop(0) /\ Still /\ pc = "burst"
      BY <2>8, <2>1 DEF BurstPacket
    <3>2. CASE p.name # "clock"
      <4>1. Skips
        BY <2>8, <3>1, <3>2 DEF BurstPacket, Skip, host, Skips, Takes, p
      <4> QED BY <3>1, <4>1 DEF HostFacts
    <3>3. CASE p.name = "clock" /\ missing' = 0
      <4>1. missing = 1
        BY <2>8, <3>3 DEF BurstPacket, TypeOK
      <4>2. Returns
        BY <2>8, <3>1, <3>3, <4>1 DEF BurstPacket, Returns, Gives, Takes, p
      <4> QED BY <3>1, <4>2 DEF HostFacts
    <3>4. CASE p.name = "clock" /\ missing' # 0
      <4>1. Counts
        BY <2>8, <3>1, <3>4 DEF BurstPacket, Counts, Takes, p
      <4> QED BY <3>1, <4>1 DEF HostFacts
    <3> QED BY <3>2, <3>3, <3>4
  <2> QED BY <2>2, <2>4, <2>5, <2>6, <2>7, <2>8
<1> QED BY <1>1, <1>2, <1>3, <1>4, <1>5, <1>6, <1>7, <1>8 DEF HostStep, Start

\* Every step of the MCU or of the line is one of McuFacts.
LEMMA McuStepFacts ==
  ASSUME TypeOK, TypeOK', McuStep
  PROVE  McuFacts
<1>0. /\ UNCHANGED <<pc, want, missing, sequence, output, data, calls, run, got, link>>
  BY DEF McuStep, McuReceive, McuReport, McuStats, McuShutdown, McuRestart, Lose,
     host, env
<1>t. ASSUME down # <<>>, down' = Tail(down)
      PROVE  Len(down) > 0 /\ Head(down) = down[1] /\ DownShift(1)
  <2>1. down \in Seq(Frames)
    BY DEF TypeOK
  <2>2. Len(down) > 0 /\ Head(down) = down[1] /\ Len(down') = Len(down) - 1
    BY <2>1, <1>t
  <2>3. \A i \in 1 .. Len(down') : down'[i] = down[i + 1]
    BY <2>1, <1>t, HeadTailProperties
  <2> QED BY <2>2, <2>3 DEF DownShift
<1>a. Ack \in Packets /\ Ack.name = "ack"
  BY MsgType DEF Ack, Msg, Names
<1>1. CASE McuReceive
  <2> DEFINE f == down[1]
  <2>1. Len(down) > 0 /\ Head(down) = f /\ DownShift(1)
    BY <1>1, <1>t DEF McuReceive
  <2>2. f \in Frames /\ f.cmd \in Commands /\ f.id \in Nat
    <3>1. down \in Seq(Frames) /\ 1 \in 1 .. Len(down)
      BY <2>1, LineType DEF TypeOK
    <3>2. f \in Frames
      BY <3>1, ElementOfSeq
    <3> QED BY <3>2 DEF Frames
  <2> HIDE DEF f
  <2>3. CASE f.seq = expected
    <3>1. /\ up' = (up \o Reply(f)) \o <<Ack>> /\ expected' = Next1(expected)
          /\ taken' = taken \cup {i \in {f.id} : f.cmd # "identify"}
          /\ ran' = ran \cup {i \in {f.id} : f.cmd # "identify" /\ (halted => f.cmd \in InShutdown)}
          /\ armed' = armed \cup {i \in {f.id} :
               (f.cmd # "identify" /\ (halted => f.cmd \in InShutdown)) /\ f.cmd = "query"}
          /\ UNCHANGED <<halted, restarts>>
      BY <1>1, <2>1, <2>3 DEF McuReceive, env
    <3>2. /\ Reply(f) \in Seq(Packets) /\ <<Ack>> \in Seq(Packets)
          /\ up \in Seq(Packets)
      BY <2>2, <1>a, ReplyType DEF TypeOK
    <3>3. up' = up \o (Reply(f) \o <<Ack>>)
      BY <3>1, <3>2, ConcatAssociative
    <3> DEFINE s == Reply(f) \o <<Ack>>
    <3>4. s \in Seq(Packets) /\ up' = up \o s
      BY <3>2, <3>3, ConcatProperties
    <3>5. \/ /\ f.cmd \in Requests \cup {"identify"} /\ Len(s) = 2 /\ s[2] = Ack
             /\ s[1].name = IF f.cmd = "identify" THEN "identify_response" ELSE f.cmd
             /\ s[1].id = f.id
             /\ f.cmd = "config" => s[1].shut = halted
          \/ f.cmd \in {"set", "query", "neopixel"} /\ halted /\ Len(s) = 2 /\ s[2] = Ack
             /\ s[1].name = "is_shutdown"
          \/ f.cmd \in {"set", "query"} /\ ~halted /\ Len(s) = 1 /\ s[1] = Ack
      <4>1. CASE f.cmd = "identify"
        BY <4>1 DEF Reply, Msg, Requests
      <4>2. CASE f.cmd = "clock"
        BY <4>2 DEF Reply, Msg, Requests
      <4>3. CASE f.cmd = "config"
        BY <4>3 DEF Reply, Msg, Requests
      <4>4. CASE f.cmd \in {"set", "query", "neopixel"} /\ halted
        <5>1. Reply(f) = <<Msg("is_shutdown", 0)>>
          BY <4>4 DEF Reply
        <5>2. Len(Reply(f)) = 1 /\ Reply(f)[1] = Msg("is_shutdown", 0)
              /\ Len(<<Ack>>) = 1 /\ <<Ack>>[1] = Ack
          BY <5>1
        <5>3. Len(s) = 2 /\ s[2] = Ack /\ s[1] = Msg("is_shutdown", 0)
          BY <5>2, <3>2, ConcatProperties
        <5>4. Msg("is_shutdown", 0).name = "is_shutdown"
          BY DEF Msg
        <5> QED BY <4>4, <5>3, <5>4
      <4>5. CASE f.cmd \in {"set", "query"} /\ ~halted
        BY <4>5 DEF Reply, Msg, Requests
      <4>6. CASE f.cmd = "neopixel" /\ ~halted
        BY <4>6 DEF Reply, Msg, Requests
      <4> QED BY <2>2, <4>1, <4>2, <4>3, <4>4, <4>5, <4>6 DEF Commands
    <3> HIDE DEF s
    <3>6. LineGrow(Len(s)) /\ \A i \in 1 .. Len(s) : Line'[Len(Line) + i] = s[i]
      BY <3>4, <1>0, GrowFacts
    <3>7. \/ /\ f.cmd \in Requests \cup {"identify"} /\ LineGrow(2)
             /\ Line'[Len(Line) + 1].name = IF f.cmd = "identify" THEN "identify_response"
                                            ELSE f.cmd
             /\ Line'[Len(Line) + 1].id = f.id
             /\ f.cmd = "config" => Line'[Len(Line) + 1].shut = halted
             /\ Line'[Len(Line) + 2].name = "ack"
          \/ /\ f.cmd \in {"set", "query", "neopixel"} /\ halted /\ LineGrow(2)
             /\ Line'[Len(Line) + 1].name = "is_shutdown"
             /\ Line'[Len(Line) + 2].name = "ack"
          \/ /\ f.cmd \in {"set", "query"} /\ ~halted /\ LineGrow(1)
             /\ Line'[Len(Line) + 1].name = "ack"
      BY <3>5, <3>6, <1>a
    <3>8. /\ ran \subseteq ran' /\ ran' \subseteq ran \cup {f.id}
          /\ f.cmd = "identify" \/ (f.cmd = "neopixel" /\ halted) => ran' = ran
          /\ f.cmd # "identify" /\ ~halted => f.id \in ran'
      BY <3>1 DEF InShutdown
    <3>9. Accepts
      BY <2>1, <2>2, <2>3, <3>1, <3>7, <3>8 DEF Accepts, f, InShutdown
    <3> QED BY <1>0, <3>9 DEF McuFacts
  <2>4. CASE f.seq # expected
    <3>1. /\ up' = Append(up, Ack)
          /\ UNCHANGED <<expected, taken, ran, armed, halted, restarts>>
      BY <1>1, <2>1, <2>4 DEF McuReceive, env
    <3>2. LineGrow(1) /\ Line'[Len(Line) + 1] = Ack
      BY <3>1, <1>0, <1>a, AppendFacts
    <3>3. Refuses
      BY <2>1, <2>4, <3>1, <3>2, <1>a DEF Refuses, f
    <3> QED BY <1>0, <3>3 DEF McuFacts
  <2> QED BY <2>3, <2>4
<1>2. CASE McuReport
  <2> PICK q \in armed : up' = Append(up, Msg("report", q)) /\ armed' = armed \ {q}
    BY <1>2 DEF McuReport
  <2>1. /\ Msg("report", q) \in Packets /\ Msg("report", q).name = "report"
        /\ Msg("report", q).id = q
    BY MsgType DEF TypeOK, Names, Msg
  <2>2. LineGrow(1) /\ Line'[Len(Line) + 1] = Msg("report", q)
    BY <2>1, <1>0, AppendFacts
  <2>3. Reports
    BY <1>2, <2>1, <2>2 DEF McuReport, Reports, env
  <2> QED BY <1>0, <2>3 DEF McuFacts
<1>3. CASE McuStats
  <2>1. Msg("stats", 0) \in Packets /\ Msg("stats", 0).name = "stats"
    BY MsgType DEF Names, Msg
  <2>2. LineGrow(1) /\ Line'[Len(Line) + 1] = Msg("stats", 0)
    BY <1>3, <2>1, <1>0, AppendFacts DEF McuStats
  <2>3. Notes
    BY <1>3, <2>1, <2>2 DEF McuStats, Notes, mcu
  <2> QED BY <1>0, <2>3 DEF McuFacts
<1>4. CASE McuShutdown
  <2>1. Msg("shutdown", 0) \in Packets /\ Msg("shutdown", 0).name = "shutdown"
    BY MsgType DEF Names, Msg
  <2>2. LineGrow(1) /\ Line'[Len(Line) + 1] = Msg("shutdown", 0)
    BY <1>4, <2>1, <1>0, AppendFacts DEF McuShutdown
  <2>3. ShutsDown
    BY <1>4, <2>1, <2>2 DEF McuShutdown, ShutsDown, env
  <2> QED BY <1>0, <2>3 DEF McuFacts
<1>5. CASE McuRestart
  <2>1. PICK n \in 0 .. Len(down) : down' = SubSeq(down, n + 1, Len(down))
    BY <1>5 DEF McuRestart
  <2>2. PICK k \in 0 .. Len(up) : up' = Append(SubSeq(up, 1, k), Msg("starting", 0))
    BY <1>5 DEF McuRestart
  <2>3. DownShift(n)
    <3>1. down \in Seq(Frames) /\ Len(down) \in Nat
      BY DEF TypeOK
    <3>2. \A i \in n + 1 .. Len(down) : down[i] \in Frames
      BY <3>1
    <3>3. /\ Len(down') = IF n + 1 <= Len(down) THEN Len(down) - (n + 1) + 1 ELSE 0
          /\ \A i \in 1 .. Len(down) - (n + 1) + 1 : down'[i] = down[(n + 1) + i - 1]
      BY <2>1, <3>1, <3>2, SubSeqProperties
    <3>4. Len(down') = Len(down) - n
      BY <3>1, <3>3
    <3>5. ASSUME NEW i \in 1 .. Len(down') PROVE down'[i] = down[i + n]
      <4>1. (n + 1) + i - 1 = i + n
        BY <3>1, <3>4
      <4> QED BY <3>1, <3>3, <3>4, <4>1
    <3> QED BY <3>4, <3>5 DEF DownShift
  <2>4. LineCut(Len(data) + k) /\ Len(data) + k \in 0 .. Len(Line)
    <3>1. data' = data
      BY <1>0
    <3>2. LineCut(Len(data) + k)
      BY <2>2, <3>1, CutFacts
    <3> QED BY <3>2, LineType
  <2>5. Restarts
    BY <1>5, <2>3, <2>4 DEF McuRestart, Restarts
  <2> QED BY <1>0, <2>5 DEF McuFacts
<1>6. CASE Lose
  <2>1. ~Clean /\ UNCHANGED <<expected, halted, armed, taken, ran, restarts>>
    BY <1>6 DEF Lose, mcu, env
  <2>2. CASE up # <<>> /\ up' = Tail(up) /\ UNCHANGED down
    <3>1. LosesReply
      BY <2>1, <2>2, <1>0, LoseFacts DEF LosesReply
    <3> QED BY <1>0, <3>1 DEF McuFacts
  <2>3. CASE down # <<>> /\ down' = Tail(down) /\ up' \in {up, Append(up, Ack)}
    <3>1. Len(down) > 0 /\ DownShift(1)
      BY <2>3, <1>t
    <3>2. Line' = Line \/ (LineGrow(1) /\ Line'[Len(Line) + 1].name = "ack")
      <4>1. CASE up' = up
        BY <4>1, <1>0 DEF Line
      <4>2. CASE up' = Append(up, Ack)
        BY <4>2, <1>0, <1>a, AppendFacts
      <4> QED BY <2>3, <4>1, <4>2
    <3>3. LosesCommand
      BY <2>1, <3>1, <3>2 DEF LosesCommand
    <3> QED BY <1>0, <3>3 DEF McuFacts
  <2> QED BY <1>6, <2>2, <2>3 DEF Lose
<1> QED BY <1>1, <1>2, <1>3, <1>4, <1>5, <1>6 DEF McuStep

\* So every step is one or the other.
LEMMA StepFacts ==
  ASSUME TypeOK, TypeOK', Next
  PROVE  HostFacts \/ McuFacts
BY HostStepFacts, McuStepFacts DEF Next, HostStep, McuStep

-----------------------------------------------------------------------------
\* The lengths are natural numbers,
LEMMA Lengths ==
  TypeOK => /\ Len(Line) \in Nat /\ Len(down) \in Nat /\ Len(output) \in Nat
            /\ Len(data) \in Nat /\ Len(up) \in Nat /\ Len(Line) = Len(data) + Len(up)
BY LineType

\* after a step as before it.
LEMMA NextLengths ==
  TypeOK' => (/\ Len(Line) \in Nat /\ Len(down) \in Nat /\ Len(output) \in Nat
              /\ Len(data) \in Nat /\ Len(up) \in Nat
              /\ Len(Line) = Len(data) + Len(up))'
BY Lengths, PTL

\* A step of the tools does not change how far the MCU has got.
LEMMA HostSeen ==
  ASSUME TypeOK, TypeOK', HostInv, HostFacts
  PROVE  Seen' = Seen /\ pc' # "open"
<1>1. Len(output) \in Nat /\ Len(down) \in Nat /\ calls \in Nat
  BY LineType DEF TypeOK
<1>2. CASE Identifies
  <2>1. Len(output) = 0 /\ calls = 0 /\ Len(down) = 0
    BY <1>2 DEF HostInv, Identifies
  <2> QED BY <1>2, <2>1 DEF Identifies, DownGrow, Seen, Sent
<1>3. CASE Sends
  BY <1>1, <1>3 DEF Sends, DownGrow, Seen, Sent
<1>4. CASE Bursts
  BY <1>1, <1>4, Constants DEF Bursts, DownGrow, Seen, Sent
<1>5. CASE Chunk
  <2>1. Len(output') = Len(output) + 1
    BY <1>5, AppendProperties, LineType DEF Chunk, TypeOK
  <2> QED BY <1>1, <1>5, <2>1 DEF Chunk, Takes, DownGrow, Seen, Sent
<1>6. CASE LastChunk
  BY <1>6 DEF LastChunk, Takes, Seen, Sent
<1>7. CASE Skips
  BY <1>7 DEF Skips, Takes, Seen, Sent
<1>8. CASE Returns
  BY <1>8 DEF Returns, Gives, Takes, Seen, Sent
<1>9. CASE Counts \/ Acked \/ Halts
  BY <1>9 DEF Counts, Acked, Halts, Takes, Seen, Sent
<1>10. CASE Fails \/ Expires
  BY <1>10 DEF Fails, Expires, Takes, Seen, Sent, Calls
<1>11. CASE Reads
  BY <1>11 DEF Reads, Seen, Sent
<1> QED BY <1>2, <1>3, <1>4, <1>5, <1>6, <1>7, <1>8, <1>9, <1>10, <1>11 DEF HostFacts

\* Sent and Seen are integers, and the commands on their way lie between.
LEMMA SeenType ==
  ASSUME TypeOK
  PROVE  Sent \in Int /\ Seen \in Int /\ Len(down) \in Nat /\ Seen = Sent - Len(down)
         /\ Seen + Len(down) = Sent
BY LineType DEF Sent, Seen, TypeOK

\* Nor does a step of the MCU change what the tools sent.
LEMMA McuSent ==
  ASSUME McuFacts
  PROVE  Sent' = Sent /\ (Past <=> Past') /\ (Clean' <=> Clean)
BY DEF McuFacts, Sent, Past, Clean

\* A step of the MCU or of the line only reads on.
LEMMA McuSeen ==
  ASSUME TypeOK, TypeOK', McuFacts
  PROVE  \E n \in Nat : Seen' = Seen + n
<1>1. Len(down) \in Nat /\ Len(down') \in Nat
  BY Lengths, NextLengths
<1>2. Len(down') <= Len(down)
  <2>1. CASE \E n \in 0 .. Len(down) : DownShift(n)
    BY <1>1, <2>1 DEF DownShift
  <2>2. CASE UNCHANGED down
    BY <1>1, <2>2
  <2> QED BY <1>1, <2>1, <2>2 DEF McuFacts, Accepts, Refuses, Reports, Notes,
             ShutsDown, Restarts,
        LosesReply, LosesCommand, DownShift
<1>3. Len(down) - Len(down') \in Nat
  BY <1>1, <1>2
<1>4. Seen' = Seen + (Len(down) - Len(down'))
  BY <1>1, McuSent, SeenType DEF Seen
<1> QED BY <1>3, <1>4

\* Every step keeps ChunksInv: a chunk is appended at its own offset only.
LEMMA ChunksStep ==
  ASSUME TypeOK, TypeOK', ChunksInv, HostInv, HostFacts \/ McuFacts
  PROVE  ChunksInv'
<1>1. CASE McuFacts
  BY <1>1, McuSent DEF ChunksInv, McuFacts
<1>2. CASE HostFacts
  <2>1. CASE Chunk
    <3>0. output \in Seq(Nat) /\ Line[1].id \in Nat /\ Line[1].id = Len(output)
      BY <2>1, LineType DEF TypeOK, Chunk, Takes
    <3>1. /\ Len(output') = Len(output) + 1
          /\ \A i \in 1 .. Len(output) : output'[i] = output[i]
          /\ output'[Len(output) + 1] = Line[1].id
      BY <2>1, <3>0, AppendProperties DEF Chunk
    <3>2. ~Past' /\ Len(output) < Chunks
      BY <2>1, <3>0, Constants DEF Chunk, Takes, Past, HostInv, ChunksInv
    <3>3. Len(output) \in Nat /\ \A i \in 1 .. Len(output) : output[i] = i - 1
      BY <3>0 DEF ChunksInv
    <3>4. ASSUME NEW i \in 1 .. Len(output')
          PROVE  output'[i] = i - 1
      <4>1. i \in 1 .. Len(output) \/ i = Len(output) + 1
        BY <3>1, <3>3
      <4>2. CASE i = Len(output) + 1
        BY <3>0, <3>1, <3>3, <4>2
      <4> QED BY <3>1, <3>3, <4>1, <4>2
    <3>5. Len(output') <= Chunks
      BY <3>1, <3>2, <3>3, Constants
    <3> QED BY <3>2, <3>4, <3>5 DEF ChunksInv
  <2>2. CASE LastChunk
    BY <2>2 DEF LastChunk, ChunksInv
  <2>3. output' = output /\ (Past' => Past) => ChunksInv'
    BY DEF ChunksInv
  <2>4. CASE Identifies
    BY <2>4, <2>3 DEF Identifies, Past
  <2>5. CASE Sends \/ Bursts
    BY <2>5, <2>3 DEF Sends, Bursts, Past
  <2>6. CASE Skips \/ Counts \/ Acked \/ Halts
    BY <2>6, <2>3 DEF Skips, Counts, Acked, Halts, Takes, Past, HostInv, Calls
  <2>7. CASE Returns
    BY <2>7, <2>3 DEF Returns, Gives, Takes, Past, HostInv, Calls
  <2>8. CASE Fails \/ Expires \/ Reads
    BY <2>8, <2>3 DEF Fails, Expires, Reads, Takes, Past, HostInv, Calls
  <2> QED BY <1>2, <2>1, <2>2, <2>4, <2>5, <2>6, <2>7, <2>8 DEF HostFacts
<1> QED BY <1>1, <1>2

\* Every step keeps HostInv: each call moves sequence as it moves calls.
LEMMA HostInvStep ==
  ASSUME TypeOK, TypeOK', ChunksInv, HostInv, HostFacts \/ McuFacts
  PROVE  HostInv'
<1>0. calls \in Nat /\ run \in Nat /\ got.call \in Nat /\ Len(output) \in Nat
      /\ missing \in Int
  BY LineType DEF TypeOK
<1>1. CASE McuFacts
  <2>1. pc = "open" => Len(down') = 0 /\ data' = <<>>
    <3>1. pc = "open" => Len(down) = 0
      BY DEF HostInv
    <3>2. Len(down') \in Nat /\ Len(down') <= Len(down)
      <4>1. Len(down') \in Nat /\ Len(down) \in Nat
        BY Lengths, NextLengths
      <4> QED BY <1>1, <4>1, McuSeen, McuSent, SeenType DEF Seen
    <3> QED BY <1>1, <3>1, <3>2, SeenType DEF HostInv, McuFacts
  <2>2. pc = "open" => down' = <<>>
    BY <2>1 DEF TypeOK
  <2> QED BY <1>1, <2>1, <2>2 DEF HostInv, McuFacts
<1>2. CASE HostFacts
  <2>1. CASE Identifies
    BY <2>1 DEF Identifies, HostInv, Calls
  <2>2. CASE Sends
    <3>1. Next1(Number(calls + 1)) = Number(calls + 2)
      BY <1>0, NumberNext
    <3>2. /\ calls' = calls + 1 /\ calls' + 1 = calls + 2 /\ run' = run + 1
          /\ run' <= MaxRun
      BY <1>0, <2>2, Constants DEF Sends
    <3>3. sequence = Number(calls')
      BY <2>2, <3>2 DEF Sends, HostInv
    <3>4. Next1(sequence) = Number(calls' + 1)
      BY <2>2, <3>1, <3>2 DEF Sends, HostInv
    <3>5. \/ pc' \in {"request", "send"} /\ sequence' = Number(calls')
          \/ pc' = "report" /\ sequence' = Number(calls' + 1)
      BY <2>2, <3>3, <3>4 DEF Sends
    <3>6. calls' = got'.call + run' /\ calls' > 0 /\ (pc' = "request" => want' \in Requests)
      <4>1. calls = got.call + run /\ got' = got
        BY <2>2 DEF Sends, HostInv
      <4>2. calls' = got.call + run' /\ calls' > 0
        <5>1. calls' = got.call + run + 1 /\ calls' = calls + 1 /\ run' = run + 1
          BY <1>0, <4>1, <3>2
        <5> QED BY <1>0, <5>1
      <4> QED BY <2>2, <4>1, <4>2 DEF Sends
    <3> QED BY <3>2, <3>5, <3>6 DEF HostInv, Calls
  <2>3. CASE Bursts
    <3>1. sequence' = Number(calls + BurstSize + 1)
      <4>1. /\ Chunks + (calls + 1) \in Nat /\ BurstSize \in Nat
            /\ SeqCount \in Nat \ {0}
        BY <1>0, Constants
      <4>2. (((Chunks + (calls + 1)) % SeqCount) + BurstSize) % SeqCount
              = (Chunks + (calls + 1) + BurstSize) % SeqCount
        BY <4>1, ModSum
      <4>3. Chunks + (calls + 1) + BurstSize = Chunks + (calls + BurstSize + 1)
        BY <1>0, Constants
      <4> QED BY <2>3, <4>2, <4>3 DEF Bursts, HostInv, Number
    <3>2. calls' + 1 = calls + BurstSize + 1 /\ calls' = got'.call + run' /\ calls' > 0
          /\ missing' \in 1 .. BurstSize /\ BurstSize <= calls'
          /\ run' <= MaxRun /\ pc' = "burst"
      <4>1. /\ calls = got.call + run /\ got' = got /\ BurstSize \in Nat
            /\ BurstSize > 0
        BY <2>3, Constants DEF Bursts, HostInv
      <4>2. /\ calls' = calls + BurstSize /\ run' = run + BurstSize
            /\ missing' = BurstSize
            /\ run' <= MaxRun /\ pc' = "burst"
        BY <2>3 DEF Bursts
      <4> QED BY <1>0, <4>1, <4>2
    <3> QED BY <3>1, <3>2 DEF HostInv, Calls
  <2>4. CASE Chunk
    <3>1. Next1(Len(output) % SeqCount) = (Len(output) + 1) % SeqCount
      BY <1>0, ModNext
    <3>2. Len(output') = Len(output) + 1
      BY <2>4, AppendProperties, LineType DEF Chunk, Takes, TypeOK
    <3> QED BY <2>4, <3>1, <3>2 DEF Chunk, Takes, HostInv, Calls
  <2>5. CASE LastChunk
    <3>1. Next1(Len(output) % SeqCount) = (Len(output) + 1) % SeqCount
      BY <1>0, ModNext
    <3>2. (Len(output) + 1) % SeqCount = Number(0 + 1) /\ calls = 0
      BY <2>5 DEF LastChunk, Number, HostInv
    <3> QED BY <2>5, <3>1, <3>2 DEF LastChunk, Takes, HostInv, Calls
  <2>6. CASE Skips
    BY <2>6 DEF Skips, Takes, HostInv, Calls
  <2>7. CASE Returns
    <3>1. Next1(Number(calls)) = Number(calls + 1)
      BY <1>0, NumberNext
    <3>2. /\ got'.call = calls /\ run' = 0 /\ pc' = "idle"
          /\ UNCHANGED <<want, calls, output>>
      BY <2>7 DEF Returns, Gives, Takes, Answer
    <3>3. sequence' = Number(calls + 1)
      BY <2>7, <3>1 DEF Returns, HostInv
    <3> QED BY <1>0, <3>2, <3>3, Constants DEF HostInv, Calls
  <2>8. CASE Counts
    BY <1>0, <2>8, Constants DEF Counts, Takes, HostInv, Calls
  <2>9. CASE Acked
    <3>1. Next1(Number(calls)) = Number(calls + 1)
      BY <1>0, NumberNext
    <3> QED BY <2>9, <3>1 DEF Acked, Takes, HostInv, Calls
  <2>10. CASE Halts
    BY <2>10 DEF Halts, Takes, HostInv, Calls
  <2>11. CASE Fails
    BY <2>11 DEF Fails, Takes, HostInv, Calls
  <2>12. CASE Expires
    BY <2>12 DEF Expires, HostInv, Calls
  <2>13. CASE Reads
    BY <2>13 DEF Reads, HostInv, Calls
  <2> QED BY <1>2, <2>1, <2>2, <2>3, <2>4, <2>5, <2>6, <2>7, <2>8, <2>9, <2>10,
             <2>11, <2>12, <2>13
       DEF HostFacts
<1> QED BY <1>1, <1>2

\* Every step keeps DownInv: commands are sent in order and read in order.
LEMMA DownStep ==
  ASSUME TypeOK, TypeOK', ChunksInv, HostInv, DownInv, ResponseInv,
         HostFacts \/ McuFacts
  PROVE  DownInv'
<1>0. /\ calls \in Nat /\ Len(output) \in Nat /\ Len(down) \in Nat
      /\ Len(down') \in Nat
      /\ Sent \in Int /\ Seen \in Int /\ Seen = Sent - Len(down) /\ Chunks \in Nat
  BY Lengths, NextLengths, SeenType, Constants DEF TypeOK
<1>1. CASE McuFacts
  <2>1. CASE \E n \in 0 .. Len(down) : DownShift(n)
    <3> PICK n \in 0 .. Len(down) : DownShift(n)
      BY <2>1
    <3>1. Len(down') = Len(down) - n /\ Seen' = Seen + n
      BY <1>0, <1>1, McuSent, SeenType DEF DownShift, Seen
    <3>2. ASSUME NEW i \in 1 .. Len(down')
          PROVE  /\ Pos(down'[i]) = Seen' + i /\ down'[i].seq = (Seen' + i) % SeqCount
                 /\ down'[i].cmd # "identify" <=> Seen' + i > Chunks
      <4>1. /\ i + n \in 1 .. Len(down) /\ down'[i] = down[i + n]
            /\ Seen + (i + n) = Seen' + i
        BY <1>0, <3>1 DEF DownShift
      <4> QED BY <4>1 DEF DownInv
    <3>3. Len(down') <= Sent' + 1 /\ (Past' => Len(down') <= calls')
      BY <1>0, <1>1, <3>1, McuSent DEF DownInv, McuFacts
    <3> QED BY <3>2, <3>3 DEF DownInv, Pos
  <2>2. CASE UNCHANGED down
    BY <1>1, <2>2, McuSent DEF DownInv, Seen, McuFacts, Pos
  <2>3. 1 \in 0 .. Len(down) \/ Len(down) = 0
    BY <1>0
  <2> QED BY <1>0, <1>1, <2>1, <2>2, <2>3 DEF McuFacts, Accepts, Refuses, Reports,
             Notes, ShutsDown,
        Restarts, LosesReply, LosesCommand
<1>2. CASE HostFacts
  <2>0. Seen' = Seen
    BY <1>2, HostSeen
  <2>1. CASE \E n \in Nat :
          /\ DownGrow(n) /\ n > 0 /\ Sent' = Sent + n /\ (Past' => Past /\ calls' = calls + n)
          /\ \A i \in 1 .. n :
               LET f == down'[Len(down) + i] IN
               /\ Pos(f) = Sent + i /\ f.seq = (Sent + i) % SeqCount
               /\ f.cmd # "identify" <=> Sent + i > Chunks
    <3> PICK n \in Nat :
          /\ DownGrow(n) /\ n > 0 /\ Sent' = Sent + n /\ (Past' => Past /\ calls' = calls + n)
          /\ \A i \in 1 .. n :
               LET f == down'[Len(down) + i] IN
               /\ Pos(f) = Sent + i /\ f.seq = (Sent + i) % SeqCount
               /\ f.cmd # "identify" <=> Sent + i > Chunks
      BY <2>1
    <3>1. ASSUME NEW i \in 1 .. Len(down')
          PROVE  /\ Pos(down'[i]) = Seen + i /\ down'[i].seq = (Seen + i) % SeqCount
                 /\ down'[i].cmd # "identify" <=> Seen + i > Chunks
      <4>1. CASE i <= Len(down)
        <5>1. i \in 1 .. Len(down) /\ down'[i] = down[i]
          BY <1>0, <4>1 DEF DownGrow
        <5> QED BY <5>1 DEF DownInv
      <4>2. CASE ~ i <= Len(down)
        <5> DEFINE j == i - Len(down)
        <5>1. j \in 1 .. n /\ i = Len(down) + j /\ Sent + j = Seen + i
          BY <1>0, <4>2 DEF DownGrow
        <5> HIDE DEF j
        <5> QED BY <5>1
      <4> QED BY <4>1, <4>2
    <3>2. Len(down') <= Sent' + 1 /\ (Past' => Len(down') <= calls')
      BY <1>0 DEF DownInv, DownGrow
    <3> QED BY <2>0, <3>1, <3>2 DEF DownInv, Pos
  <2>2. CASE Identifies
    <3> DEFINE f == down'[Len(down) + 1]
    <3>1. Sent = -1 /\ Sent' = 0 /\ DownGrow(1) /\ ~Past' /\ Len(down) = 0
      BY <2>2 DEF Identifies, HostInv, Sent, Past
    <3>2. Pos(f) = 0 /\ f.seq = 0 /\ f.cmd = "identify"
      BY <2>2 DEF Identifies, Frame, Pos
    <3> HIDE DEF f
    <3>3. \A i \in 1 .. 1 : /\ Pos(down'[Len(down) + i]) = Sent + i
                             /\ down'[Len(down) + i].seq = (Sent + i) % SeqCount
               /\ (down'[Len(down) + i].cmd # "identify" <=> Sent + i > Chunks)
      BY <3>1, <3>2, ZeroMod, Constants DEF f
    <3> QED BY <2>1, <3>1, <3>3
  <2>3. CASE Sends
    <3> DEFINE f == down'[Len(down) + 1]
    <3>1. /\ Sent = Chunks + calls /\ Sent' = Sent + 1 /\ DownGrow(1) /\ Past
          /\ calls' = calls + 1
      BY <2>3, <1>0 DEF Sends, ChunksInv, Past, Sent
    <3>2. f.id = calls + 1 /\ f.seq = Number(calls + 1) /\ f.cmd # "identify"
      BY <2>3 DEF Sends, HostInv, Requests
    <3> HIDE DEF f
    <3>3. Pos(f) = Sent + 1 /\ f.seq = (Sent + 1) % SeqCount /\ Sent + 1 > Chunks
      <4>1. Chunks + (calls + 1) = Sent + 1
        BY <1>0, <3>1
      <4> QED BY <1>0, <3>1, <3>2, <4>1 DEF Pos, Number
    <3>4. \A i \in 1 .. 1 : /\ Pos(down'[Len(down) + i]) = Sent + i
                             /\ down'[Len(down) + i].seq = (Sent + i) % SeqCount
               /\ (down'[Len(down) + i].cmd # "identify" <=> Sent + i > Chunks)
      BY <3>2, <3>3 DEF f
    <3> QED BY <2>1, <3>1, <3>4
  <2>4. CASE Bursts
    <3>1. Sent = Chunks + calls /\ Sent' = Sent + BurstSize /\ DownGrow(BurstSize) /\ Past
          /\ calls' = calls + BurstSize /\ BurstSize \in Nat /\ BurstSize > 0
      <4>1. BurstSize \in Nat /\ BurstSize > 0
        BY Constants
      <4>2. pc = "idle" /\ pc' = "burst" /\ calls' = calls + BurstSize /\ output' = output
            /\ DownGrow(BurstSize)
        BY <2>4 DEF Bursts
      <4>3. Past /\ Len(output) = Chunks
        BY <4>2 DEF Past, ChunksInv
      <4> QED BY <1>0, <4>1, <4>2, <4>3 DEF Sent
    <3>2. ASSUME NEW i \in 1 .. BurstSize
          PROVE  /\ Pos(down'[Len(down) + i]) = Sent + i
                 /\ down'[Len(down) + i].seq = (Sent + i) % SeqCount
                 /\ (down'[Len(down) + i].cmd # "identify" <=> Sent + i > Chunks)
      <4> DEFINE f == down'[Len(down) + i]
      <4>1. /\ f.id = calls + i
            /\ f.seq = (Number(calls + 1) + i - 1) % SeqCount /\ f.cmd = "clock"
        BY <2>4 DEF Bursts, HostInv
      <4>2. /\ i - 1 \in Nat /\ Chunks + (calls + 1) \in Nat
            /\ SeqCount \in Nat \ {0} /\ i \in Nat
        BY <1>0, <3>1, Constants
      <4>3. (((Chunks + (calls + 1)) % SeqCount) + (i - 1)) % SeqCount
              = (Chunks + (calls + 1) + (i - 1)) % SeqCount
        BY <4>2, ModSum
      <4>4. /\ Number(calls + 1) + i - 1 = ((Chunks + (calls + 1)) % SeqCount) + (i - 1)
        <5>1. Number(calls + 1) \in Nat
          <6>1. calls + 1 \in Nat
            BY <1>0
          <6> QED BY <6>1, NumberType
        <5> QED BY <4>2, <5>1 DEF Number
      <4>5. Chunks + (calls + 1) + (i - 1) = Sent + i
        BY <1>0, <3>1, <4>2
      <4> HIDE DEF f
      <4>6. f.seq = (Sent + i) % SeqCount
        BY <4>1, <4>3, <4>4, <4>5
      <4>7. Pos(f) = Sent + i /\ Sent + i > Chunks
        BY <1>0, <3>1, <4>1, <4>2 DEF Pos
      <4> QED BY <4>1, <4>6, <4>7 DEF f
    <3> QED BY <2>1, <3>1, <3>2
  <2>5. CASE Chunk
    <3> DEFINE f == down'[Len(down) + 1]
    <3>0. Line[1].id \in Nat /\ output \in Seq(Nat)
      BY <2>5, LineType DEF TypeOK, Chunk, Takes
    <3>1. /\ Sent = Len(output) /\ Sent' = Sent + 1 /\ DownGrow(1) /\ ~Past'
          /\ Sent < Chunks
      <4>1. Len(output') = Len(output) + 1
        BY <2>5, <3>0, AppendProperties DEF Chunk
      <4>2. /\ pc = "identify" /\ pc' = "identify" /\ calls' = calls
            /\ calls = 0 /\ DownGrow(1)
        BY <2>5 DEF Chunk, Takes, HostInv
      <4>3. Len(output) # Chunks /\ Len(output) <= Chunks
        BY <2>5 DEF Chunk, ChunksInv
      <4> QED BY <1>0, <4>1, <4>2, <4>3 DEF Sent, Past
    <3>2. /\ f.id = Sent + 1 /\ f.seq = sequence' /\ f.cmd = "identify"
          /\ sequence' = Next1(Len(output) % SeqCount)
      BY <2>5, <3>1 DEF Chunk, Frame, HostInv
    <3> HIDE DEF f
    <3>3. f.seq = (Sent + 1) % SeqCount
      BY <1>0, <3>1, <3>2, ModNext
    <3>4. \A i \in 1 .. 1 : /\ Pos(down'[Len(down) + i]) = Sent + i
                             /\ down'[Len(down) + i].seq = (Sent + i) % SeqCount
               /\ (down'[Len(down) + i].cmd # "identify" <=> Sent + i > Chunks)
      BY <1>0, <3>1, <3>2, <3>3 DEF f, Pos
    <3> QED BY <2>1, <3>1, <3>4
  <2>6. down' = down /\ Len(down) <= Sent' + 1 /\ (Past' => Len(down) <= calls') => DownInv'
    BY <2>0 DEF DownInv, Pos
  <2>7. CASE LastChunk
    <3>1. 1 \in 1 .. Len(Line) /\ Line[1].id > 0
      BY <2>7, LineType, Constants DEF LastChunk, Takes
    <3>2. down = <<>>
      BY <2>7, <3>1 DEF LastChunk, ResponseInv
    <3> QED BY <2>6, <2>7, <3>2, <1>0 DEF LastChunk, Takes, Sent, TypeOK
  <2>8. CASE Skips \/ Counts \/ Acked \/ Halts
    BY <2>6, <2>8, <1>0 DEF Skips, Counts, Acked, Halts, Takes, Past, HostInv,
       Calls, DownInv, Sent
  <2>9. CASE Returns
    BY <2>6, <2>9, <1>0 DEF Returns, Gives, Takes, Past, HostInv, Calls, DownInv, Sent
  <2>10. CASE Fails \/ Expires \/ Reads
    BY <2>6, <2>10, <1>0 DEF Fails, Expires, Reads, Takes, Past, HostInv, Calls,
       DownInv, Sent
  <2> QED BY <1>2, <2>2, <2>3, <2>4, <2>5, <2>7, <2>8, <2>9, <2>10 DEF HostFacts
<1> QED BY <1>1, <1>2

-----------------------------------------------------------------------------
\* What the MCU took and ran, and what its restarts hide, only grows.
LEMMA HistoryGrows ==
  ASSUME TypeOK, TypeOK', HostFacts \/ McuFacts
  PROVE  /\ taken \subseteq taken' /\ ran \subseteq ran'
         /\ restarts \in Nat /\ restarts' >= restarts
         /\ \A n, c \in Nat : Hid(n, c) => Hid(n, c)'
         /\ \A c \in Nat : /\ TakenThrough(c) => TakenThrough(c)'
                           /\ RanThrough(c) => RanThrough(c)'
<1>1. restarts \in Nat
  BY DEF TypeOK
<1>2. taken \subseteq taken' /\ ran \subseteq ran' /\ restarts' >= restarts
  <2>1. CASE HostFacts
    BY <1>1, <2>1 DEF HostFacts
  <2>2. CASE McuFacts
    BY <1>1, <2>2 DEF McuFacts, Accepts, Refuses, Reports, Notes, ShutsDown,
       Restarts, LosesReply,
         LosesCommand
  <2> QED BY <2>1, <2>2
<1>3. restarts > 0 => restarts' > 0
  <2>1. restarts' \in Nat
    BY DEF TypeOK
  <2> QED BY <1>1, <1>2, <2>1
<1>4. \A n, c \in Nat : Hid(n, c) => Hid(n, c)'
  BY <1>2, <1>3 DEF Hid
<1>5. \A c \in Nat : \A n \in 1 .. c : n \in Nat
  OBVIOUS
<1>6. \A c \in Nat : TakenThrough(c) => TakenThrough(c)'
  BY <1>2, <1>4, <1>5 DEF TakenThrough
<1>7. \A c \in Nat : RanThrough(c) => RanThrough(c)'
  BY <1>2, <1>4, <1>5 DEF RanThrough
<1> QED BY <1>1, <1>2, <1>4, <1>6, <1>7

\* The next frame the MCU will read.
LEMMA FirstFrame ==
  ASSUME TypeOK, ChunksInv, HostInv, DownInv, Len(down) > 0
  PROVE  /\ down[1].seq = (Seen + 1) % SeqCount /\ Pos(down[1]) = Seen + 1
         /\ Seen \in Int /\ Seen + 1 <= Sent /\ Chunks \in Nat
         /\ down[1].cmd = "identify" => down[1].id = Seen + 1 /\ down[1].id <= Chunks
         /\ down[1].cmd # "identify" =>
              /\ down[1].id = Seen + 1 - Chunks /\ down[1].id \in Nat
              /\ down[1].id > 0
              /\ down[1].seq = Number(down[1].id) /\ Past
              /\ down[1].id <= calls
         /\ Past => down[1].cmd # "identify"
<1>1. 1 \in 1 .. Len(down) /\ Seen \in Int /\ Sent \in Int /\ Seen + Len(down) = Sent
      /\ Len(down) \in Nat /\ Chunks \in Nat /\ down[1].id \in Nat
      /\ calls \in Nat /\ Len(output) \in Nat
  <2>1. /\ Seen \in Int /\ Sent \in Int /\ Seen + Len(down) = Sent
        /\ Len(down) \in Nat
    BY SeenType
  <2>2. 1 \in 1 .. Len(down)
    BY <2>1
  <2>3. down[1].id \in Nat /\ Len(output) \in Nat
    BY <2>2, LineType
  <2>4. calls \in Nat /\ Chunks \in Nat
    BY Constants DEF TypeOK
  <2> QED BY <2>1, <2>2, <2>3, <2>4
<1>2. /\ Pos(down[1]) = Seen + 1 /\ down[1].seq = (Seen + 1) % SeqCount
      /\ down[1].cmd # "identify" <=> Seen + 1 > Chunks
  BY <1>1 DEF DownInv
<1>3. ~Past => Sent <= Chunks
  BY <1>1 DEF Past, Sent, ChunksInv
<1>4. Past => Sent = Chunks + calls /\ Len(down) <= calls
  <2>1. Past => pc # "open" /\ Len(output) = Chunks
    BY <1>1 DEF Past, ChunksInv, HostInv
  <2> QED BY <1>1, <2>1 DEF Sent, DownInv
<1>5. CASE down[1].cmd = "identify"
  BY <1>1, <1>2, <1>4, <1>5 DEF Pos
<1>6. CASE down[1].cmd # "identify"
  <2>1. down[1].id = Seen + 1 - Chunks /\ Chunks + down[1].id = Seen + 1 /\ Past
    BY <1>1, <1>2, <1>3, <1>6 DEF Pos
  <2>2. down[1].seq = Number(down[1].id)
    BY <1>2, <2>1 DEF Number
  <2>3. down[1].id > 0 /\ Seen + 1 <= Sent /\ down[1].id <= calls
    <3>1. Seen + 1 > Chunks /\ Seen + 1 <= Sent
      BY <1>1, <1>2, <1>6
    <3> QED BY <1>1, <1>4, <2>1, <3>1
  <2> QED BY <1>1, <1>2, <1>6, <2>1, <2>2, <2>3
<1> QED BY <1>5, <1>6

\* A command the MCU accepts is the one after the last it accepted, or numbered
\* zero after a restart: it takes nothing over a command it never had.
LEMMA AcceptFacts ==
  ASSUME TypeOK, TypeOK', ChunksInv, HostInv, DownInv, TakenInv, TracksInv,
         McuFacts,
         Accepts, down[1].cmd # "identify", NEW n, n = down[1].id
  PROVE  /\ expected' = Number(n + 1)
         /\ TakenThrough(n)'
         /\ ~halted => RanThrough(n)'
<1>1. /\ n \in Nat /\ n > 0 /\ n = Seen + 1 - Chunks /\ down[1].seq = Number(n)
      /\ Past /\ n <= calls
      /\ Seen \in Int /\ Chunks \in Nat
  BY FirstFrame DEF Accepts
<1>2. /\ expected = Number(n) /\ expected' = Next1(expected)
      /\ taken' = taken \cup {n}
      /\ (~halted => n \in ran') /\ restarts' = restarts
  BY <1>1 DEF Accepts
<1>3. expected' = Number(n + 1)
  BY <1>1, <1>2, NumberNext
<1>4. /\ taken \subseteq taken' /\ ran \subseteq ran'
      /\ \A k, c \in Nat : Hid(k, c) => Hid(k, c)'
  BY HistoryGrows
<1>5. CASE restarts > 0 /\ expected = 0
  <2>1. ASSUME NEW k \in 1 .. n, k # n PROVE Hid(k, n)'
    <3>1. n \in (k + 1 .. n) \cap taken' /\ Number(n) = 0 /\ restarts' > 0
      BY <1>1, <1>2, <1>5, <2>1
    <3> QED BY <3>1 DEF Hid
  <2> QED BY <1>2, <1>3, <2>1 DEF TakenThrough, RanThrough
<1>6. ASSUME NEW l \in taken \cup {0}, \A m \in taken : m <= l, expected = Number(l + 1),
             ~halted => RanThrough(l)
      PROVE  TakenThrough(n)' /\ (~halted => RanThrough(n)')
  <2>1. l \in Nat /\ l < n
    <3>1. l \in taken => l \in 1 .. Seen - Chunks
      BY DEF TakenInv
    <3> QED BY <1>1, <3>1
  <2>2. calls <= l + MaxRun
    <3>1. /\ got.call <= l /\ got.call \in Nat /\ calls = got.call + run
          /\ run <= MaxRun /\ run \in Nat
      <4>1. got.call \in taken \cup {0} /\ got.call \in Nat /\ run \in Nat
        BY DEF TakenInv, TypeOK
      <4>2. got.call <= l
        BY <1>6, <2>1, <4>1
      <4> QED BY <4>1, <4>2 DEF HostInv
    <3> QED BY <2>1, <3>1, Constants
  <2>3. n = l + 1
    <3>1. Chunks + (l + 1) \in Nat /\ Chunks + n \in Nat /\ SeqCount \in Nat \ {0}
          /\ Chunks + (l + 1) <= Chunks + n
          /\ Chunks + n < Chunks + (l + 1) + SeqCount
      <4>1. n <= l + SeqCount /\ l + 1 <= n
        BY <1>1, <2>1, <2>2, Constants DEF TypeOK
      <4> QED BY <1>1, <2>1, <4>1, Constants
    <3>2. (Chunks + (l + 1)) % SeqCount = (Chunks + n) % SeqCount
      BY <1>2, <1>6 DEF Number
    <3>3. Chunks + (l + 1) = Chunks + n
      BY <3>1, <3>2, ModNear
    <3> QED BY <1>1, <2>1, <3>3
  <2>4. ASSUME NEW k \in 1 .. n PROVE k = n \/ k \in 1 .. l
    BY <2>1, <2>3
  <2>5. ASSUME NEW k \in Nat, Hid(k, l) PROVE Hid(k, n)'
    <3>1. PICK m \in (k + 1 .. l) \cap taken : restarts > 0 /\ Number(m) = 0
      BY <2>5 DEF Hid
    <3>2. m \in (k + 1 .. n) \cap taken' /\ restarts' > 0
      BY <1>1, <1>2, <2>1, <3>1
    <3> QED BY <3>1, <3>2 DEF Hid
  <2>6. TakenThrough(l)
    BY <1>6 DEF TakenInv, TakenThrough
  <2>7. TakenThrough(n)'
    <3> SUFFICES ASSUME NEW k \in 1 .. n PROVE k \in taken' \/ Hid(k, n)'
      BY DEF TakenThrough
    <3>1. k \in Nat
      BY <1>1
    <3> QED BY <1>2, <2>4, <2>5, <2>6, <3>1 DEF TakenThrough
  <2>8. ASSUME ~halted PROVE RanThrough(n)'
    <3> SUFFICES ASSUME NEW k \in 1 .. n PROVE k \in ran' \/ Hid(k, n)'
      BY DEF RanThrough
    <3>1. k \in Nat
      BY <1>1
    <3> QED BY <1>2, <1>4, <1>6, <2>4, <2>5, <2>8, <3>1 DEF RanThrough
  <2> QED BY <2>7, <2>8
<1> QED BY <1>1, <1>3, <1>5, <1>6 DEF TracksInv

\* The packet a call returns answers its command, and nothing it asked before is
\* still to come.
LEMMA ReturnFacts ==
  ASSUME TypeOK, ChunksInv, HostInv, DownInv, TakenInv, AnswerInv, DueInv, Returns
  PROVE  /\ Line[1].id = calls /\ calls \in taken /\ calls > 0 /\ Past
         /\ Len(down) = 0 /\ Seen = Sent /\ Sent = Chunks + calls
         /\ Line[1].name \in Requests \cup {"report"}
         /\ Line[1].name = "config" /\ ~Line[1].shut => RanThrough(calls)
<1>0. 1 \in 1 .. Len(Line) /\ calls \in Nat /\ Len(down) \in Nat /\ Seen \in Int /\ Chunks \in Nat
      /\ Seen + Len(down) = Sent /\ Line[1].id \in Nat
  <2>1. Len(Line) > 0
    BY DEF Returns, Gives, Takes
  <2>2. 1 \in 1 .. Len(Line)
    BY <2>1, Lengths
  <2> QED BY <2>2, LineType, SeenType, Constants DEF TypeOK
<1>1. calls > 0 /\ Past /\ pc \in Calls /\ pc \notin Ended
  BY <1>0 DEF Returns, HostInv, Calls, Past, Ended
<1>2. Sent = Chunks + calls
  BY <1>0, <1>1 DEF ChunksInv, Sent, Calls
<1>3. Line[1].name \in Requests \cup {"report"}
  BY DEF Returns, Gives, HostInv, Requests
<1>4. Line[1].id \in taken /\ Line[1].id <= Seen - Chunks
  BY <1>0, <1>3 DEF AnswerInv, TakenInv
<1>5. Line[1].id = calls
  <2>1. CASE pc = "request"
    BY <1>0, <1>1, <2>1 DEF Returns, Gives, HostInv, DueInv, Due
  <2>2. CASE pc = "report"
    BY <2>2 DEF Returns
  <2>3. CASE pc = "burst"
    <3>1. Line[1].name \in Requests /\ missing = 1
      BY <2>3 DEF Returns, Gives, Requests
    <3>2. Line[1].id > calls - 1
      BY <1>0, <1>1, <2>3, <3>1 DEF DueInv, Due
    <3> QED BY <1>0, <1>2, <1>4, <3>2
  <2> QED BY <2>1, <2>2, <2>3 DEF Returns
<1>6. Len(down) = 0
  BY <1>0, <1>2, <1>4, <1>5
<1>7. Line[1].name = "config" /\ ~Line[1].shut => RanThrough(calls)
  BY <1>0, <1>3, <1>5 DEF AnswerInv
<1> QED BY <1>0, <1>1, <1>2, <1>3, <1>4, <1>5, <1>6, <1>7

\* Every step keeps TakenInv.
LEMMA TakenStep ==
  ASSUME TypeOK, TypeOK', ChunksInv, HostInv, DownInv, TakenInv, TracksInv,
         AnswerInv, DueInv,
         HostFacts \/ McuFacts
  PROVE  TakenInv'
<1>0. Seen \in Int /\ Chunks \in Nat /\ taken \subseteq Nat
  BY SeenType, Constants DEF TypeOK
<1>d. PICK d \in Nat : Seen' = Seen + d
  <2>1. CASE HostFacts
    <3>1. Seen' = Seen + 0
      BY <1>0, <2>1, HostSeen
    <3> QED BY <3>1
  <2>2. CASE McuFacts
    BY <2>2, McuSeen
  <2> QED BY <2>1, <2>2
<1>1. \A n \in taken : n \in 1 .. Seen' - Chunks /\ TakenThrough(n)'
  <2>1. \A n \in taken : n \in 1 .. Seen - Chunks /\ TakenThrough(n) /\ n \in Nat
    BY <1>0 DEF TakenInv
  <2>2. \A n \in taken : n \in 1 .. Seen' - Chunks
    BY <1>0, <1>d, <2>1
  <2> QED BY <2>1, <2>2, HistoryGrows
<1>2. CASE /\ taken' = taken /\ ran' = ran /\ armed' \subseteq armed
           /\ got' = got \/ got'.call \in taken
  BY <1>1, <1>2 DEF TakenInv
<1>3. CASE McuFacts
  <2>1. CASE Accepts
    <3>1. CASE down[1].cmd = "identify"
      BY <1>2, <1>3, <2>1, <3>1 DEF Accepts, McuFacts
    <3>2. CASE down[1].cmd # "identify"
      <4>1. /\ down[1].id = Seen + 1 - Chunks /\ down[1].id > 0 /\ down[1].id \in Nat
            /\ Len(down') = Len(down) - 1 /\ Len(down) \in Nat
        BY <2>1, <3>2, FirstFrame, Lengths DEF Accepts, DownShift
      <4>2. Seen' = Seen + 1
        BY <1>3, <4>1, McuSent, SeenType DEF Seen
      <4>n. PICK n \in Nat : n = down[1].id
        BY <4>1
      <4>3. n \in 1 .. Seen' - Chunks /\ TakenThrough(n)'
        <5>1. n \in 1 .. Seen' - Chunks
          BY <1>0, <4>1, <4>2, <4>n
        <5> QED BY <5>1, <1>3, <2>1, <3>2, <4>n, AcceptFacts
      <4>4. /\ taken' = taken \cup {n} /\ armed' \subseteq armed \cup {n}
            /\ ran' \subseteq ran \cup {n} /\ got' = got
        BY <1>3, <2>1, <3>2, <4>n DEF Accepts, McuFacts
      <4>5. \A m \in taken' : m \in 1 .. Seen' - Chunks /\ TakenThrough(m)'
        BY <1>1, <4>3, <4>4
      <4>6. /\ armed' \subseteq taken' /\ ran' \subseteq taken'
            /\ got'.call \in taken' \cup {0}
        BY <4>4 DEF TakenInv
      <4> QED BY <4>5, <4>6 DEF TakenInv
    <3> QED BY <3>1, <3>2
  <2>2. CASE Refuses \/ Reports \/ Notes \/ ShutsDown \/ Restarts \/ LosesReply \/ LosesCommand
    BY <1>2, <1>3, <2>2 DEF McuFacts, Refuses, Reports, Notes, ShutsDown, Restarts,
       LosesReply,
         LosesCommand
  <2> QED BY <1>3, <2>1, <2>2 DEF McuFacts
<1>4. CASE HostFacts
  <2>1. taken' = taken /\ armed' = armed /\ ran' = ran
    BY <1>4 DEF HostFacts
  <2>2. CASE Returns
    <3>1. got'.call = calls
      BY <2>2 DEF Returns, Gives, Answer
    <3> QED BY <1>2, <2>1, <2>2, <3>1, ReturnFacts
  <2>3. CASE ~Returns
    <3>1. got' = got
      BY <1>4, <2>3 DEF HostFacts, Identifies, Sends, Bursts, Chunk, LastChunk,
         Skips, Counts, Acked,
           Halts, Fails, Expires, Reads
    <3> QED BY <1>2, <2>1, <3>1
  <2> QED BY <2>2, <2>3
<1> QED BY <1>3, <1>4

\* Every step keeps TracksInv.
LEMMA TracksStep ==
  ASSUME TypeOK, TypeOK', ChunksInv, HostInv, DownInv, TakenInv, TracksInv,
         ResponseInv,
         HostFacts \/ McuFacts
  PROVE  TracksInv'
<1>0. taken \subseteq Nat /\ restarts \in Nat /\ Seen \in Int /\ Chunks \in Nat
  BY SeenType, Constants DEF TypeOK
<1>1. CASE /\ Past' => Past
           /\ taken' = taken /\ ran' = ran /\ expected' = expected
           /\ restarts' = restarts /\ (halted' \/ ~halted)
  <2>0. \A k, l : Hid(k, l)' <=> Hid(k, l)
    BY <1>1 DEF Hid
  <2>1. \A l : RanThrough(l)' <=> RanThrough(l)
    BY <1>1, <2>0 DEF RanThrough
  <2> QED BY <1>0, <1>1, <2>1 DEF TracksInv
<1>2. CASE McuFacts
  <2>1. CASE Accepts
    <3>1. CASE down[1].cmd = "identify"
      BY <1>2, <2>1, <3>1, FirstFrame, McuSent DEF TracksInv, Accepts
    <3>2. CASE down[1].cmd # "identify"
      <4>1. /\ down[1].id = Seen + 1 - Chunks /\ down[1].id > 0 /\ down[1].id \in Nat
        BY <2>1, <3>2, FirstFrame DEF Accepts
      <4>n. PICK n \in Nat : n = down[1].id
        BY <4>1
      <4>2. /\ expected' = Number(n + 1) /\ (~halted => RanThrough(n)')
            /\ taken' = taken \cup {n} /\ halted' = halted
        BY <1>2, <2>1, <3>2, <4>n, AcceptFacts DEF Accepts
      <4>3. \A m \in taken' : m <= n
        <5>1. \A m \in taken : m \in 1 .. Seen - Chunks
          BY DEF TakenInv
        <5> QED BY <1>0, <4>1, <4>2, <4>n, <5>1
      <4> QED BY <4>2, <4>3 DEF TracksInv
    <3> QED BY <3>1, <3>2
  <2>2. CASE Restarts
    BY <1>0, <2>2 DEF Restarts, TracksInv
  <2>3. CASE Refuses \/ Reports \/ Notes \/ ShutsDown \/ LosesReply \/ LosesCommand
    BY <1>1, <1>2, <2>3, McuSent DEF Refuses, Reports, Notes, ShutsDown,
       LosesReply, LosesCommand
  <2> QED BY <1>2, <2>1, <2>2, <2>3 DEF McuFacts
<1>3. CASE HostFacts
  <2>1. /\ taken' = taken /\ ran' = ran /\ expected' = expected
        /\ restarts' = restarts /\ halted' = halted
    BY <1>3 DEF HostFacts
  <2>2. CASE Past' => Past
    BY <1>1, <2>1, <2>2
  <2>3. CASE Past' /\ ~Past
    <3>1. LastChunk
      BY <1>3, <2>3 DEF Past, HostInv, Calls, HostFacts, Identifies, Sends, Bursts,
         Chunk, Skips, Counts,
           Acked, Halts, Fails, Expires, Reads, Returns, Gives, Takes
    <3>2. 1 \in 1 .. Len(Line) /\ Line[1].id > 0 /\ Line[1].id = Len(output) /\ pc = "identify"
          /\ Line[1].name = "identify_response" /\ Len(output) = Chunks
      BY <3>1, LineType, Constants DEF LastChunk, Takes
    <3>3. expected = (Len(output) + 1) % SeqCount \/ (restarts > 0 /\ expected = 0)
      BY <3>2 DEF ResponseInv
    <3>4. taken = {}
      <4>1. Sent <= Chunks
        BY <1>0, <2>3, <3>2 DEF Sent, Past, TypeOK
      <4>2. Seen <= Chunks
        BY <1>0, <4>1, SeenType
      <4>3. \A n \in taken : n \in 1 .. Seen - Chunks
        BY DEF TakenInv
      <4> QED BY <1>0, <4>2, <4>3
    <3>5. (Len(output) + 1) % SeqCount = Number(0 + 1)
      BY <3>2, Constants DEF Number
    <3>6. RanThrough(0)'
      BY DEF RanThrough
    <3> QED BY <2>1, <3>3, <3>4, <3>5, <3>6 DEF TracksInv
  <2> QED BY <2>2, <2>3
<1> QED BY <1>2, <1>3

\* ReplyVouches, in the terms of the invariant.
LEMMA VouchesForm ==
  ReplyVouches <=> /\ got.id = got.call /\ TakenThrough(got.call)
                   /\ got.name = "config" /\ ~got.shut => RanThrough(got.call)
BY DEF ReplyVouches, Hidden, Hid, TakenThrough, RanThrough

\* Every step keeps ReplyVouches: only a return can change the reply.
LEMMA VouchesStep ==
  ASSUME TypeOK, TypeOK', ChunksInv, HostInv, DownInv, TakenInv, AnswerInv,
         DueInv,
         ReplyVouches, HostFacts \/ McuFacts
  PROVE  ReplyVouches'
<1>0. got.call \in Nat /\ calls \in Nat
  BY DEF TypeOK
<1>1. CASE Returns /\ HostFacts
  <2>1. /\ got'.call = calls /\ got'.id = Line[1].id /\ got'.name = Line[1].name
        /\ got'.shut = Line[1].shut
    BY <1>1 DEF Returns, Gives, Answer
  <2>2. TakenThrough(calls) /\ Line[1].id = calls
        /\ (Line[1].name = "config" /\ ~Line[1].shut => RanThrough(calls))
    BY <1>1, ReturnFacts DEF TakenInv
  <2>3. TakenThrough(calls)'
        /\ (Line[1].name = "config" /\ ~Line[1].shut => RanThrough(calls)')
    <3>1. /\ taken' = taken /\ ran' = ran /\ restarts' = restarts /\ calls' = calls
      BY <1>1 DEF HostFacts, Returns, Gives, Takes
    <3> QED BY <2>2, <3>1 DEF TakenThrough, RanThrough, Hid
  <2>4. calls' = calls
    BY <1>1 DEF Returns, Gives, Takes
  <2>5. \A n \in 1 .. got'.call : n \in taken' \/ Hidden(n)'
    BY <2>1, <2>3, <2>4 DEF TakenThrough, Hid, Hidden
  <2>6. got'.name = "config" /\ ~got'.shut => \A n \in 1 .. got'.call : n \in ran' \/ Hidden(n)'
    BY <2>1, <2>3, <2>4 DEF RanThrough, Hid, Hidden
  <2> QED BY <2>1, <2>2, <2>5, <2>6 DEF ReplyVouches
<1>2. CASE ~(Returns /\ HostFacts)
  <2>1. got' = got
    BY <1>2 DEF McuFacts, HostFacts, Identifies, Sends, Bursts, Chunk, LastChunk,
       Skips, Counts, Acked,
           Halts, Fails, Expires, Reads
  <2>2. \A n \in 1 .. got.call : n \in Nat /\ (Hid(n, got.call) => Hidden(n)')
    <3> TAKE n \in 1 .. got.call
    <3>1. n \in Nat
      BY <1>0
    <3>2. ASSUME Hid(n, got.call) PROVE Hidden(n)'
      <4>1. PICK m \in (n + 1 .. got.call) \cap taken : restarts > 0 /\ Number(m) = 0
        BY <3>2 DEF Hid
      <4>2. taken \subseteq taken' /\ restarts' > 0
        <5>1. /\ restarts \in Nat /\ restarts' \in Nat /\ restarts' >= restarts
              /\ taken \subseteq taken'
          BY HistoryGrows DEF TypeOK
        <5> QED BY <4>1, <5>1
      <4> QED BY <2>1, <4>1, <4>2 DEF Hidden
    <3> QED BY <3>1, <3>2
  <2>3. taken \subseteq taken' /\ ran \subseteq ran'
    BY HistoryGrows
  <2> QED BY <2>1, <2>2, <2>3, VouchesForm DEF ReplyVouches, TakenThrough, RanThrough
<1> QED BY <1>1, <1>2

-----------------------------------------------------------------------------
\* Where a frame of the line comes from.
Stamped(p) ==   \* the reply to the command just accepted
  /\ Accepts /\ Len(down) > 0 /\ down[1].cmd \in Requests \cup {"identify"}
  /\ p.name = IF down[1].cmd = "identify" THEN "identify_response" ELSE down[1].cmd
  /\ p.id = down[1].id /\ (down[1].cmd = "config" => p.shut = halted)

\* Frames that answer no command by name.
Notices == {"ack", "stats", "shutdown", "is_shutdown", "starting"}

\* After a step of the tool, each frame on the line was there before.
LEMMA HostSource ==
  ASSUME TypeOK, TypeOK', HostFacts
  PROVE  \/ /\ Line' = Line
            /\ Identifies \/ Sends \/ Bursts \/ Expires \/ Reads
         \/ /\ Takes
            /\ Chunk \/ LastChunk \/ Skips \/ Returns \/ Counts \/ Acked \/ Halts \/ Fails
            /\ Len(Line) > 0 /\ Len(Line') = Len(Line) - 1
            /\ \A i \in 1 .. Len(Line') : Line'[i] = Line[i + 1] /\ i + 1 \in 1 .. Len(Line)
<1>1. CASE Identifies \/ Sends \/ Bursts \/ Expires \/ Reads
  BY <1>1 DEF Identifies, Sends, Bursts, Expires, Reads
<1>2. CASE Chunk \/ LastChunk \/ Skips \/ Returns \/ Counts \/ Acked \/ Halts \/ Fails
  <2>1. Takes
    BY <1>2 DEF Chunk, LastChunk, Skips, Returns, Gives, Counts, Acked, Halts, Fails
  <2>2. Len(Line) \in Nat
    BY Lengths
  <2>3. Len(Line) > 0 /\ Len(Line') = Len(Line) - 1
        /\ \A i \in 1 .. Len(Line') : Line'[i] = Line[i + 1] /\ i + 1 \in 1 .. Len(Line)
    BY <2>1, <2>2 DEF Takes, LineDrop
  <2> QED BY <1>2, <2>1, <2>3
<1> QED BY <1>1, <1>2 DEF HostFacts

\* After a step of the MCU, each was there, or tells no reply, or is new.
LEMMA McuSource ==
  ASSUME TypeOK, TypeOK', McuFacts, NEW i \in 1 .. Len(Line')
  PROVE  \/ \E j \in 1 .. Len(Line) : j >= i /\ Line'[i] = Line[j]
         \/ Line'[i].name \in Notices
         \/ Stamped(Line'[i]) /\ i = Len(Line) + 1
         \/ Reports /\ i = Len(Line) + 1 /\ Line'[i].name = "report" /\ Line'[i].id \in armed
<1>1. Len(Line) \in Nat
  BY Lengths
<1>2. ASSUME LineGrow(0) \/ LineGrow(1) \/ LineGrow(2)
      PROVE  \/ \E j \in 1 .. Len(Line) : j >= i /\ Line'[i] = Line[j]
             \/ i = Len(Line) + 1 /\ (LineGrow(1) \/ LineGrow(2))
             \/ i = Len(Line) + 2 /\ LineGrow(2)
  BY <1>1, <1>2 DEF LineGrow
<1>3. CASE Accepts
  <2>1. CASE /\ down[1].cmd \in Requests \cup {"identify"} /\ LineGrow(2)
             /\ Line'[Len(Line) + 1].name = IF down[1].cmd = "identify" THEN "identify_response"
                                            ELSE down[1].cmd
             /\ Line'[Len(Line) + 1].id = down[1].id
             /\ down[1].cmd = "config" => Line'[Len(Line) + 1].shut = halted
             /\ Line'[Len(Line) + 2].name = "ack"
    <3>1. Stamped(Line'[Len(Line) + 1]) /\ Line'[Len(Line) + 2].name \in Notices
      BY <1>3, <2>1 DEF Stamped, Notices, Accepts
    <3> QED BY <1>2, <2>1, <3>1
  <2>2. CASE /\ LineGrow(2) /\ Line'[Len(Line) + 1].name = "is_shutdown"
             /\ Line'[Len(Line) + 2].name = "ack"
    BY <1>2, <2>2 DEF Notices
  <2>3. CASE LineGrow(1) /\ Line'[Len(Line) + 1].name = "ack"
    BY <1>1, <1>2, <2>3 DEF Notices, LineGrow
  <2> QED BY <1>3, <2>1, <2>2, <2>3 DEF Accepts
<1>4. CASE Refuses \/ Notes \/ ShutsDown
  BY <1>1, <1>2, <1>4 DEF Refuses, Notes, ShutsDown, Notices, LineGrow
<1>5. CASE Reports
  BY <1>1, <1>2, <1>5 DEF Reports, LineGrow
<1>6. CASE Restarts
  <2> PICK n \in 0 .. Len(Line) : LineCut(n)
    BY <1>6 DEF Restarts
  <2>1. i = n + 1 \/ (i \in 1 .. n /\ i \in 1 .. Len(Line))
    BY <1>1 DEF LineCut
  <2>2. Msg("starting", 0).name \in Notices
    BY DEF Msg, Notices
  <2> QED BY <1>1, <2>1, <2>2 DEF LineCut
<1>7. CASE LosesReply
  <2>1. LineDrop(Len(data)) /\ Len(data) \in Nat /\ Len(Line) > 0
    BY <1>7, Lengths DEF LosesReply
  <2>2. i \in 1 .. Len(Line) /\ i + 1 \in 1 .. Len(Line)
        /\ (Line'[i] = Line[i] \/ Line'[i] = Line[i + 1])
    BY <1>1, <2>1 DEF LineDrop
  <2> QED BY <2>2
<1>8. CASE LosesCommand
  BY <1>1, <1>2, <1>8 DEF LosesCommand, Notices, LineGrow
<1> QED BY <1>3, <1>4, <1>5, <1>6, <1>7, <1>8 DEF McuFacts

\* Every step keeps ResponseInv.
LEMMA ResponseStep ==
  ASSUME TypeOK, TypeOK', ChunksInv, HostInv, DownInv, ResponseInv,
         HostFacts \/ McuFacts
  PROVE  ResponseInv'
<1>0. /\ Seen \in Int /\ Len(down) \in Nat /\ Len(output) \in Nat
      /\ Len(Line) \in Nat /\ calls \in Nat
  BY SeenType, Lengths DEF TypeOK
<1>1. ASSUME NEW i \in 1 .. Len(Line'), Line'[i].name = "identify_response"
      PROVE  /\ Line'[i].id <= Seen' \/ (i = 1 /\ Len(output') = 0 /\ ~Past' /\ ~Clean')
             /\ Line'[i].id > 0 /\ Line'[i].id = Len(output') /\ pc' = "identify" =>
                  /\ down' = <<>>
                  /\ \/ expected' = (Len(output') + 1) % SeqCount
                     \/ restarts' > 0 /\ expected' = 0
  <2>1. CASE McuFacts
    <3>0. /\ output' = output /\ pc' = pc /\ (Past' <=> Past) /\ (Clean' <=> Clean)
      BY <2>1, McuSent DEF McuFacts
    <3>1. ASSUME NEW j \in 1 .. Len(Line), j >= i, Line'[i] = Line[j]
          PROVE  /\ Line'[i].id <= Seen' \/ (i = 1 /\ Len(output') = 0 /\ ~Past' /\ ~Clean')
                 /\ Line'[i].id > 0 /\ Line'[i].id = Len(output') /\ pc' = "identify" =>
                      /\ down' = <<>>
                      /\ \/ expected' = (Len(output') + 1) % SeqCount
                         \/ restarts' > 0 /\ expected' = 0
      <4>1. PICK d \in Nat : Seen' = Seen + d
        BY <2>1, McuSeen
      <4>2. Line[j].id \in Nat /\ Line[j].name = "identify_response"
        BY <1>1, <3>1, LineType
      <4>3. Line'[i].id <= Seen' \/ (i = 1 /\ Len(output') = 0 /\ ~Past' /\ ~Clean')
        BY <1>0, <3>0, <3>1, <4>1, <4>2 DEF ResponseInv
      <4>4. ASSUME Line'[i].id > 0, Line'[i].id = Len(output'), pc' = "identify"
            PROVE  /\ down' = <<>>
                   /\ \/ expected' = (Len(output') + 1) % SeqCount
                      \/ restarts' > 0 /\ expected' = 0
        <5>1. /\ down = <<>> /\ Len(down) = 0
              /\ expected = (Len(output) + 1) % SeqCount \/ (restarts > 0 /\ expected = 0)
          BY <3>0, <3>1, <4>2, <4>4 DEF ResponseInv
        <5>2. ~Accepts /\ ~Refuses /\ ~LosesCommand
          BY <5>1 DEF Accepts, Refuses, LosesCommand
        <5>3. CASE Restarts
          <6>1. \E n \in 0 .. 0 : DownShift(n)
            BY <5>1, <5>3 DEF Restarts
          <6>2. Len(down') = 0
            <7>1. DownShift(0)
              BY <6>1
            <7> QED BY <5>1, <7>1 DEF DownShift
          <6>3. restarts' = restarts + 1 /\ expected' = 0 /\ restarts \in Nat
            BY <5>3 DEF Restarts, TypeOK
          <6>4. restarts' > 0
            BY <6>3
          <6>5. down' = <<>>
            BY <6>2 DEF TypeOK
          <6> QED BY <6>3, <6>4, <6>5
        <5>4. CASE Reports \/ Notes \/ ShutsDown \/ LosesReply
          BY <3>0, <5>1, <5>4 DEF Reports, Notes, ShutsDown, LosesReply
        <5> QED BY <2>1, <5>2, <5>3, <5>4 DEF McuFacts
      <4> QED BY <4>3, <4>4
    <3>2. CASE Stamped(Line'[i])
      <4>1. /\ Accepts /\ Len(down) > 0 /\ down[1].cmd = "identify"
            /\ Line'[i].id = down[1].id
        BY <1>1, <3>2 DEF Stamped, Requests
      <4>2. /\ down[1].id = Seen + 1 /\ down[1].seq = (Seen + 1) % SeqCount
            /\ Seen + 1 <= Sent
        BY <4>1, FirstFrame
      <4>3. /\ Len(down') = Len(down) - 1 /\ expected' = Next1(expected)
            /\ expected = down[1].seq
        BY <4>1 DEF Accepts, DownShift
      <4>4. Seen' = Seen + 1
        BY <1>0, <2>1, <4>3, McuSent, SeenType DEF Seen
      <4>5. ASSUME Line'[i].id > 0, Line'[i].id = Len(output'), pc' = "identify"
            PROVE  down' = <<>> /\ expected' = (Len(output') + 1) % SeqCount
        <5>1. Sent = Len(output) /\ Seen + 1 = Len(output)
          BY <1>0, <3>0, <4>1, <4>2, <4>5 DEF Sent, HostInv
        <5>2. Len(down') = 0
          BY <1>0, <4>3, <5>1, SeenType
        <5>3. down' = <<>>
          BY <5>2 DEF TypeOK
        <5>4. expected' = (Len(output) + 1) % SeqCount
          BY <1>0, <4>2, <4>3, <5>1, ModNext
        <5> QED BY <3>0, <5>3, <5>4
      <4> QED BY <1>0, <4>1, <4>2, <4>4, <4>5
    <3> QED BY <1>1, <2>1, <3>1, <3>2, McuSource DEF Notices
  <2>2. CASE HostFacts
    <3>0. /\ Seen' = Seen /\ Clean' = Clean /\ expected' = expected
          /\ restarts' = restarts
      BY <2>2, HostSeen DEF HostFacts, Clean
    <3>1. CASE Line' = Line /\ (Identifies \/ Sends \/ Bursts \/ Expires \/ Reads)
      <4>1. CASE Identifies
        BY <1>0, <1>1, <3>0, <3>1, <4>1 DEF Identifies, ResponseInv, Past, HostInv
      <4>2. CASE Sends \/ Bursts
        <5>1. Past /\ Line[i].id <= Seen /\ pc' # "identify"
          BY <1>1, <3>1, <4>2 DEF Sends, Bursts, ResponseInv, Past
        <5> QED BY <3>0, <3>1, <5>1
      <4>3. CASE Expires \/ Reads
        BY <1>0, <1>1, <3>0, <3>1, <4>3 DEF Expires, Reads, ResponseInv, Past
      <4> QED BY <3>1, <4>1, <4>2, <4>3
    <3>2. CASE /\ Takes
               /\ Chunk \/ LastChunk \/ Skips \/ Returns \/ Counts \/ Acked \/ Halts \/ Fails
               /\ Len(Line) > 0 /\ Len(Line') = Len(Line) - 1
               /\ \A k \in 1 .. Len(Line') : Line'[k] = Line[k + 1] /\ k + 1 \in 1 .. Len(Line)
      <4>1. /\ Line'[i] = Line[i + 1] /\ i + 1 \in 1 .. Len(Line) /\ i + 1 # 1
            /\ Line[i + 1].id \in Nat
        BY <1>0, <3>2, LineType
      <4>2. Line'[i].id <= Seen'
        BY <1>1, <3>0, <4>1 DEF ResponseInv
      <4>3. CASE Chunk
        <5>1. Len(output') = Len(output) + 1 /\ Sent = Len(output)
          <6>1. output \in Seq(Nat) /\ Line[1].id \in Nat
            BY <4>3, LineType DEF TypeOK, Chunk, Takes
          <6> QED BY <1>0, <4>3, <6>1, AppendProperties DEF Chunk, HostInv, Sent
        <5>2. Line'[i].id < Len(output')
          BY <1>0, <3>0, <4>1, <4>2, <5>1, SeenType
        <5> QED BY <1>0, <4>1, <4>2, <5>1, <5>2
      <4>4. CASE Skips
        BY <1>1, <3>0, <4>1, <4>2, <4>4 DEF Skips, ResponseInv
      <4>5. CASE LastChunk \/ Returns \/ Counts \/ Acked \/ Halts \/ Fails
        BY <4>2, <4>5 DEF LastChunk, Returns, Gives, Counts, Acked, Halts, Fails
      <4> QED BY <3>2, <4>3, <4>4, <4>5
    <3> QED BY <2>2, <3>1, <3>2, HostSource
  <2> QED BY <2>1, <2>2
<1> QED BY <1>1 DEF ResponseInv

-----------------------------------------------------------------------------
\* Frames keep their order when the tool takes a step,
LEMMA HostOrder ==
  ASSUME TypeOK, TypeOK', HostFacts, NEW i \in 1 .. Len(Line'),
         NEW k \in 1 .. Len(Line'), i < k
  PROVE  \E h, j \in 1 .. Len(Line) : h < j /\ Line'[i] = Line[h] /\ Line'[k] = Line[j]
<1>1. CASE Line' = Line
  BY <1>1
<1>2. CASE \A m \in 1 .. Len(Line') : Line'[m] = Line[m + 1] /\ m + 1 \in 1 .. Len(Line)
  <2>1. i \in Nat /\ k \in Nat /\ i + 1 < k + 1
    OBVIOUS
  <2> QED BY <1>2, <2>1
<1> QED BY <1>1, <1>2, HostSource

\* and when the MCU does; only the last can be a new reply.
LEMMA McuOrder ==
  ASSUME TypeOK, TypeOK', McuFacts, NEW i \in 1 .. Len(Line'),
         NEW k \in 1 .. Len(Line'), i < k
  PROVE  \/ \E h, j \in 1 .. Len(Line) : h < j /\ Line'[i] = Line[h] /\ Line'[k] = Line[j]
         \/ Line'[i].name \in Notices \/ Line'[k].name \in Notices
         \/ /\ k = Len(Line) + 1 /\ \E h \in 1 .. Len(Line) : Line'[i] = Line[h]
            /\ Stamped(Line'[k]) \/ (Reports /\ Line'[k].name = "report" /\ Line'[k].id \in armed)
<1>0. Len(Line) \in Nat
  BY Lengths
<1>1. CASE LosesReply
  <2>1. LineDrop(Len(data)) /\ Len(data) \in Nat /\ Len(Line) > 0
    BY <1>1, Lengths DEF LosesReply
  <2> DEFINE src(m) == IF m <= Len(data) THEN m ELSE m + 1
  <2>2. src(i) \in 1 .. Len(Line) /\ src(k) \in 1 .. Len(Line) /\ src(i) < src(k)
    BY <1>0, <2>1 DEF LineDrop
  <2>3. Line'[i] = Line[src(i)] /\ Line'[k] = Line[src(k)]
    BY <2>1 DEF LineDrop
  <2> QED BY <2>2, <2>3
<1>2. CASE i \in 1 .. Len(Line) /\ Line'[i] = Line[i] /\ k \in 1 .. Len(Line) /\ Line'[k] = Line[k]
  BY <1>2
<1>3. CASE Restarts
  <2> PICK n \in 0 .. Len(Line) : LineCut(n)
    BY <1>3 DEF Restarts
  <2>1. \A m \in 1 .. Len(Line') : m = n + 1 \/ (m \in 1 .. n /\ m \in 1 .. Len(Line))
    BY <1>0 DEF LineCut
  <2>2. Msg("starting", 0).name \in Notices
    BY DEF Msg, Notices
  <2> QED BY <1>0, <1>2, <2>1, <2>2 DEF LineCut
<1>4. CASE Line' = Line
  BY <1>4
<1>5. CASE (LineGrow(1) \/ LineGrow(2)) /\ ~LosesReply /\ ~Restarts
  <2>1. i \in 1 .. Len(Line) => Line'[i] = Line[i]
    BY <1>5 DEF LineGrow
  <2>2. k \in 1 .. Len(Line) => Line'[k] = Line[k]
    BY <1>5 DEF LineGrow
  <2>3. k \in 1 .. Len(Line) => i \in 1 .. Len(Line)
    BY <1>0
  <2>4. CASE k \in 1 .. Len(Line)
    BY <1>2, <2>1, <2>2, <2>3, <2>4
  <2>5. CASE k \notin 1 .. Len(Line)
    <3>1. k >= Len(Line) + 1
      BY <1>0, <2>5
    <3>2. i \in 1 .. Len(Line) \/ i >= Len(Line) + 1
      BY <1>0
    <3>3. CASE k = Len(Line) + 1
      <4>1. i \in 1 .. Len(Line)
        BY <1>0, <3>2, <3>3
      <4>2. \A j \in 1 .. Len(Line) : ~ j >= k
        BY <1>0, <3>3
      <4> QED BY <2>1, <3>3, <4>1, <4>2, McuSource
    <3>4. CASE k # Len(Line) + 1
      <4>1. \A j \in 1 .. Len(Line) : ~ j >= k
        BY <1>0, <3>1, <3>4
      <4> QED BY <3>4, <4>1, McuSource
    <3> QED BY <3>3, <3>4
  <2> QED BY <2>4, <2>5
<1> QED BY <1>1, <1>3, <1>4, <1>5 DEF McuFacts, Accepts, Refuses, Reports, Notes,
           ShutsDown, LosesCommand

\* Every step keeps AnswerInv.
LEMMA AnswerStep ==
  ASSUME TypeOK, TypeOK', ChunksInv, HostInv, DownInv, TakenInv, TracksInv,
         AnswerInv,
         HostFacts \/ McuFacts
  PROVE  AnswerInv'
<1>0. /\ taken \subseteq taken' /\ taken \subseteq Nat /\ Len(Line) \in Nat
      /\ \A c \in Nat : RanThrough(c) => RanThrough(c)'
  BY HistoryGrows, Lengths DEF TypeOK
<1>1. ASSUME NEW i \in 1 .. Len(Line'), Line'[i].name \in Requests \cup {"report"},
             NEW c, c = Line'[i].id
      PROVE  c \in taken' /\ (Line'[i].name = "config" /\ ~Line'[i].shut => RanThrough(c)')
  <2>1. CASE \E j \in 1 .. Len(Line) : Line'[i] = Line[j]
    BY <1>0, <1>1, <2>1 DEF AnswerInv
  <2>2. CASE McuFacts /\ Stamped(Line'[i])
    <3>1. /\ Accepts /\ Len(down) > 0 /\ down[1].cmd = Line'[i].name /\ c = down[1].id
          /\ down[1].cmd # "identify"
          /\ down[1].cmd = "config" => Line'[i].shut = halted
      BY <1>1, <2>2 DEF Stamped, Requests
    <3>2. taken' = taken \cup {c} /\ (~halted => RanThrough(c)')
      BY <2>2, <3>1, AcceptFacts DEF Accepts
    <3> QED BY <3>1, <3>2
  <2>3. CASE Reports /\ Line'[i].name = "report" /\ Line'[i].id \in armed
    BY <1>0, <1>1, <2>3 DEF TakenInv
  <2>4. Line'[i].name \notin Notices
    BY <1>1 DEF Notices, Requests
  <2>5. CASE HostFacts
    BY <2>1, <2>5, HostSource
  <2>6. CASE McuFacts
    BY <2>1, <2>2, <2>3, <2>4, <2>6, McuSource
  <2> QED BY <2>5, <2>6
<1>2. ASSUME NEW i \in 1 .. Len(Line'), NEW k \in 1 .. Len(Line'), i < k,
             Line'[i].name \in Requests, Line'[k].name \in Requests
      PROVE  Line'[i].id < Line'[k].id
  <2>1. CASE \E h, j \in 1 .. Len(Line) : h < j /\ Line'[i] = Line[h] /\ Line'[k] = Line[j]
    BY <1>2, <2>1 DEF AnswerInv
  <2>2. CASE McuFacts /\ Stamped(Line'[k]) /\ \E h \in 1 .. Len(Line) : Line'[i] = Line[h]
    <3>1. /\ Accepts /\ Len(down) > 0 /\ Line'[k].id = down[1].id
          /\ down[1].cmd # "identify"
      BY <1>2, <2>2 DEF Stamped, Requests
    <3>2. down[1].id = Seen + 1 - Chunks /\ Seen \in Int /\ Chunks \in Nat
      BY <3>1, FirstFrame
    <3>3. Line'[i].id \in taken /\ Line'[i].id <= Seen - Chunks
      BY <1>2, <2>2, <3>2 DEF AnswerInv, TakenInv
    <3>4. Line'[i].id \in Nat
      BY <1>0, <3>3
    <3> QED BY <3>1, <3>2, <3>3, <3>4
  <2>3. /\ Line'[i].name \notin Notices /\ Line'[k].name \notin Notices
        /\ Line'[k].name # "report"
    BY <1>2 DEF Notices, Requests
  <2>4. CASE HostFacts
    BY <1>2, <2>1, <2>4, HostOrder
  <2>5. CASE McuFacts
    BY <1>2, <2>1, <2>2, <2>3, <2>5, McuOrder
  <2> QED BY <2>4, <2>5
<1>3. \A i \in 1 .. Len(Line') :
        Line'[i].name \in Requests \cup {"report"} =>
          /\ Line'[i].id \in taken'
          /\ Line'[i].name = "config" /\ ~Line'[i].shut => RanThrough(Line[i].id)'
  BY <1>1 DEF RanThrough, Hid
<1> QED BY <1>2, <1>3 DEF AnswerInv

\* Outside their calls no request and no reply to one is on the line.
LEMMA NoRequests ==
  ASSUME DueInv, pc \notin {"request", "burst"} \cup Ended
  PROVE  /\ \A i \in 1 .. Len(Line) : Line[i].name \notin Requests
         /\ \A i \in 1 .. Len(down) : down[i].cmd \notin Requests
BY DEF DueInv, Due

\* Every step keeps DueInv.
LEMMA DueStep ==
  ASSUME TypeOK, TypeOK', ChunksInv, HostInv, DownInv, TakenInv, AnswerInv,
         DueInv,
         HostFacts \/ McuFacts
  PROVE  DueInv'
<1>0. /\ Len(Line) \in Nat /\ Len(down) \in Nat /\ calls \in Nat
      /\ missing \in Int /\ Seen \in Int
      /\ Chunks \in Nat /\ taken \subseteq Nat
  BY Lengths, SeenType, Constants DEF TypeOK
<1>1. CASE McuFacts
  <2>1. UNCHANGED <<pc, calls, want, missing>>
    BY <1>1 DEF McuFacts
  <2>2. ASSUME NEW i \in 1 .. Len(Line'), Line'[i].name \in Requests
        PROVE  Due(Line'[i].name, Line'[i].id)
    <3>1. CASE \E j \in 1 .. Len(Line) : Line'[i] = Line[j]
      BY <2>2, <3>1 DEF DueInv
    <3>2. CASE Stamped(Line'[i])
      <4>1. /\ 1 \in 1 .. Len(down) /\ Line'[i].id = down[1].id
            /\ Line'[i].name = down[1].cmd
        BY <1>0, <2>2, <3>2 DEF Stamped, Requests
      <4> QED BY <2>2, <4>1 DEF DueInv
    <3>3. Line'[i].name \notin Notices /\ Line'[i].name # "report"
      BY <2>2 DEF Notices, Requests
    <3> QED BY <1>1, <3>1, <3>2, <3>3, McuSource
  <2>3. ASSUME NEW i \in 1 .. Len(down'), down'[i].cmd \in Requests
        PROVE  Due(down'[i].cmd, down'[i].id)
    <3>1. CASE down' = down
      BY <2>3, <3>1 DEF DueInv
    <3>2. CASE \E n \in 0 .. Len(down) : DownShift(n)
      <4> PICK n \in 0 .. Len(down) : DownShift(n)
        BY <3>2
      <4>1. i + n \in 1 .. Len(down) /\ down'[i] = down[i + n]
        BY <1>0 DEF DownShift
      <4> QED BY <2>3, <4>1 DEF DueInv
    <3>3. Len(down) > 0 => 1 \in 0 .. Len(down)
      BY <1>0
    <3> QED BY <1>1, <3>1, <3>2, <3>3 DEF McuFacts, Accepts, Refuses, Reports,
               Notes, ShutsDown,
              Restarts, LosesReply, LosesCommand
  <2> QED BY <2>1, <2>2, <2>3 DEF DueInv, Due
<1>2. CASE HostFacts
  <2>1. CASE pc' \in Ended
    BY <2>1 DEF DueInv, Due
  <2>2. CASE /\ \A i \in 1 .. Len(Line') : Line'[i].name \notin Requests
             /\ \A i \in 1 .. Len(down') : down'[i].cmd \notin Requests
    BY <2>2 DEF DueInv
  <2>3. CASE Line' = Line /\ (Identifies \/ Sends \/ Bursts \/ Expires \/ Reads)
    <3>1. CASE Identifies
      <4>1. pc \notin {"request", "burst"} \cup Ended
        BY <3>1 DEF Identifies, Ended
      <4>2. \A i \in 1 .. Len(down') : i \in 1 .. Len(down) \/ i = Len(down) + 1
        BY <1>0, <3>1 DEF Identifies, DownGrow
      <4>3. \A i \in 1 .. Len(down') : down'[i].cmd \notin Requests
        BY <3>1, <4>1, <4>2, NoRequests DEF Identifies, DownGrow, Frame, Requests
      <4> QED BY <2>2, <2>3, <4>1, <4>3, NoRequests
    <3>2. CASE Sends
      <4>1. pc \notin {"request", "burst"} \cup Ended
        BY <3>2 DEF Sends, Ended
      <4>2. \A i \in 1 .. Len(down') : i \in 1 .. Len(down) \/ i = Len(down) + 1
        BY <1>0, <3>2 DEF Sends, DownGrow
      <4>3. \A i \in 1 .. Len(down') : down'[i].cmd \in Requests =>
              pc' = "request" /\ down'[i].id = calls' /\ down'[i].cmd = want'
        BY <3>2, <4>1, <4>2, NoRequests DEF Sends, DownGrow, Requests
      <4> QED BY <2>3, <4>1, <4>3, NoRequests DEF DueInv, Due
    <3>3. CASE Bursts
      <4>1. pc \notin {"request", "burst"} \cup Ended
        BY <3>3 DEF Bursts, Ended
      <4>2. ASSUME NEW i \in 1 .. Len(down'), down'[i].cmd \in Requests
            PROVE  pc' = "burst" /\ down'[i].id > calls' - missing' /\ down'[i].cmd = "clock"
        <5>1. CASE i \in 1 .. Len(down)
          BY <3>3, <4>1, <4>2, <5>1, NoRequests DEF Bursts, DownGrow
        <5>2. CASE i \notin 1 .. Len(down)
          <6> DEFINE j == i - Len(down)
          <6>1. j \in 1 .. BurstSize /\ i = Len(down) + j /\ BurstSize \in Nat
            BY <1>0, <3>3, <5>2, Constants DEF Bursts, DownGrow
          <6> HIDE DEF j
          <6>2. down'[i].id = calls + j /\ down'[i].cmd = "clock" /\ pc' = "burst"
                /\ calls' = calls + BurstSize /\ missing' = BurstSize
            BY <3>3, <6>1 DEF Bursts
          <6>3. calls' - missing' = calls
            BY <1>0, <6>1, <6>2
          <6> QED BY <1>0, <6>1, <6>2, <6>3
        <5> QED BY <5>1, <5>2
      <4> QED BY <2>3, <4>1, <4>2, NoRequests DEF DueInv, Due
    <3>4. CASE Expires
      BY <2>1, <3>4 DEF Expires, Ended
    <3>5. CASE Reads
      BY <2>3, <3>5 DEF Reads, DueInv, Due
    <3> QED BY <2>3, <3>1, <3>2, <3>3, <3>4, <3>5
  <2>4. CASE /\ Takes
             /\ Chunk \/ LastChunk \/ Skips \/ Returns \/ Counts \/ Acked \/ Halts \/ Fails
             /\ Len(Line) > 0 /\ Len(Line') = Len(Line) - 1
             /\ \A k \in 1 .. Len(Line') : Line'[k] = Line[k + 1] /\ k + 1 \in 1 .. Len(Line)
    <3>0. ASSUME pc \notin {"request", "burst"} \cup Ended
          PROVE  \A k \in 1 .. Len(Line') : Line'[k].name \notin Requests
      BY <2>4, <3>0, NoRequests
    <3>1. CASE Chunk
      <4>1. pc \notin {"request", "burst"} \cup Ended
        BY <3>1 DEF Chunk, Ended
      <4>2. \A i \in 1 .. Len(down') : i \in 1 .. Len(down) \/ i = Len(down) + 1
        BY <1>0, <3>1 DEF Chunk, DownGrow
      <4>3. \A i \in 1 .. Len(down') : down'[i].cmd \notin Requests
        BY <3>1, <4>1, <4>2, NoRequests DEF Chunk, DownGrow, Frame, Requests
      <4> QED BY <2>2, <3>0, <4>1, <4>3
    <3>2. CASE LastChunk \/ Acked \/ Halts
      <4>1. pc \notin {"request", "burst"} \cup Ended /\ down' = down
        BY <3>2 DEF LastChunk, Acked, Halts, Ended
      <4> QED BY <2>2, <3>0, <4>1, NoRequests
    <3>3. CASE Skips
      <4>1. UNCHANGED <<pc, calls, want, missing, down>>
        BY <2>4, <3>3 DEF Skips, Takes
      <4> QED BY <2>4, <4>1 DEF DueInv, Due
    <3>4. CASE Returns
      <4>1. /\ Line[1].id = calls /\ Len(down) = 0 /\ Seen = Chunks + calls
            /\ Line[1].name \in Requests \cup {"report"}
        BY <3>4, ReturnFacts
      <4>2. down' = down
        BY <3>4 DEF Returns, Gives
      <4>3. ASSUME NEW i \in 1 .. Len(Line'), Line'[i].name \in Requests
            PROVE  FALSE
        <5>1. /\ 1 \in 1 .. Len(Line) /\ i + 1 \in 1 .. Len(Line) /\ 1 < i + 1
              /\ Line'[i] = Line[i + 1]
          BY <1>0, <2>4
        <5>2. Line[1].name \in Requests
          <6>1. CASE pc = "report"
            BY <4>3, <5>1, <6>1, NoRequests DEF Ended
          <6>2. CASE pc # "report"
            BY <3>4, <4>1, <6>2 DEF Returns, Gives, HostInv, Requests
          <6> QED BY <6>1, <6>2
        <5>3. Line[1].id < Line[i + 1].id
          BY <4>3, <5>1, <5>2 DEF AnswerInv
        <5>4. Line[i + 1].id \in taken /\ Line[i + 1].id <= Seen - Chunks
          BY <4>3, <5>1 DEF AnswerInv, TakenInv
        <5>5. Line[i + 1].id \in Nat
          BY <1>0, <5>4
        <5> QED BY <1>0, <4>1, <5>3, <5>4, <5>5
      <4> QED BY <2>2, <4>1, <4>2, <4>3
    <3>5. CASE Counts
      <4>1. /\ pc = "burst" /\ pc' = "burst" /\ calls' = calls
            /\ missing' = missing - 1
            /\ down' = down /\ Line[1].name = "clock" /\ Line[1].name \in Requests
        BY <3>5 DEF Counts, Takes, Requests
      <4>2. 1 \in 1 .. Len(Line)
        BY <1>0, <2>4
      <4>3. /\ Line[1].id > calls - missing /\ Line[1].id \in taken
            /\ Line[1].id <= Seen - Chunks
            /\ Line[1].id \in Nat
        <5>1. Due(Line[1].name, Line[1].id)
          BY <4>1, <4>2 DEF DueInv
        <5>2. Line[1].id > calls - missing
          BY <4>1, <5>1 DEF Due, Ended
        <5>3. Line[1].id \in taken
          BY <4>1, <4>2 DEF AnswerInv
        <5>4. Line[1].id <= Seen - Chunks
          BY <5>3 DEF TakenInv
        <5> QED BY <1>0, <5>2, <5>3, <5>4
      <4>4. calls' - missing' = calls - missing + 1
        BY <1>0, <4>1
      <4>5. ASSUME NEW i \in 1 .. Len(Line'), Line'[i].name \in Requests
            PROVE  Line'[i].id > calls' - missing' /\ Line'[i].name = "clock"
        <5>1. i + 1 \in 1 .. Len(Line) /\ 1 < i + 1 /\ Line'[i] = Line[i + 1]
          BY <1>0, <2>4
        <5>2. Line[1].id < Line[i + 1].id /\ Line[i + 1].id \in taken
          BY <4>1, <4>2, <4>5, <5>1 DEF AnswerInv
        <5>3. Line[i + 1].name = "clock"
          <6>1. Due(Line[i + 1].name, Line[i + 1].id)
            BY <4>5, <5>1 DEF DueInv
          <6> QED BY <4>1, <6>1 DEF Due, Ended
        <5>4. Line[i + 1].id \in Nat
          BY <1>0, <5>2
        <5>5. Line[i + 1].id > calls' - missing'
          BY <1>0, <4>3, <4>4, <5>2, <5>4
        <5> QED BY <5>1, <5>3, <5>5
      <4>6. ASSUME NEW i \in 1 .. Len(down'), down'[i].cmd \in Requests
            PROVE  down'[i].id > calls' - missing' /\ down'[i].cmd = "clock"
        <5>1. /\ i \in 1 .. Len(down) /\ down'[i] = down[i]
              /\ down[i].cmd # "identify"
          BY <4>1, <4>6 DEF Requests
        <5>2. Pos(down[i]) = Seen + i /\ down[i].id \in Nat
          BY <5>1, LineType DEF DownInv
        <5>3. Chunks + down[i].id = Seen + i
          BY <5>1, <5>2 DEF Pos
        <5>4. down[i].cmd = "clock"
          <6>1. Due(down[i].cmd, down[i].id)
            BY <4>6, <5>1 DEF DueInv
          <6> QED BY <4>1, <6>1 DEF Due, Ended
        <5>5. down[i].id > Line[1].id
          BY <1>0, <4>3, <5>1, <5>2, <5>3
        <5>6. /\ Line[1].id >= calls - missing + 1 /\ Line[1].id \in Int
              /\ calls - missing + 1 \in Int /\ down[i].id \in Int
          BY <1>0, <4>3, <5>2
        <5>7. down[i].id > calls - missing + 1
          BY <5>5, <5>6
        <5> QED BY <4>4, <5>1, <5>4, <5>7
      <4> QED BY <4>1, <4>5, <4>6 DEF DueInv, Due
    <3>6. CASE Fails
      BY <2>1, <3>6 DEF Fails, Ended
    <3> QED BY <2>4, <3>1, <3>2, <3>3, <3>4, <3>5, <3>6
  <2> QED BY <1>2, <2>3, <2>4, HostSource
<1> QED BY <1>1, <1>2

-----------------------------------------------------------------------------
\* A step that ends on a clean link with no restart was taken there, and it is
\* not one that loses anything.
LEMMA SteadyStep ==
  ASSUME TypeOK, HostFacts \/ McuFacts, Steady'
  PROVE  /\ Steady
         /\ McuFacts => Accepts \/ Refuses \/ Reports \/ Notes \/ ShutsDown
<1>1. restarts \in Nat
  BY DEF TypeOK
<1>2. HostFacts => Steady
  BY DEF HostFacts, Steady, Clean
<1>3. CASE McuFacts
  <2>1. Clean /\ restarts' = 0
    BY <1>3 DEF McuFacts, Steady, Clean
  <2>2. ~Restarts
    BY <1>1, <2>1 DEF Restarts
  <2>3. ~LosesReply /\ ~LosesCommand
    BY <2>1 DEF LosesReply, LosesCommand
  <2>4. Accepts \/ Refuses \/ Reports \/ Notes \/ ShutsDown
    BY <1>3, <2>2, <2>3 DEF McuFacts
  <2>5. restarts' = restarts
    BY <2>4 DEF Accepts, Refuses, Reports, Notes, ShutsDown
  <2> QED BY <2>1, <2>4, <2>5 DEF Steady
<1> QED BY <1>2, <1>3

\* There every command has the number the MCU expects.
LEMMA NoRefusal ==
  ASSUME TypeOK, ChunksInv, HostInv, DownInv, InStepInv, Steady
  PROVE  ~Refuses
BY FirstFrame DEF Refuses, InStepInv

\* Every step keeps InStepInv.
LEMMA InStepStep ==
  ASSUME TypeOK, TypeOK', ChunksInv, HostInv, DownInv, TakenInv, InStepInv,
         HostFacts \/ McuFacts
  PROVE  InStepInv'
<1> SUFFICES ASSUME Steady'
             PROVE  /\ expected' = (Seen' + 1) % SeqCount
                    /\ taken' = 1 .. Seen' - Chunks
                    /\ \A i \in 1 .. Len(Line') : Line'[i].name \in Words => halted'
  BY DEF InStepInv
<1>0. /\ Steady /\ expected = (Seen + 1) % SeqCount /\ taken = 1 .. Seen - Chunks
      /\ \A i \in 1 .. Len(Line) : Line[i].name \in Words => halted
  BY SteadyStep DEF InStepInv
<1>1. CASE HostFacts
  <2>1. Seen' = Seen /\ UNCHANGED <<expected, taken, halted>>
    BY <1>1, HostSeen DEF HostFacts
  <2>2. \A i \in 1 .. Len(Line') : \E j \in 1 .. Len(Line) : Line'[i] = Line[j]
    BY <1>1, HostSource
  <2> QED BY <1>0, <2>1, <2>2
<1>2. CASE McuFacts
  <2>0. Len(Line) \in Nat /\ Seen \in Int /\ Chunks \in Nat /\ Len(down) \in Nat
    BY Lengths, SeenType, Constants
  <2>1. Sent' = Sent
    BY <1>2, McuSent
  <2>2. CASE Accepts
    <3>1. /\ Len(down) > 0 /\ down[1].seq = expected /\ expected' = Next1(expected)
          /\ Len(down') = Len(down) - 1 /\ halted' = halted
      BY <2>2 DEF Accepts, DownShift
    <3>2. Seen' = Seen + 1
      BY <2>0, <2>1, <3>1, SeenType DEF Seen
    <3>3. Seen + 1 \in Nat
      BY SeenType DEF DownInv
    <3>4. expected' = (Seen' + 1) % SeqCount
      BY <1>0, <3>1, <3>2, <3>3, ModNext
    <3>5. taken' = 1 .. Seen + 1 - Chunks
      <4>1. CASE down[1].cmd = "identify"
        <5>1. taken' = taken /\ Seen + 1 <= Chunks
          BY <2>0, <2>2, <3>1, <4>1, FirstFrame DEF Accepts
        <5>2. 1 .. Seen - Chunks = {} /\ 1 .. Seen + 1 - Chunks = {}
          BY <2>0, <5>1
        <5> QED BY <1>0, <5>1, <5>2
      <4>2. CASE down[1].cmd # "identify"
        <5>1. /\ taken' = taken \cup {down[1].id}
              /\ down[1].id = Seen + 1 - Chunks /\ Seen + 1 - Chunks > 0
          BY <2>2, <3>1, <4>2, FirstFrame DEF Accepts
        <5>2. /\ (1 .. Seen - Chunks) \cup {Seen + 1 - Chunks} = 1 .. Seen + 1 - Chunks
          BY <2>0, <5>1
        <5> QED BY <1>0, <5>1, <5>2
      <4> QED BY <4>1, <4>2
    <3>6. ASSUME NEW i \in 1 .. Len(Line'), Line'[i].name \in Words
          PROVE  halted'
      <4>1. CASE i \in 1 .. Len(Line)
        BY <1>0, <2>2, <3>1, <3>6, <4>1 DEF Accepts, LineGrow
      <4>2. CASE i \notin 1 .. Len(Line)
        <5>1. \/ i = Len(Line) + 1
              \/ i = Len(Line) + 2 /\ LineGrow(2)
          BY <2>0, <2>2, <4>2 DEF Accepts, LineGrow
        <5>2. CASE halted
          BY <3>1, <5>2
        <5>3. CASE ~halted
          <6>1. CASE /\ Line'[Len(Line) + 2].name = "ack"
                     /\ Line'[Len(Line) + 1].name = IF down[1].cmd = "identify"
                                                   THEN "identify_response" ELSE down[1].cmd
                     /\ down[1].cmd \in Requests \cup {"identify"}
            BY <3>6, <5>1, <6>1 DEF Words, Requests
          <6>2. CASE LineGrow(1) /\ Line'[Len(Line) + 1].name = "ack"
            <7>1. i = Len(Line) + 1
              BY <2>0, <5>1, <6>2 DEF LineGrow
            <7> QED BY <3>6, <6>2, <7>1 DEF Words
          <6> QED BY <2>2, <5>3, <6>1, <6>2 DEF Accepts
        <5> QED BY <5>2, <5>3
      <4> QED BY <4>1, <4>2
    <3>7. Seen' - Chunks = Seen + 1 - Chunks
      BY <2>0, <3>2
    <3> QED BY <3>4, <3>5, <3>6, <3>7
  <2>3. CASE Reports \/ Notes \/ ShutsDown
    <3>1. Seen' = Seen /\ UNCHANGED <<expected, taken>> /\ (halted => halted') /\ LineGrow(1)
      BY <2>1, <2>3 DEF Reports, Notes, ShutsDown, Seen
    <3>2. ASSUME NEW i \in 1 .. Len(Line'), Line'[i].name \in Words
          PROVE  halted'
      <4>1. CASE i \in 1 .. Len(Line)
        BY <1>0, <3>1, <3>2, <4>1 DEF LineGrow
      <4>2. CASE i \notin 1 .. Len(Line)
        <5>1. i = Len(Line) + 1
          BY <2>0, <3>1, <4>2 DEF LineGrow
        <5> QED BY <2>3, <3>2, <5>1 DEF Reports, Notes, ShutsDown, Words
      <4> QED BY <4>1, <4>2
    <3> QED BY <1>0, <3>1, <3>2
  <2> QED BY <1>0, <1>2, <2>2, <2>3, SteadyStep, NoRefusal
<1> QED BY <1>1, <1>2

-----------------------------------------------------------------------------
\* On a clean link a reply is to a command the MCU has read.
LEMMA ReplySeen ==
  ASSUME TypeOK, TakenInv, ResponseInv, AnswerInv, Clean,
         NEW i \in 1 .. Len(Line), Line[i].name \in Replies
  PROVE  APos(Line[i]) <= Seen /\ APos(Line[i]) \in Nat
<1>0. Seen \in Int /\ Chunks \in Nat /\ Line[i].id \in Nat
  BY SeenType, Constants, LineType
<1>1. CASE Line[i].name = "identify_response"
  BY <1>0, <1>1 DEF ResponseInv, APos
<1>2. CASE Line[i].name # "identify_response"
  <2>1. Line[i].id \in taken
    BY <1>2 DEF AnswerInv, Replies
  <2>2. Line[i].id \in 1 .. Seen - Chunks
    BY <2>1 DEF TakenInv
  <2> QED BY <1>0, <1>2, <2>2 DEF APos
<1> QED BY <1>1, <1>2

\* More commands on the line than before are more commands sent.
LEMMA NextSent ==
  ASSUME TypeOK, TypeOK', Seen' = Seen, Len(down') > Len(down)
  PROVE  Seen < Sent'
<1>1. Seen \in Int /\ Len(down) \in Nat
  BY SeenType
<1>2. PICK d \in Nat : Len(down') = d
  BY NextLengths
<1>3. PICK s \in Int : Sent' = s
  <2>1. (TypeOK => Sent \in Int)'
    BY SeenType, PTL
  <2> QED BY <2>1
<1>4. Seen' = s - d
  BY <1>2, <1>3 DEF Seen
<1> QED BY <1>1, <1>2, <1>3, <1>4

\* Every step keeps AckInv.
LEMMA AckStep ==
  ASSUME TypeOK, TypeOK', ChunksInv, HostInv, DownInv, TakenInv, ResponseInv,
         AnswerInv, DueInv,
         InStepInv, AckInv, HostFacts \/ McuFacts
  PROVE  AckInv'
<1> SUFFICES ASSUME Steady'
             PROVE  /\ pc' = "idle" /\ ~halted' => Lag1'
                    /\ pc' = "send" /\ ~halted' => Lag2'
                    /\ \A i \in 1 .. Len(Line') :
                         Line'[i].name \in Replies /\ APos(Line'[i]) = Sent' =>
                           \A j, k \in Acks' : i < j /\ i < k => j = k
  BY DEF AckInv, APos
<1>0. /\ Steady /\ Clean
      /\ Len(Line) \in Nat /\ Len(Line') \in Nat /\ Len(down) \in Nat
      /\ Len(down') \in Nat
      /\ Seen \in Int /\ Sent \in Int /\ Seen + Len(down) = Sent
      /\ Chunks \in Nat /\ calls \in Nat
  BY SteadyStep, Lengths, NextLengths, SeenType, Constants DEF Steady, TypeOK
<1>1. /\ pc = "idle" /\ ~halted => Lag1
      /\ pc = "send" /\ ~halted => Lag2
      /\ \A i \in 1 .. Len(Line) : Line[i].name \in Replies /\ APos(Line[i]) = Sent =>
           \A j, k \in Acks : i < j /\ i < k => j = k
  BY <1>0 DEF AckInv
<1>2. \A i \in 1 .. Len(Line) : Line[i].name \in Replies => APos(Line[i]) <= Seen
  BY <1>0, ReplySeen
<1>3. Acks \subseteq Nat /\ Acks' \subseteq Nat
  BY <1>0 DEF Acks
<1>4. CASE HostFacts
  <2>1. halted' = halted /\ Seen' = Seen
    BY <1>4, HostSeen DEF HostFacts
  <2>2. CASE Line' = Line /\ (Identifies \/ Sends \/ Bursts \/ Expires \/ Reads)
    <3>0. Acks' = Acks
      BY <2>2 DEF Acks
    <3>1. CASE Identifies \/ Sends \/ Bursts
      <4>1. \A i \in 1 .. Len(Line') :
              ~(Line'[i].name \in Replies /\ APos(Line'[i]) = Sent')
        <5>1. \E n \in Nat \ {0} : DownGrow(n)
          BY <3>1, Constants DEF Identifies, Sends, Bursts
        <5>2. Len(down') > Len(down)
          BY <1>0, <5>1 DEF DownGrow
        <5>3. Seen < Sent'
          BY <1>0, <2>1, <5>2, NextSent
        <5> QED BY <1>0, <1>2, <2>2, <5>3, ReplySeen
      <4>2. CASE pc' = "send" /\ ~halted'
        <5>1. Lag1 /\ Len(down') = Len(down) + 1
          BY <1>1, <2>1, <3>1, <4>2 DEF Identifies, Sends, Bursts, DownGrow
        <5>2. Lag2'
          BY <1>0, <1>3, <3>0, <5>1 DEF Lag1, Lag2
        <5> QED BY <4>1, <4>2, <5>2
      <4>3. pc' # "idle"
        BY <3>1 DEF Identifies, Sends, Bursts
      <4> QED BY <4>1, <4>2, <4>3
    <3>2. CASE Expires \/ Reads
      <4>1. down' = down /\ Sent' = Sent /\ (pc' = "idle" => pc = "idle") /\ (pc' = "send" => pc = "send")
        BY <3>2 DEF Expires, Reads, Sent, Calls
      <4> QED BY <1>1, <2>1, <2>2, <3>0, <4>1 DEF Lag1, Lag2
    <3> QED BY <2>2, <3>1, <3>2
  <2>3. CASE /\ Takes
             /\ Chunk \/ LastChunk \/ Skips \/ Returns \/ Counts \/ Acked \/ Halts \/ Fails
             /\ Len(Line) > 0 /\ Len(Line') = Len(Line) - 1
             /\ \A k \in 1 .. Len(Line') : Line'[k] = Line[k + 1] /\ k + 1 \in 1 .. Len(Line)
    <3>0. /\ \A k \in Acks' : k \in Nat /\ k > 0 /\ k + 1 \in Acks
          /\ 1 \in 1 .. Len(Line)
      BY <1>0, <2>3 DEF Acks
    <3>1. ASSUME Sent' = Sent, NEW i \in 1 .. Len(Line'),
                 Line'[i].name \in Replies, APos(Line'[i]) = Sent',
                 NEW j \in Acks', NEW k \in Acks', i < j, i < k
          PROVE  j = k
      <4>1. i + 1 \in 1 .. Len(Line) /\ Line'[i] = Line[i + 1]
        BY <2>3
      <4>2. /\ j + 1 \in Acks /\ k + 1 \in Acks /\ i + 1 < j + 1
            /\ i + 1 < k + 1 /\ j \in Nat /\ k \in Nat
        BY <3>0, <3>1
      <4>3. j + 1 = k + 1
        BY <1>1, <3>1, <4>1, <4>2
      <4> QED BY <4>2, <4>3
    <3>2. ASSUME Line[1].name \in Replies, APos(Line[1]) = Sent, Len(down') = 0
          PROVE  Lag1'
      <4>1. \A j, k \in Acks' : j = k
        <5> SUFFICES ASSUME NEW j \in Acks', NEW k \in Acks' PROVE j = k
          OBVIOUS
        <5>1. /\ j + 1 \in Acks /\ k + 1 \in Acks /\ 1 < j + 1 /\ 1 < k + 1
              /\ j \in Nat /\ k \in Nat
          BY <3>0
        <5>2. j + 1 = k + 1
          BY <1>1, <3>0, <3>2, <5>1
        <5> QED BY <5>1, <5>2
      <4>2. down' = <<>>
        BY <3>2 DEF TypeOK
      <4> QED BY <3>2, <4>1, <4>2 DEF Lag1
    <3>3. CASE Chunk
      <4>0. Len(down') > Len(down)
        BY <1>0, <3>3 DEF Chunk, DownGrow
      <4>1. Seen < Sent'
        BY <1>0, <2>1, <4>0, NextSent
      <4>2. ASSUME NEW i \in 1 .. Len(Line'), Line'[i].name \in Replies, APos(Line'[i]) = Sent'
            PROVE  FALSE
        <5>1. Line'[i] = Line[i + 1] /\ i + 1 \in 1 .. Len(Line)
          BY <2>3
        <5>2. APos(Line[i + 1]) <= Seen /\ APos(Line[i + 1]) \in Nat
          BY <1>0, <4>2, <5>1, ReplySeen
        <5>3. Sent' \in Nat /\ Sent' <= Seen
          BY <4>2, <5>1, <5>2
        <5> QED BY <1>0, <4>1, <5>3
      <4> QED BY <3>3, <4>2 DEF Chunk
    <3>4. CASE LastChunk
      <4>1. /\ Line[1].name = "identify_response" /\ Line[1].id = Chunks
            /\ down' = down
            /\ pc' = "idle" /\ Sent = Chunks
        BY <1>0, <3>4 DEF LastChunk, HostInv, Sent, Takes
      <4>2. Line[1].name \in Replies /\ APos(Line[1]) = Sent
        BY <4>1 DEF Replies, APos
      <4>3. Len(down') = 0
        BY <1>0, <1>2, <3>0, <4>1, <4>2
      <4>4. Sent' = Sent
        BY <3>4 DEF LastChunk, Takes, Sent
      <4> QED BY <3>1, <3>2, <4>1, <4>2, <4>3, <4>4
    <3>5. CASE Returns
      <4>1. Line[1].name \in Replies /\ APos(Line[1]) = Sent /\ Len(down) = 0
        BY <3>5, ReturnFacts DEF Replies, APos, Requests
      <4>2. down' = down /\ Sent' = Sent /\ pc' = "idle"
        BY <3>5 DEF Returns, Gives, Takes, Sent
      <4> QED BY <3>1, <3>2, <4>1, <4>2
    <3>6. CASE Acked
      <4>1. /\ pc = "send" /\ Line[1].name = "ack" /\ down' = down
            /\ Sent' = Sent /\ pc' = "idle"
        BY <3>6 DEF Acked, Takes, Sent
      <4>2. 1 \in Acks
        BY <3>0, <4>1 DEF Acks
      <4>3. ASSUME ~halted
            PROVE  Lag1'
        <5>1. Lag2
          BY <1>1, <4>1, <4>3
        <5>2. Len(down') <= 1
          BY <4>1, <4>2, <5>1 DEF Lag2
        <5>3. Acks' # {} => down' = <<>>
          BY <3>0, <4>1, <4>2, <5>1 DEF Lag2
        <5>4. ASSUME NEW j \in Acks', NEW k \in Acks', j < k
              PROVE  FALSE
          <6>1. /\ 1 \in Acks /\ j + 1 \in Acks /\ k + 1 \in Acks /\ 1 < j + 1
                /\ j + 1 < k + 1
            BY <3>0, <4>2, <5>4
          <6> QED BY <5>1, <6>1 DEF Lag2
        <5>5. \A j, k \in Acks' : j = k
          BY <1>3, <5>4
        <5> QED BY <5>2, <5>3, <5>5 DEF Lag1
      <4> QED BY <2>1, <3>1, <4>1, <4>3
    <3>7. CASE Skips
      <4>1. pc' = pc /\ pc # "idle" /\ down' = down /\ Sent' = Sent
            /\ (pc = "send" => Line[1].name # "ack")
        BY <3>7 DEF Skips, Takes, Sent
      <4>2. ASSUME pc = "send", ~halted
            PROVE  Lag2'
        <5>1. Lag2
          BY <1>1, <4>2
        <5>2. Acks' # {} => Acks # {}
          BY <3>0
        <5>3. ASSUME NEW i \in Acks', NEW j \in Acks', i < j
              PROVE  i + 1 \in Acks /\ j + 1 \in Acks /\ i + 1 < j + 1
          BY <3>0, <5>3
        <5>4. Len(down') <= 2 /\ (Acks' # {} => Len(down') <= 1)
          BY <4>1, <5>1, <5>2 DEF Lag2
        <5>5. (\E i, j \in Acks' : i < j) => down' = <<>>
          BY <4>1, <5>1, <5>3 DEF Lag2
        <5>6. \A i, j, k \in Acks' : ~(i < j /\ j < k)
          BY <5>1, <5>3 DEF Lag2
        <5> QED BY <5>4, <5>5, <5>6 DEF Lag2
      <4> QED BY <2>1, <3>1, <4>1, <4>2
    <3>8. CASE Counts
      <4>1. pc' = "burst" /\ Sent' = Sent
        BY <3>8 DEF Counts, Takes, Sent
      <4> QED BY <3>1, <4>1
    <3>9. CASE Halts
      <4>1. Line[1].name \in Words /\ pc' # "send" /\ Sent' = Sent
        BY <3>9 DEF Halts, Takes, Sent
      <4>2. halted'
        BY <1>0, <2>1, <3>0, <4>1 DEF InStepInv
      <4> QED BY <3>1, <4>1, <4>2
    <3>10. CASE Fails
      <4>1. pc' \notin {"idle", "send"} /\ Sent' = Sent
        BY <3>10 DEF Fails, Takes, Sent
      <4> QED BY <3>1, <4>1
    <3> QED BY <2>3, <3>3, <3>4, <3>5, <3>6, <3>7, <3>8, <3>9, <3>10
  <2> QED BY <1>4, <2>2, <2>3, HostSource
<1>5. CASE McuFacts
  <2>1. Sent' = Sent /\ pc' = pc
    BY <1>5, McuSent DEF McuFacts
  <2>2. CASE Accepts
    <3>1. /\ Len(down) > 0 /\ Len(down') = Len(down) - 1 /\ halted' = halted
      BY <2>2 DEF Accepts, DownShift
    <3>2. /\ Len(Line') \in {Len(Line) + 1, Len(Line) + 2}
          /\ \A i \in 1 .. Len(Line) : Line'[i] = Line[i]
          /\ Line'[Len(Line')].name = "ack"
          /\ Len(Line') = Len(Line) + 2 => Line'[Len(Line) + 1].name # "ack"
      BY <1>0, <2>2 DEF Accepts, LineGrow, Requests
    <3>3. Acks' = Acks \cup {Len(Line')} /\ \A i \in Acks : i < Len(Line')
      <4>1. \A i \in 1 .. Len(Line') : i \in 1 .. Len(Line) \/ i = Len(Line')
                                       \/ (i = Len(Line) + 1 /\ Len(Line') = Len(Line) + 2)
        BY <1>0, <3>2
      <4>2. Len(Line') \in 1 .. Len(Line') /\ \A i \in 1 .. Len(Line) : i \in 1 .. Len(Line') /\ i < Len(Line')
        BY <1>0, <3>2
      <4> QED BY <3>2, <4>1, <4>2 DEF Acks
    <3>4. pc = "idle" /\ ~halted => Lag1'
      <4> SUFFICES ASSUME pc = "idle", ~halted PROVE Lag1'
        OBVIOUS
      <4>1. Len(down) <= 1 /\ down # <<>> /\ Acks = {}
        BY <1>1, <3>1 DEF Lag1
      <4>2. Len(down') = 0
        BY <1>0, <3>1, <4>1
      <4>3. down' = <<>>
        BY <4>2 DEF TypeOK
      <4> QED BY <3>3, <4>1, <4>2, <4>3 DEF Lag1
    <3>5. pc = "send" /\ ~halted => Lag2'
      <4> SUFFICES ASSUME pc = "send", ~halted PROVE Lag2'
        OBVIOUS
      <4>1. Len(down) <= 2 /\ (Acks # {} => Len(down) <= 1) /\ \A i, j \in Acks : ~(i < j)
        BY <1>1, <3>1 DEF Lag2
      <4>2. Len(down') <= 1
        BY <1>0, <3>1, <4>1
      <4>3. Acks # {} => down' = <<>>
        <5>1. Acks # {} => Len(down') = 0
          BY <1>0, <3>1, <4>1
        <5> QED BY <5>1 DEF TypeOK
      <4>4. (\E i, j \in Acks' : i < j) => Acks # {}
        BY <1>0, <3>3
      <4>5. \A i, j, k \in Acks' : ~(i < j /\ j < k)
        <5> SUFFICES ASSUME NEW i \in Acks', NEW j \in Acks', NEW k \in Acks', i < j, j < k
                     PROVE  FALSE
          OBVIOUS
        <5>1. i \in Nat /\ j \in Nat /\ k \in Nat
          BY <1>3
        <5>2. \A m \in Acks' : m <= Len(Line')
          BY DEF Acks
        <5>3. i # Len(Line') /\ j # Len(Line')
          BY <1>0, <5>1, <5>2
        <5> QED BY <3>3, <4>1, <5>3
      <4> QED BY <1>0, <4>2, <4>3, <4>4, <4>5 DEF Lag2
    <3>6. ASSUME NEW i \in 1 .. Len(Line'), Line'[i].name \in Replies, APos(Line'[i]) = Sent',
                 NEW j \in Acks', NEW k \in Acks', i < j, i < k
          PROVE  j = k
      <4>1. i \notin 1 .. Len(Line)
        BY <1>0, <1>2, <2>1, <3>1, <3>2, <3>6
      <4>2. \A m \in Acks : m <= Len(Line)
        BY <1>0 DEF Acks
      <4>3. i > Len(Line)
        BY <1>0, <4>1
      <4>4. \A m \in Acks' : i < m => m = Len(Line')
        BY <1>0, <1>3, <3>3, <4>2, <4>3
      <4> QED BY <3>6, <4>4
    <3> QED BY <2>1, <3>1, <3>4, <3>5, <3>6
  <2>3. CASE Reports \/ Notes \/ ShutsDown
    <3>1. /\ LineGrow(1) /\ down' = down /\ Line'[Len(Line) + 1].name # "ack"
          /\ ~halted' => ~halted
      BY <2>3 DEF Reports, Notes, ShutsDown
    <3>2. \A i \in 1 .. Len(Line') : i \in 1 .. Len(Line) \/ i = Len(Line) + 1
      BY <1>0, <3>1 DEF LineGrow
    <3>3. Acks' = Acks
      <4>1. \A i \in 1 .. Len(Line) : i \in 1 .. Len(Line') /\ Line'[i] = Line[i]
        BY <1>0, <3>1 DEF LineGrow
      <4> QED BY <3>1, <3>2, <4>1 DEF Acks
    <3>4. ASSUME NEW i \in 1 .. Len(Line'), Line'[i].name \in Replies, APos(Line'[i]) = Sent',
                 NEW j \in Acks', NEW k \in Acks', i < j, i < k
          PROVE  j = k
      <4>1. i \in 1 .. Len(Line)
        BY <1>0, <3>2, <3>3, <3>4 DEF Acks
      <4>2. Line'[i] = Line[i]
        BY <3>1, <4>1 DEF LineGrow
      <4> QED BY <1>1, <2>1, <3>3, <3>4, <4>1, <4>2
    <3>5. /\ pc = "idle" /\ ~halted' => Lag1'
          /\ pc = "send" /\ ~halted' => Lag2'
      BY <1>1, <3>1, <3>3 DEF Lag1, Lag2
    <3> QED BY <2>1, <3>4, <3>5
  <2> QED BY <1>0, <1>5, <2>2, <2>3, SteadyStep, NoRefusal
<1> QED BY <1>4, <1>5

-----------------------------------------------------------------------------
\* A command the MCU accepted without running it stays one.
LEMMA RefusedStays ==
  ASSUME TypeOK, TypeOK', ChunksInv, HostInv, DownInv, InStepInv, Steady,
         McuFacts, Accepts \/ Reports \/ Notes \/ ShutsDown, Refused
  PROVE  Refused'
<1>1. want' = want /\ calls' = calls
  BY DEF McuFacts
<1>2. CASE Accepts
  <2>1. Seen \in Int /\ Chunks \in Nat /\ calls \in 1 .. Seen - Chunks
    BY SeenType, Constants DEF Refused, InStepInv
  <2>2. calls \notin ran'
    <3>1. CASE down[1].cmd = "identify"
      BY <1>2, <3>1 DEF Accepts, Refused
    <3>2. CASE down[1].cmd # "identify"
      <4>1. down[1].id = Seen + 1 - Chunks
        BY <1>2, <3>2, FirstFrame DEF Accepts
      <4> QED BY <1>2, <2>1, <4>1 DEF Accepts, Refused
    <3> QED BY <3>1, <3>2
  <2>3. calls \in taken'
    BY <1>2 DEF Accepts, Refused
  <2> QED BY <1>1, <2>2, <2>3 DEF Refused
<1>3. CASE Reports \/ Notes \/ ShutsDown
  BY <1>1, <1>3 DEF Reports, Notes, ShutsDown, Refused
<1> QED BY <1>2, <1>3

\* Nothing the host waits for is lost on its way.
LEMMA ComingHost ==
  ASSUME TypeOK, TypeOK', ChunksInv, HostInv, DownInv, TakenInv, AnswerInv,
         DueInv,
         Coming, Clean, Expired, HostFacts
  PROVE  Coming' /\ Expired'
<1>0. /\ Len(Line) \in Nat /\ Len(down) \in Nat /\ Len(down') \in Nat
      /\ calls \in Nat /\ missing \in Int
      /\ Seen \in Int /\ Chunks \in Nat
  BY Lengths, NextLengths, SeenType, Constants DEF TypeOK
<1>1. armed' = armed /\ taken' = taken /\ ran' = ran
  BY DEF HostFacts
<1>2. CASE Line' = Line /\ (Identifies \/ Sends \/ Bursts \/ Expires \/ Reads)
  <2>1. CASE Identifies
    <3>1. pc' = "identify" /\ Len(down') > 0
      BY <1>0, <2>1 DEF Identifies, DownGrow
    <3>2. down' # <<>>
      BY <1>0, <3>1
    <3> QED BY <3>1, <3>2 DEF Coming, Expired
  <2>2. CASE Sends
    <3>1. /\ Len(down') = Len(down) + 1 /\ Len(down') > 0
          /\ \/ pc' = "request" /\ down'[Len(down')].cmd = want'
             \/ pc' = "send"
             \/ pc' = "report" /\ down'[Len(down')].cmd = "query"
      BY <1>0, <2>2 DEF Sends, DownGrow
    <3>2. down' # <<>>
      BY <1>0, <3>1
    <3> QED BY <3>1, <3>2 DEF Coming, LastDown, Expired
  <2>3. CASE Bursts
    <3>1. pc' = "burst" /\ calls' = calls + BurstSize /\ missing' = BurstSize
          /\ Len(down') = Len(down) + BurstSize
      BY <2>3 DEF Bursts, DownGrow
    <3>2. calls' - missing' + 1 = calls + 1 /\ BurstSize \in Nat
      BY <1>0, <3>1, Constants
    <3>3. ASSUME NEW k \in calls + 1 .. calls + BurstSize
          PROVE  \E i \in 1 .. Len(down') : down'[i].cmd = "clock" /\ down'[i].id = k
      <4> DEFINE j == k - calls
      <4>1. /\ j \in 1 .. BurstSize /\ k = calls + j
            /\ Len(down) + j \in 1 .. Len(down')
        BY <1>0, <3>1, <3>2
      <4> HIDE DEF j
      <4>2. /\ down'[Len(down) + j].cmd = "clock"
            /\ down'[Len(down) + j].id = calls + j
        BY <2>3, <4>1 DEF Bursts
      <4> QED BY <4>1, <4>2
    <3> QED BY <3>1, <3>2, <3>3 DEF Coming, Expired
  <2>4. CASE Expires
    <3>0. /\ pc \in Calls \cup {"identify"}
          /\ data = <<>> /\ up = <<>> /\ down = <<>> /\ armed = {}
      BY <2>4 DEF Expires
    <3>1. Len(Line) = 0 /\ Len(down) = 0 /\ down = <<>> /\ armed = {}
      BY <3>0, Lengths
    <3>2. \A name : ~InLine(name)
      BY <3>1 DEF InLine
    <3>3. pc = "burst" \/ (pc = "request" /\ Refused)
      BY <3>0, <3>1, <3>2 DEF Coming, LastDown, Calls
    <3>4. pc # "burst"
      <4>1. pc = "burst" => calls \in calls - missing + 1 .. calls
        BY <1>0, Constants DEF HostInv
      <4> QED BY <3>1, <4>1 DEF Coming
    <3>5. Refused' /\ pc' = "timed out"
      BY <1>1, <2>4, <3>3, <3>4 DEF Expires, Refused
    <3> QED BY <3>5 DEF Coming, Expired
  <2>5. CASE Reads
    <3>1. UNCHANGED <<pc, want, missing, calls, down>>
      BY <2>5 DEF Reads
    <3> QED BY <1>1, <1>2, <3>1 DEF Coming, LastDown, InLine, Expired, Refused
  <2> QED BY <1>2, <2>1, <2>2, <2>3, <2>4, <2>5
<1>3. CASE /\ Takes
           /\ Chunk \/ LastChunk \/ Skips \/ Returns \/ Counts \/ Acked \/ Halts \/ Fails
           /\ Len(Line) > 0 /\ Len(Line') = Len(Line) - 1
           /\ \A k \in 1 .. Len(Line') : Line'[k] = Line[k + 1] /\ k + 1 \in 1 .. Len(Line)
  <2>0. ASSUME NEW i \in 1 .. Len(Line), i # 1
        PROVE  \E j \in 1 .. Len(Line') : Line'[j] = Line[i]
    <3>1. i - 1 \in 1 .. Len(Line') /\ (i - 1) + 1 = i
      BY <1>0, <1>3, <2>0
    <3> QED BY <1>3, <3>1
  <2>1. CASE Chunk
    <3>1. pc' = "identify" /\ Len(down') > 0
      BY <1>0, <2>1 DEF Chunk, DownGrow
    <3>2. down' # <<>>
      BY <1>0, <3>1
    <3> QED BY <3>1, <3>2 DEF Coming, Expired
  <2>2. CASE LastChunk \/ Returns \/ Acked \/ Halts
    <3>1. pc' = "idle"
      BY <2>2 DEF LastChunk, Returns, Gives, Acked, Halts
    <3> QED BY <3>1 DEF Coming, Expired
  <2>3. CASE Fails
    <3>1. pc' \in {"raised", "offset mismatch"}
      BY <2>3 DEF Fails
    <3> QED BY <3>1 DEF Coming, Expired
  <2>4. CASE Skips
    <3>1. UNCHANGED <<pc, want, missing, calls, down>>
      BY <1>3, <2>4 DEF Skips, Takes
    <3>2. \A name : InLine(name) /\ Line[1].name # name => InLine(name)'
      BY <2>0 DEF InLine
    <3>3. CASE pc = "identify"
      <4>1. down' # <<>> \/ InLine("identify_response")'
        BY <2>4, <3>1, <3>2, <3>3 DEF Coming, Skips
      <4> QED BY <3>1, <3>3, <4>1 DEF Coming, Expired
    <3>4. CASE pc = "request"
      <4>1. Line[1].name # want /\ (LastDown(want) \/ InLine(want) \/ Refused)
        BY <2>4, <3>4 DEF Coming, Skips
      <4>2. LastDown(want)' \/ InLine(want)' \/ Refused'
        BY <1>1, <2>0, <3>1, <4>1 DEF LastDown, InLine, Refused
      <4> QED BY <3>1, <3>4, <4>2 DEF Coming, Expired
    <3>5. CASE pc = "send"
      <4>1. down' # <<>> \/ InLine("ack")'
        BY <2>4, <3>1, <3>2, <3>5 DEF Coming, Skips
      <4> QED BY <3>1, <3>5, <4>1 DEF Coming, Expired
    <3>6. CASE pc = "report"
      <4>1. /\ Line[1].name # "shutdown" /\ Line[1].name # "is_shutdown"
            /\ ~(Line[1].name = "report" /\ Line[1].id = calls)
        BY <2>4, <3>6 DEF Skips
      <4>2. CASE LastDown("query") \/ calls \in armed
        BY <1>1, <3>1, <3>6, <4>2 DEF Coming, LastDown, Expired
      <4>3. CASE InLine("shutdown") \/ InLine("is_shutdown")
        BY <3>1, <3>2, <3>6, <4>1, <4>3 DEF Coming, Expired
      <4>4. CASE \E i \in 1 .. Len(Line) : Line[i].name = "report" /\ Line[i].id = calls
        <5>1. \E j \in 1 .. Len(Line') : Line'[j].name = "report" /\ Line'[j].id = calls
          BY <2>0, <4>1, <4>4
        <5> QED BY <3>1, <3>6, <5>1 DEF Coming, Expired
      <4> QED BY <3>6, <4>2, <4>3, <4>4 DEF Coming
    <3>7. CASE pc = "burst"
      <4>1. Line[1].name # "clock"
        BY <2>4, <3>7 DEF Skips
      <4>2. ASSUME NEW k \in calls - missing + 1 .. calls
            PROVE  \/ \E i \in 1 .. Len(down') : down'[i].cmd = "clock" /\ down'[i].id = k
                   \/ \E i \in 1 .. Len(Line') : Line'[i].name = "clock" /\ Line'[i].id = k
        <5>1. CASE \E i \in 1 .. Len(down) : down[i].cmd = "clock" /\ down[i].id = k
          BY <3>1, <5>1
        <5>2. CASE \E i \in 1 .. Len(Line) : Line[i].name = "clock" /\ Line[i].id = k
          BY <2>0, <4>1, <5>2
        <5> QED BY <3>7, <5>1, <5>2 DEF Coming
      <4> QED BY <3>1, <3>7, <4>2 DEF Coming, Expired
    <3> QED BY <2>4, <3>3, <3>4, <3>5, <3>6, <3>7 DEF Skips
  <2>5. CASE Counts
    <3>1. /\ pc = "burst" /\ pc' = "burst" /\ calls' = calls /\ missing' = missing - 1
          /\ down' = down /\ Line[1].name = "clock" /\ 1 \in 1 .. Len(Line)
          /\ missing \in Nat /\ missing >= 1
      BY <1>0, <1>3, <2>5, Constants DEF Counts, Takes, HostInv
    <3> DEFINE first == calls - missing + 1
    <3>2. /\ calls' - missing' + 1 = first + 1 /\ first \in first .. calls
          /\ first \in Int
      BY <1>0, <3>1
    <3> HIDE DEF first
    <3>3. ASSUME NEW k \in Int
          PROVE  ~(Line[1].id = k /\ k > first)
      <4>1. /\ Line[1].id \in taken /\ Line[1].id <= Seen - Chunks
            /\ Line[1].id \in Nat
        BY <3>1, LineType DEF AnswerInv, TakenInv, Requests
      <4>2. \/ \E i \in 1 .. Len(down) : down[i].cmd = "clock" /\ down[i].id = first
            \/ \E i \in 1 .. Len(Line) : Line[i].name = "clock" /\ Line[i].id = first
        BY <3>1, <3>2 DEF Coming, first
      <4>3. CASE \E i \in 1 .. Len(down) : down[i].cmd = "clock" /\ down[i].id = first
        <5> PICK i \in 1 .. Len(down) : down[i].cmd = "clock" /\ down[i].id = first
          BY <4>3
        <5>1. Chunks + first = Seen + i
          BY DEF DownInv, Pos
        <5> QED BY <1>0, <3>2, <4>1, <5>1
      <4>4. CASE \E i \in 1 .. Len(Line) : Line[i].name = "clock" /\ Line[i].id = first
        <5> PICK i \in 1 .. Len(Line) : Line[i].name = "clock" /\ Line[i].id = first
          BY <4>4
        <5>1. CASE i = 1
          BY <3>2, <5>1
        <5>2. CASE i # 1
          <6>1. 1 < i
            BY <1>0, <5>2
          <6>2. Line[1].id < Line[i].id
            BY <3>1, <6>1 DEF AnswerInv, Requests
          <6> QED BY <3>2, <4>1, <6>2
        <5> QED BY <5>1, <5>2
      <4> QED BY <4>2, <4>3, <4>4
    <3>4. ASSUME NEW k \in first + 1 .. calls
          PROVE  \/ \E i \in 1 .. Len(down') : down'[i].cmd = "clock" /\ down'[i].id = k
                 \/ \E i \in 1 .. Len(Line') : Line'[i].name = "clock" /\ Line'[i].id = k
      <4>1. k \in first .. calls /\ k > first /\ k \in Int
        BY <1>0, <3>2
      <4>2. CASE \E i \in 1 .. Len(down) : down[i].cmd = "clock" /\ down[i].id = k
        BY <3>1, <4>2
      <4>3. CASE \E i \in 1 .. Len(Line) : Line[i].name = "clock" /\ Line[i].id = k
        BY <2>0, <3>3, <4>1, <4>3
      <4> QED BY <3>1, <4>1, <4>2, <4>3 DEF Coming, first
    <3> QED BY <3>1, <3>2, <3>4 DEF Coming, Expired
  <2> QED BY <1>3, <2>1, <2>2, <2>3, <2>4, <2>5
<1> QED BY <1>2, <1>3, HostSource

\* What the MCU reads it answers, and an answer stays on the line.
LEMMA ComingMcu ==
  ASSUME TypeOK, TypeOK', ChunksInv, HostInv, DownInv, TakenInv, InStepInv, Steady,
         Coming, McuFacts,
         Accepts \/ Reports \/ Notes \/ ShutsDown
  PROVE  Coming'
<1>0. /\ Len(Line) \in Nat /\ Len(down) \in Nat /\ Len(down') \in Nat
      /\ Len(Line') \in Nat
      /\ calls \in Nat /\ missing \in Int /\ Seen \in Int /\ Chunks \in Nat
      /\ Seen + Len(down) = Sent /\ Len(output) \in Nat
  BY Lengths, NextLengths, SeenType, Constants DEF TypeOK
<1>1. UNCHANGED <<pc, want, missing, output, calls>>
  BY DEF McuFacts
<1>2. \A i \in 1 .. Len(Line) : i \in 1 .. Len(Line') /\ Line'[i] = Line[i]
  <2>1. LineGrow(1) \/ LineGrow(2)
    BY DEF Accepts, Reports, Notes, ShutsDown
  <2> QED BY <1>0, <2>1 DEF LineGrow
<1>3. CASE Accepts
  <2>0. /\ Len(down) > 0 /\ Len(down') = Len(down) - 1
        /\ \A i \in 1 .. Len(down') : down'[i] = down[i + 1]
    BY <1>3 DEF Accepts, DownShift
  <2>1. /\ \A i \in 1 .. Len(down) : i # 1 => i - 1 \in 1 .. Len(down') /\ down'[i - 1] = down[i]
        /\ Len(down) > 1 => down' # <<>> /\ down'[Len(down')] = down[Len(down)]
        /\ Len(down) = 1 \/ Len(down) > 1
    BY <1>0, <2>0
  <2>2. /\ \E i \in 1 .. Len(Line') : Line'[i].name = "ack"
        /\ down[1].cmd \in Requests \cup {"identify"}
             /\ ~(down[1].cmd = "neopixel" /\ halted) =>
             \E i \in 1 .. Len(Line') :
                /\ Line'[i].id = down[1].id
                /\ Line'[i].name = IF down[1].cmd = "identify" THEN "identify_response"
                                   ELSE down[1].cmd
        /\ down[1].cmd = "query" /\ halted => \E i \in 1 .. Len(Line') : Line'[i].name = "is_shutdown"
    <3>1. CASE LineGrow(2) /\ Line'[Len(Line) + 2].name = "ack"
      <4>1. Len(Line) + 1 \in 1 .. Len(Line') /\ Len(Line) + 2 \in 1 .. Len(Line')
        BY <1>0, <3>1 DEF LineGrow
      <4> QED BY <1>3, <3>1, <4>1 DEF Accepts, Requests
    <3>2. CASE LineGrow(1) /\ Line'[Len(Line) + 1].name = "ack"
               /\ down[1].cmd \in {"set", "query"} /\ ~halted
      <4>1. Len(Line) + 1 \in 1 .. Len(Line')
        BY <1>0, <3>2 DEF LineGrow
      <4> QED BY <3>2, <4>1 DEF Requests
    <3> QED BY <1>3, <3>1, <3>2 DEF Accepts
  <2>3. CASE pc = "identify"
    <3>1. down[1].cmd = "identify"
      BY <2>0, <2>3, FirstFrame DEF Past, HostInv, Calls
    <3> QED BY <1>1, <2>2, <2>3, <3>1 DEF Coming, InLine
  <2>4. CASE pc = "request"
    <3>0. want \in Requests
      BY <2>4 DEF HostInv
    <3>r. ASSUME Refused PROVE Coming'
      <4>1. Refused'
        BY <3>r, RefusedStays
      <4> QED BY <1>1, <2>4, <4>1 DEF Coming
    <3>1. CASE InLine(want)
      <4>1. \E i \in 1 .. Len(Line') : Line'[i].name = want'
        BY <1>1, <1>2, <3>1 DEF InLine
      <4> QED BY <1>1, <2>4, <4>1 DEF Coming, InLine
    <3>2. CASE LastDown(want)
      <4>1. CASE Len(down) > 1
        <5>1. down' # <<>> /\ down'[Len(down')].cmd = want'
          BY <1>1, <2>1, <3>2, <4>1 DEF LastDown
        <5> QED BY <1>1, <2>4, <5>1 DEF Coming, LastDown
      <4>2. CASE Len(down) = 1 /\ ~(want = "neopixel" /\ halted)
        <5>1. \E i \in 1 .. Len(Line') : Line'[i].name = want'
          BY <1>1, <2>2, <3>0, <3>2, <4>2 DEF LastDown, Requests
        <5> QED BY <1>1, <2>4, <5>1 DEF Coming, InLine
      <4>3. CASE Len(down) = 1 /\ want = "neopixel" /\ halted
        <5>1. down[1].cmd = "neopixel"
          BY <3>2, <4>3 DEF LastDown
        <5>2. down[1].id = Seen + 1 - Chunks /\ down[1].id = calls
          <6>1. down[1].id = Seen + 1 - Chunks /\ Past
            BY <2>0, <5>1, FirstFrame
          <6>2. Sent = Chunks + calls
            BY <2>4, <6>1 DEF Sent, ChunksInv
          <6> QED BY <1>0, <4>3, <6>1, <6>2
        <5>3. calls \notin taken
          BY <1>0, <5>2 DEF TakenInv
        <5>4. calls \in taken' /\ calls \notin ran'
          BY <1>3, <4>3, <5>1, <5>2, <5>3 DEF Accepts, TakenInv
        <5> QED BY <1>1, <2>4, <4>3, <5>4 DEF Coming, Refused
      <4> QED BY <2>1, <4>1, <4>2, <4>3
    <3> QED BY <2>4, <3>1, <3>2, <3>r DEF Coming
  <2>5. CASE pc = "send"
    BY <1>1, <2>2, <2>5 DEF Coming, InLine
  <2>6. CASE pc = "report"
    <3>1. CASE LastDown("query")
      <4>1. CASE Len(down) > 1
        BY <1>1, <2>1, <2>6, <3>1, <4>1 DEF Coming, LastDown
      <4>2. CASE Len(down) = 1
        <5>1. down[1].cmd = "query"
          BY <3>1, <4>2 DEF LastDown
        <5>2. down[1].id = calls
          <6>1. down[1].id = Seen + 1 - Chunks /\ Past
            BY <2>0, <5>1, FirstFrame
          <6>2. Sent = Chunks + calls
            BY <2>6, <6>1 DEF Sent, ChunksInv
          <6> QED BY <1>0, <4>2, <6>1, <6>2
        <5>3. calls \in armed' \/ \E i \in 1 .. Len(Line') : Line'[i].name = "is_shutdown"
          BY <1>3, <2>2, <5>1, <5>2 DEF Accepts
        <5> QED BY <1>1, <2>6, <5>3 DEF Coming, InLine
      <4> QED BY <2>1, <4>1, <4>2
    <3>2. CASE calls \in armed
      BY <1>1, <1>3, <2>6, <3>2 DEF Coming, Accepts
    <3>3. CASE \/ \E i \in 1 .. Len(Line) : Line[i].name = "report" /\ Line[i].id = calls
               \/ InLine("shutdown") \/ InLine("is_shutdown")
      BY <1>1, <1>2, <2>6, <3>3 DEF Coming, InLine
    <3> QED BY <2>6, <3>1, <3>2, <3>3 DEF Coming
  <2>7. CASE pc = "burst"
    <3>1. ASSUME NEW k \in calls - missing + 1 .. calls
          PROVE  \/ \E i \in 1 .. Len(down') : down'[i].cmd = "clock" /\ down'[i].id = k
                 \/ \E i \in 1 .. Len(Line') : Line'[i].name = "clock" /\ Line'[i].id = k
      <4>1. CASE \E i \in 1 .. Len(Line) : Line[i].name = "clock" /\ Line[i].id = k
        BY <1>2, <4>1
      <4>2. CASE \E i \in 1 .. Len(down) : down[i].cmd = "clock" /\ down[i].id = k
        <5> PICK i \in 1 .. Len(down) : down[i].cmd = "clock" /\ down[i].id = k
          BY <4>2
        <5>1. CASE i = 1
          BY <2>2, <5>1 DEF Requests
        <5>2. CASE i # 1
          BY <2>1, <5>2
        <5> QED BY <5>1, <5>2
      <4> QED BY <2>7, <4>1, <4>2 DEF Coming
    <3> QED BY <1>1, <2>7, <3>1 DEF Coming
  <2>8. CASE pc \notin Calls \cup {"identify"}
    BY <1>1, <2>8 DEF Coming, Calls
  <2> QED BY <2>3, <2>4, <2>5, <2>6, <2>7, <2>8 DEF Calls
<1>4. CASE Reports \/ Notes \/ ShutsDown
  <2>1. down' = down
    BY <1>4 DEF Reports, Notes, ShutsDown
  <2>2. \A n \in armed : \/ n \in armed'
                         \/ \E i \in 1 .. Len(Line') :
                              \/ Line'[i].name = "report" /\ Line'[i].id = n
                              \/ Line'[i].name = "shutdown"
    <3>1. Len(Line) + 1 \in 1 .. Len(Line')
      BY <1>0, <1>4 DEF Reports, Notes, ShutsDown, LineGrow
    <3> QED BY <1>4, <3>1 DEF Reports, Notes, ShutsDown
  <2>3. pc = "identify" => down' # <<>> \/ InLine("identify_response")'
    BY <1>2, <2>1 DEF Coming, InLine
  <2>4. pc = "request" => LastDown(want)' \/ InLine(want)' \/ Refused'
    BY <1>1, <1>2, <2>1, RefusedStays DEF Coming, LastDown, InLine
  <2>5. pc = "send" => down' # <<>> \/ InLine("ack")'
    BY <1>2, <2>1 DEF Coming, InLine
  <2>6. ASSUME pc = "report"
        PROVE  \/ LastDown("query")' \/ calls \in armed'
               \/ \E i \in 1 .. Len(Line') : Line'[i].name = "report" /\ Line'[i].id = calls
               \/ InLine("shutdown")' \/ InLine("is_shutdown")'
    BY <1>2, <2>1, <2>2, <2>6 DEF Coming, LastDown, InLine
  <2>7. ASSUME pc = "burst", NEW k \in calls - missing + 1 .. calls
        PROVE  \/ \E i \in 1 .. Len(down') : down'[i].cmd = "clock" /\ down'[i].id = k
               \/ \E i \in 1 .. Len(Line') : Line'[i].name = "clock" /\ Line'[i].id = k
    BY <1>2, <2>1, <2>7 DEF Coming
  <2> QED BY <1>1, <2>3, <2>4, <2>5, <2>6, <2>7 DEF Coming
<1> QED BY <1>3, <1>4

\* Every step keeps ComingInv.
LEMMA ComingStep ==
  ASSUME TypeOK, TypeOK', ChunksInv, HostInv, DownInv, TakenInv, AnswerInv,
         DueInv,
         InStepInv, ComingInv, HostFacts \/ McuFacts
  PROVE  ComingInv'
<1> SUFFICES ASSUME Steady' PROVE Coming' /\ Expired'
  BY DEF ComingInv
<1>1. Steady /\ Clean /\ Coming /\ Expired
  BY SteadyStep DEF ComingInv, Steady
<1>2. CASE HostFacts
  BY <1>1, <1>2, ComingHost
<1>3. CASE McuFacts
  <2>1. Accepts \/ Reports \/ Notes \/ ShutsDown
    BY <1>1, <1>3, SteadyStep, NoRefusal
  <2>2. Expired'
    <3>1. pc' = pc
      BY <1>3 DEF McuFacts
    <3> QED BY <1>1, <1>3, <2>1, <3>1, RefusedStays DEF Expired
  <2> QED BY <1>1, <1>3, <2>1, <2>2, ComingMcu
<1> QED BY <1>2, <1>3

-----------------------------------------------------------------------------
\* Every step keeps the invariant.
LEMMA StepInv == IInv /\ [Next]_vars => IInv'
<1> SUFFICES ASSUME IInv, [Next]_vars PROVE IInv'
  OBVIOUS
<1>1. TypeOK /\ TypeOK'
  BY TypeStep DEF IInv
<1>2. CASE Next
  <2>1. HostFacts \/ McuFacts
    BY <1>1, <1>2, StepFacts
  <2>2. ChunksInv' /\ HostInv' /\ DownInv' /\ TakenInv' /\ TracksInv'
    BY <1>1, <2>1, ChunksStep, HostInvStep, DownStep, TakenStep, TracksStep DEF IInv
  <2>3. ResponseInv' /\ AnswerInv' /\ DueInv' /\ ReplyVouches'
    BY <1>1, <2>1, ResponseStep, AnswerStep, DueStep, VouchesStep DEF IInv
  <2>4. InStepInv' /\ ComingInv' /\ AckInv'
    BY <1>1, <2>1, InStepStep, ComingStep, AckStep DEF IInv
  <2> QED BY <1>1, <2>2, <2>3, <2>4 DEF IInv
<1>3. CASE UNCHANGED vars
  <2> USE <1>3 DEF vars, host, mcu, env
  <2>1. /\ Line' = Line /\ Seen' = Seen /\ Sent' = Sent /\ Past' = Past
        /\ Steady' = Steady
    BY DEF Line, Seen, Sent, Past, Steady, Clean
  <2>2. ChunksInv' /\ HostInv' /\ DownInv' /\ TakenInv' /\ TracksInv'
    BY <2>1 DEF IInv, ChunksInv, HostInv, DownInv, TakenInv, TracksInv,
       TakenThrough, RanThrough, Hid
  <2>3. ResponseInv' /\ AnswerInv' /\ DueInv' /\ ReplyVouches'
    BY <2>1 DEF IInv, ResponseInv, AnswerInv, DueInv, Due, RanThrough, Hid,
       ReplyVouches, Hidden, Clean
  <2>4. InStepInv'
    BY <2>1 DEF IInv, InStepInv
  <2>5. ComingInv'
    <3>1. Coming' = Coming
      BY <2>1 DEF Coming, InLine, LastDown, Refused
    <3>2. Expired' = Expired
      BY DEF Expired, Refused
    <3> QED BY <2>1, <3>1, <3>2 DEF IInv, ComingInv
  <2>6. AckInv'
    <3>1. Acks' = Acks
      BY <2>1 DEF Acks
    <3> QED BY <2>1, <3>1 DEF IInv, AckInv, Lag1, Lag2, APos
  <2> QED BY <1>1, <2>2, <2>3, <2>4, <2>5, <2>6 DEF IInv
<1> QED BY <1>2, <1>3

\* The invariant holds throughout.
THEOREM SessionInductive == Spec => []IInv
BY InitInv, StepInv, PTL DEF Spec

(***************************************************************************)
(* identify returns every chunk once and in order, whatever an earlier     *)
(* session left on the line and whatever is lost (probe_mcu.py:89-99).     *)
(***************************************************************************)
THEOREM SessionDictionaryWhole == Spec => []DictionaryWhole
<1>1. IInv => DictionaryWhole
  <2> SUFFICES ASSUME IInv, pc \notin {"open", "identify"} \cup Ended
               PROVE  output = [i \in 1 .. Chunks |-> i - 1]
    BY DEF DictionaryWhole
  <2>1. Past
    BY DEF IInv, TypeOK, HostInv, Past
  <2>2. Len(output) = Chunks /\ \A i \in 1 .. Chunks : output[i] = i - 1
    BY <2>1 DEF IInv, ChunksInv
  <2>3. output \in [1 .. Chunks -> Nat]
    BY <2>2, LenProperties DEF IInv, TypeOK
  <2> QED BY <2>2, <2>3
<1> QED BY <1>1, SessionInductive, PTL

(***************************************************************************)
(* A reply answers the command of its own call and vouches for all that    *)
(* was sent before it, though the tools look at names only and retransmit  *)
(* nothing (probe_mcu.py:128, hw_test.py:103).                             *)
(***************************************************************************)
THEOREM SessionReplyVouches == Spec => []ReplyVouches
<1>1. IInv => ReplyVouches
  BY DEF IInv
<1> QED BY <1>1, SessionInductive, PTL

(***************************************************************************)
(* On a clean link to an MCU that keeps running, a call that has returned  *)
(* leaves at most its own command unaccepted (probe_mcu.py:147).           *)
(***************************************************************************)
THEOREM SessionSendsLagByOne == Spec => []SendsLagByOne
<1>1. IInv => SendsLagByOne
  <2> SUFFICES ASSUME IInv, Clean, restarts = 0, ~halted, pc = "idle"
               PROVE  1 .. calls - 1 \subseteq taken
    BY DEF SendsLagByOne
  <2>1. Steady /\ Past
    BY DEF Steady, Past
  <2>2. Len(down) <= 1 /\ taken = 1 .. Seen - Chunks
    BY <2>1 DEF IInv, AckInv, Lag1, InStepInv
  <2>3. Sent = Chunks + calls
    BY <2>1 DEF IInv, Sent, ChunksInv
  <2>4. /\ calls \in Nat /\ Chunks \in Nat /\ Seen \in Int /\ Len(down) \in Nat
        /\ Seen + Len(down) = Sent
    BY SeenType, Constants DEF IInv, TypeOK
  <2> QED BY <2>2, <2>3, <2>4
<1> QED BY <1>1, SessionInductive, PTL

(***************************************************************************)
(* On a clean link to an MCU that does not restart, only neopixel_send to  *)
(* an MCU that is shut down can time out: the MCU accepts its command and  *)
(* refuses to run it, and request() skips the word of that                 *)
(* (probe_mcu.py:123-129, 256-265).                                        *)
(***************************************************************************)
THEOREM SessionStaysInStep == Spec => []StaysInStep
<1>1. IInv => StaysInStep
  BY DEF IInv, ComingInv, Expired, Refused, Steady, StaysInStep
<1> QED BY <1>1, SessionInductive, PTL

=============================================================================
