---------------------------- MODULE ConsoleProofs ----------------------------
(***************************************************************************)
(* The console for every length of chunk, reply and window: the task never *)
(* sleeps on output, no byte of a reply is lost, repeated or reordered but *)
(* by a write that came up short, and received bytes wait no longer than   *)
(* the periodic wake.                                                      *)
(***************************************************************************)
EXTENDS Console, SequenceTheorems, TLAPS

TypeInv ==
  /\ sent \in Nat /\ driver_rx \in Seq(Nat) /\ receive_buf \in Seq(Nat)
  /\ transmit_buf \in Seq(Nat) /\ wire \in Seq(Nat) /\ dropped \in SUBSET Nat
  /\ pc \in {"check", "tasks", "io", "report"} /\ todo \in SUBSET TaskList
  /\ waits \in 0 .. PeriodWaits - 1 /\ rx_age \in Nat
  /\ transport \in Transports

\* The pass under way has console_io_task before it.
ToRead == pc = "tasks" /\ "console_io_task" \in todo

\* Waiting output is marked, and the pass that takes it is under way, asked for,
\* or will be by the report of a shutdown.
AwakeInv ==
  transmit_buf # <<>> /\ pc # "report" => tx_pending /\ (requested \/ pc = "io" \/ ToRead)

\* Bytes are no older than the waits since the periodic wake, unless the pass it
\* asked for has yet to read them; a shutdown that cuts the pass short asks again.
ReadComing == pc = "report" \/ ToRead \/ (pc = "check" /\ requested)
AgeInv == rx_age <= PeriodWaits /\ (rx_age <= waits \/ ReadComing)

Input    == receive_buf \o driver_rx
Output   == wire \o transmit_buf
Answered == sent - Len(Input)

\* Commands not yet answered are those after the last one answered.
InputInv ==
  Answered \in Nat /\ \A i \in 1 .. Len(Input) : Input[i] = Answered + i

\* Bytes up to last are each in out, in order, or dropped.
Faithful(out, gone, last) ==
  /\ (Range(out) \cup gone) \ {Report} = 1 .. last
  /\ Range(out) \cap gone \subseteq {Report}
  /\ \A i, j \in 1 .. Len(out) :
       i < j /\ Report \notin {out[i], out[j]} => out[i] < out[j]

OutputInv ==
  Faithful(Output, dropped, LastByte(Answered)) /\ (transport = "uart" => dropped = {})

IInv == TypeInv /\ AwakeInv /\ AgeInv /\ InputInv /\ OutputInv

-----------------------------------------------------------------------------
LEMMA Constants ==
  /\ MessageMax \in Nat /\ MessageMax > 0 /\ ReplyLen \in Nat /\ ReplyLen > 0
  /\ PeriodWaits \in Nat /\ PeriodWaits > 0
BY MessageMaxAssumption, ReplyLenAssumption, PeriodWaitsAssumption

\* A value is in a sequence's range when some index holds it.
LEMMA InRange ==
  ASSUME NEW s \in Seq(Nat)
  PROVE  /\ \A b : b \in Range(s) <=> \E i \in 1 .. Len(s) : s[i] = b
         /\ Len(s) \in Nat /\ \A i \in 1 .. Len(s) : s[i] \in Nat
BY RangeEquality, LenProperties, ElementOfSeq

\* A reply's bytes follow those of the replies before it.
LEMMA ReplyBytes ==
  ASSUME NEW a \in Nat
  PROVE  /\ Reply(a + 1) \in Seq(Nat) /\ Len(Reply(a + 1)) = ReplyLen
         /\ \A i \in 1 .. ReplyLen : Reply(a + 1)[i] = LastByte(a) + i
         /\ LastByte(a) \in Nat /\ LastByte(a + 1) = LastByte(a) + ReplyLen
<1>1. LastByte(a) \in Nat /\ LastByte(a + 1) = LastByte(a) + ReplyLen
  BY Constants DEF LastByte
<1>2. Reply(a + 1) = [i \in 1 .. ReplyLen |-> LastByte(a) + i]
  BY DEF Reply, LastByte
<1>3. \A i \in 1 .. ReplyLen : LastByte(a) + i \in Nat
  BY <1>1
<1>4. Reply(a + 1) \in Seq(Nat)
  BY <1>2, <1>3, Constants, IsASeq
<1>5. Len(Reply(a + 1)) = ReplyLen
  BY <1>2, <1>4, Constants, LenProperties
<1> QED BY <1>1, <1>2, <1>4, <1>5

\* A reply put behind the output keeps it faithful up to the reply's last byte.
LEMMA ReplyKeepsFaith ==
  ASSUME NEW out \in Seq(Nat), NEW gone \in SUBSET Nat, NEW last \in Nat,
         NEW r \in Seq(Nat), NEW n \in Nat, Len(r) = n,
         \A i \in 1 .. n : r[i] = last + i,
         Faithful(out, gone, last)
  PROVE  Faithful(out \o r, gone, last + n)
<1> DEFINE new == out \o r
<1>1. /\ new \in Seq(Nat) /\ Len(new) = Len(out) + n
      /\ \A i \in 1 .. Len(out) + n :
           new[i] = IF i <= Len(out) THEN out[i] ELSE r[i - Len(out)]
  BY ConcatProperties
<1>2. Range(new) = Range(out) \cup Range(r)
  BY RangeConcatenation
<1>3. \A b : b \in Range(r) <=> b \in last + 1 .. last + n
  <2>1. \A b : b \in Range(r) <=> \E i \in 1 .. n : r[i] = b
    BY InRange
  <2>2. \A b \in last + 1 .. last + n : b - last \in 1 .. n /\ r[b - last] = b
    OBVIOUS
  <2> QED BY <2>1, <2>2
<1> HIDE DEF new
<1>4. (Range(new) \cup gone) \ {Report} = 1 .. last + n
  <2>1. (Range(out) \cup gone) \ {Report} = 1 .. last
    BY DEF Faithful
  <2>2. \A b : b \in 1 .. last + n <=> b \in 1 .. last \/ b \in last + 1 .. last + n
    OBVIOUS
  <2>3. Report \notin last + 1 .. last + n
    BY DEF Report
  <2> QED BY <1>2, <1>3, <2>1, <2>2, <2>3
<1>5. Range(new) \cap gone \subseteq {Report}
  <2>1. \A b \in gone : b # Report => b <= last
    BY DEF Faithful
  <2>2. \A b \in gone : b \in Range(r) => b = Report
    BY <1>3, <2>1
  <2> QED BY <1>2, <2>2 DEF Faithful
<1>6. ASSUME NEW i \in 1 .. Len(new), NEW j \in 1 .. Len(new), i < j,
             Report \notin {new[i], new[j]}
      PROVE  new[i] < new[j]
  <2>0. /\ Len(out) \in Nat /\ i \in Nat /\ j \in Nat /\ i > 0
        /\ i <= Len(out) + n /\ j <= Len(out) + n
    BY <1>1, InRange
  <2>1. CASE j <= Len(out)
    <3>1. new[i] = out[i] /\ new[j] = out[j] /\ i \in 1 .. Len(out) /\ j \in 1 .. Len(out)
      BY <1>1, <1>6, <2>0, <2>1
    <3> QED BY <1>6, <3>1 DEF Faithful
  <2>2. CASE i <= Len(out) /\ ~(j <= Len(out))
    <3>1. new[i] = out[i] /\ i \in 1 .. Len(out) /\ j - Len(out) \in 1 .. n
          /\ new[j] = last + (j - Len(out))
      BY <1>1, <1>6, <2>0, <2>2
    <3>2. out[i] \in Range(out) /\ out[i] \in Nat
      BY <3>1, InRange
    <3>3. out[i] <= last
      BY <1>6, <3>1, <3>2 DEF Faithful
    <3> QED BY <2>0, <3>1, <3>2, <3>3
  <2>3. CASE ~(i <= Len(out))
    <3>1. /\ i - Len(out) \in 1 .. n /\ j - Len(out) \in 1 .. n
          /\ ~(j <= Len(out))
      BY <1>6, <2>0, <2>3
    <3>2. new[i] = r[i - Len(out)] /\ new[j] = r[j - Len(out)]
      BY <1>1, <2>0, <2>3, <3>1
    <3>3. new[i] = last + (i - Len(out)) /\ new[j] = last + (j - Len(out))
      BY <3>1, <3>2
    <3> QED BY <1>6, <2>0, <3>3
  <2> QED BY <2>1, <2>2, <2>3, <2>0
<1> QED BY <1>4, <1>5, <1>6 DEF Faithful, new

\* So does the report, which is no reply's.
LEMMA ReportKeepsFaith ==
  ASSUME NEW out \in Seq(Nat), NEW gone \in SUBSET Nat, NEW last \in Nat,
         Faithful(out, gone, last)
  PROVE  Faithful(Append(out, Report), gone, last)
<1> DEFINE new == Append(out, Report)
<1>1. /\ new \in Seq(Nat) /\ Len(new) = Len(out) + 1 /\ Len(out) \in Nat
      /\ \A i \in 1 .. Len(out) : new[i] = out[i]
      /\ new[Len(out) + 1] = Report
  BY AppendProperties, InRange DEF Report
<1> HIDE DEF new
<1>2. \A b : b \in Range(new) <=> b \in Range(out) \/ b = Report
  <2>1. \A i \in 1 .. Len(new) : i \in 1 .. Len(out) \/ i = Len(out) + 1
    BY <1>1
  <2>2. 1 .. Len(out) \subseteq 1 .. Len(new) /\ Len(out) + 1 \in 1 .. Len(new)
    BY <1>1
  <2>3. /\ \A b : b \in Range(new) <=> \E i \in 1 .. Len(new) : new[i] = b
        /\ \A b : b \in Range(out) <=> \E i \in 1 .. Len(out) : out[i] = b
    BY <1>1, InRange
  <2> QED BY <1>1, <2>1, <2>2, <2>3, Zenon
<1>3. ASSUME NEW i \in 1 .. Len(new), NEW j \in 1 .. Len(new), i < j,
             Report \notin {new[i], new[j]}
      PROVE  new[i] < new[j]
  <2>1. i # Len(out) + 1 /\ j # Len(out) + 1
    BY <1>1, <1>3, Zenon
  <2>2. i \in 1 .. Len(out) /\ j \in 1 .. Len(out)
    BY <1>1, <2>1
  <2> QED BY <1>1, <1>3, <2>2 DEF Faithful
<1>4. /\ (Range(new) \cup gone) \ {Report} = 1 .. last
      /\ Range(new) \cap gone \subseteq {Report}
  BY <1>2 DEF Faithful
<1> QED BY <1>3, <1>4 DEF Faithful, new

\* A chunk handed over loses at most what the write left out, which counts as gone.
LEMMA ChunkKeepsFaith ==
  ASSUME NEW w \in Seq(Nat), NEW buf \in Seq(Nat), NEW gone \in SUBSET Nat,
         NEW last \in Nat, NEW len \in 0 .. Len(buf), NEW n \in 0 .. len,
         NEW out \in Seq(Nat), Len(out) = n, \A i \in 1 .. n : out[i] = buf[i],
         Faithful(w \o buf, gone, last)
  PROVE  LET chunk == SubSeq(buf, 1, len)
             rest  == SubSeq(buf, len + 1, Len(buf))
         IN  Faithful((w \o out) \o rest, gone \cup (Range(chunk) \ Range(out)), last)
<1> DEFINE chunk == SubSeq(buf, 1, len)
           rest  == SubSeq(buf, len + 1, Len(buf))
           old   == w \o buf
           front == w \o out
           new   == front \o rest
           W     == Len(w)
           B     == Len(buf)
           gap   == len - n
           place(i) == IF i <= W + n THEN i ELSE i + gap
           lost  == gone \cup (Range(chunk) \ Range(out))
<1>1. /\ W \in Nat /\ B \in Nat /\ len \in Nat /\ n \in Nat /\ n <= len /\ len <= B
      /\ gap \in Nat
  BY InRange
<1>2. /\ chunk \in Seq(Nat) /\ Len(chunk) = len
      /\ \A i \in 1 .. len : chunk[i] = buf[i]
  <2>1. \A i \in 1 .. len : buf[i] \in Nat
    BY <1>1, InRange
  <2>2. /\ chunk \in Seq(Nat) /\ Len(chunk) = IF 1 <= len THEN len - 1 + 1 ELSE 0
        /\ \A i \in 1 .. len - 1 + 1 : chunk[i] = buf[1 + i - 1]
    BY <1>1, <2>1, SubSeqProperties
  <2> HIDE DEF chunk
  <2> QED BY <1>1, <2>2
<1>3. /\ rest \in Seq(Nat) /\ Len(rest) = B - len
      /\ \A i \in 1 .. B - len : rest[i] = buf[len + i]
  <2>1. \A i \in len + 1 .. B : buf[i] \in Nat
    BY <1>1, InRange
  <2>2. /\ rest \in Seq(Nat)
        /\ Len(rest) = IF len + 1 <= B THEN B - (len + 1) + 1 ELSE 0
        /\ \A i \in 1 .. B - (len + 1) + 1 : rest[i] = buf[(len + 1) + i - 1]
    BY <1>1, <2>1, SubSeqProperties
  <2> HIDE DEF rest
  <2> QED BY <1>1, <2>2
<1>4. /\ old \in Seq(Nat) /\ Len(old) = W + B
      /\ \A i \in 1 .. W + B : old[i] = IF i <= W THEN w[i] ELSE buf[i - W]
  BY ConcatProperties
<1>5. /\ front \in Seq(Nat) /\ Len(front) = W + n
      /\ \A i \in 1 .. W + n : front[i] = IF i <= W THEN w[i] ELSE out[i - W]
  BY ConcatProperties
<1> HIDE DEF rest, chunk, front
<1>6. /\ new \in Seq(Nat) /\ Len(new) = (W + n) + (B - len)
      /\ \A i \in 1 .. (W + n) + (B - len) :
           new[i] = IF i <= W + n THEN front[i] ELSE rest[i - (W + n)]
  <2>0. front \in Seq(Nat) /\ rest \in Seq(Nat)
    BY <1>3, <1>5
  <2>1. /\ new \in Seq(Nat) /\ Len(new) = Len(front) + Len(rest)
        /\ \A i \in 1 .. Len(front) + Len(rest) :
             new[i] = IF i <= Len(front) THEN front[i] ELSE rest[i - Len(front)]
    BY <2>0, ConcatProperties
  <2> HIDE DEF new, W, B
  <2> QED BY <2>1, <1>3, <1>5
<1> HIDE DEF old, new, W, B, gap
<1>7. \A i \in 1 .. Len(new) : place(i) \in 1 .. Len(old) /\ new[i] = old[place(i)]
  <2> SUFFICES ASSUME NEW i \in 1 .. Len(new)
               PROVE  place(i) \in 1 .. Len(old) /\ new[i] = old[place(i)]
    OBVIOUS
  <2>1. i \in Nat /\ i > 0 /\ i <= (W + n) + (B - len) /\ gap = len - n
    BY <1>1, <1>6 DEF gap
  <2>2. CASE i <= W
    <3>1. place(i) = i /\ i \in 1 .. W + n /\ i \in 1 .. W + B /\ i <= W + n
      BY <1>1, <2>1, <2>2
    <3> HIDE DEF place
    <3>2. new[i] = w[i] /\ old[i] = w[i]
      BY <1>4, <1>5, <1>6, <2>2, <3>1
    <3> QED BY <1>4, <3>1, <3>2
  <2>3. CASE ~(i <= W) /\ i <= W + n
    <3>1. i - W \in 1 .. n /\ place(i) = i /\ i \in 1 .. W + B /\ i \in 1 .. W + n
      BY <1>1, <2>1, <2>3
    <3>2. new[i] = out[i - W] /\ old[i] = buf[i - W]
      BY <1>1, <1>4, <1>5, <1>6, <2>1, <2>3, <3>1
    <3> QED BY <1>4, <3>1, <3>2
  <2>4. CASE ~(i <= W + n)
    <3>1. /\ i - (W + n) \in 1 .. B - len /\ place(i) = i + gap
          /\ i + gap \in 1 .. W + B /\ ~(i + gap <= W)
          /\ len + (i - (W + n)) = (i + gap) - W
      BY <1>1, <2>1, <2>4
    <3>2. new[i] = rest[i - (W + n)]
      BY <1>6, <2>1, <2>4
    <3>3. rest[i - (W + n)] = buf[(i + gap) - W]
      BY <1>3, <3>1 DEF B
    <3>4. old[i + gap] = buf[(i + gap) - W]
      BY <1>4, <3>1
    <3> QED BY <1>4, <3>1, <3>2, <3>3, <3>4
  <2> QED BY <2>2, <2>3, <2>4, <1>1, <2>1
<1>8. \A i, j \in 1 .. Len(new) : i < j => place(i) < place(j)
  <2> SUFFICES ASSUME NEW i \in 1 .. Len(new), NEW j \in 1 .. Len(new), i < j
               PROVE  place(i) < place(j)
    OBVIOUS
  <2>1. i \in Nat /\ j \in Nat
    BY <1>6
  <2>2. CASE j <= W + n
    BY <1>1, <2>1, <2>2
  <2>3. CASE ~(j <= W + n)
    <3>1. place(j) = j + gap /\ (place(i) = i \/ place(i) = i + gap)
      BY <2>3
    <3> QED BY <1>1, <2>1, <3>1
  <2> QED BY <2>2, <2>3
<1>9. \A k \in 1 .. Len(old) :
        \/ \E i \in 1 .. Len(new) : place(i) = k
        \/ k - W \in n + 1 .. len /\ old[k] = chunk[k - W]
  <2> SUFFICES ASSUME NEW k \in 1 .. Len(old)
               PROVE  \/ \E i \in 1 .. Len(new) : place(i) = k
                      \/ k - W \in n + 1 .. len /\ old[k] = chunk[k - W]
    OBVIOUS
  <2>1. k \in Nat /\ k > 0 /\ k <= W + B /\ gap = len - n
    BY <1>1, <1>4 DEF gap
  <2>2. CASE k <= W + n
    <3>1. k \in 1 .. Len(new) /\ place(k) = k
      BY <1>1, <1>6, <2>1, <2>2
    <3> QED BY <3>1
  <2>3. CASE k > W + len
    <3>1. k - gap \in 1 .. Len(new) /\ ~(k - gap <= W + n) /\ (k - gap) + gap = k
      BY <1>1, <1>6, <2>1, <2>3
    <3>2. place(k - gap) = k
      BY <3>1
    <3> QED BY <3>1, <3>2
  <2>4. CASE ~(k <= W + n) /\ ~(k > W + len)
    <3>1. k - W \in n + 1 .. len /\ k - W \in 1 .. len /\ ~(k <= W)
      BY <1>1, <2>1, <2>4
    <3>2. old[k] = buf[k - W]
      BY <1>4, <3>1
    <3> QED BY <1>2, <3>1, <3>2
  <2> QED BY <2>2, <2>3, <2>4
<1> HIDE DEF place
<1>10. \A b : b \in Range(new) => b \in Range(old)
  <2> SUFFICES ASSUME NEW b, b \in Range(new) PROVE b \in Range(old)
    OBVIOUS
  <2>1. PICK i \in 1 .. Len(new) : new[i] = b
    BY <1>6, InRange
  <2> QED BY <2>1, <1>4, <1>7, InRange
<1>11. \A b : b \in Range(old) => b \in Range(new) \/ b \in Range(chunk)
  <2> SUFFICES ASSUME NEW b \in Range(old) PROVE b \in Range(new) \/ b \in Range(chunk)
    OBVIOUS
  <2>1. PICK k \in 1 .. Len(old) : old[k] = b
    BY <1>4, InRange
  <2>2. CASE \E i \in 1 .. Len(new) : place(i) = k
    BY <1>6, <1>7, <2>1, <2>2, InRange
  <2>3. CASE k - W \in n + 1 .. len /\ old[k] = chunk[k - W]
    <3>1. k - W \in 1 .. len
      BY <1>1, <2>3
    <3> QED BY <1>2, <2>1, <2>3, <3>1, InRange
  <2> QED BY <1>9, <2>2, <2>3
<1>12. \A b : b \in Range(chunk) => b \in Range(old)
  <2> SUFFICES ASSUME NEW b, b \in Range(chunk) PROVE b \in Range(old)
    OBVIOUS
  <2>0. PICK j \in 1 .. len : chunk[j] = b
    BY <1>2, InRange
  <2>1. W + j \in 1 .. W + B /\ ~(W + j <= W) /\ (W + j) - W = j
    BY <1>1
  <2>2. old[W + j] = chunk[j]
    BY <1>2, <1>4, <2>1
  <2> QED BY <1>4, <2>0, <2>1, <2>2, InRange
<1>13. \A b : b \in Range(out) => b \in Range(new)
  <2> SUFFICES ASSUME NEW b, b \in Range(out) PROVE b \in Range(new)
    OBVIOUS
  <2>0. PICK j \in 1 .. n : out[j] = b
    BY InRange
  <2>1. /\ W + j \in 1 .. (W + n) + (B - len) /\ W + j \in 1 .. W + n
        /\ W + j <= W + n /\ ~(W + j <= W) /\ (W + j) - W = j
    BY <1>1
  <2>2. new[W + j] = out[j]
    BY <1>5, <1>6, <2>1
  <2> QED BY <1>6, <2>0, <2>1, <2>2, InRange
\* Equal bytes at two places of the output are the report's.
<1>14. \A i, j \in 1 .. Len(old) : i # j /\ old[i] = old[j] => old[i] = Report
  <2> SUFFICES ASSUME NEW i \in 1 .. Len(old), NEW j \in 1 .. Len(old),
                      i # j, old[i] = old[j], old[i] # Report
               PROVE  FALSE
    OBVIOUS
  <2>1. i < j \/ j < i
    BY <1>4
  <2>2. old[i] < old[j] \/ old[j] < old[i]
    BY <2>1 DEF Faithful, old
  <2> QED BY <2>2, <1>4, InRange
<1>15. \A b : b \in Range(chunk) /\ b \in Range(new) /\ b # Report => b \in Range(out)
  <2> SUFFICES ASSUME NEW b, b \in Range(chunk), b \in Range(new), b # Report
               PROVE  b \in Range(out)
    OBVIOUS
  <2>1. PICK j \in 1 .. len : chunk[j] = b
    BY <1>2, InRange
  <2>2. PICK i \in 1 .. Len(new) : new[i] = b
    BY <1>6, InRange
  <2>3. /\ W + j \in 1 .. Len(old) /\ old[W + j] = b
    <3>1. W + j \in 1 .. W + B /\ ~(W + j <= W) /\ (W + j) - W = j
      BY <1>1
    <3> QED BY <1>2, <1>4, <2>1, <3>1
  <2>4. place(i) = W + j
    BY <1>7, <1>14, <2>2, <2>3
  <2>5. j \in 1 .. n
    <3>1. i \in Nat /\ j \in Nat /\ j > 0 /\ j <= len /\ gap = len - n
      BY <1>1, <1>6 DEF gap
    <3>2. CASE i <= W + n
      BY <1>1, <2>4, <3>1, <3>2 DEF place
    <3>3. CASE ~(i <= W + n)
      BY <1>1, <2>4, <3>1, <3>3 DEF place
    <3> QED BY <3>2, <3>3
  <2>6. chunk[j] = out[j]
    BY <1>2, <2>1, <2>5
  <2> QED BY <2>1, <2>5, <2>6, InRange
<1>16. (Range(new) \cup lost) \ {Report} = 1 .. last
  <2>1. (Range(old) \cup gone) \ {Report} = 1 .. last
    BY DEF Faithful, old
  <2> QED BY <1>10, <1>11, <1>12, <1>13, <2>1
<1>17. Range(new) \cap lost \subseteq {Report}
  <2>1. Range(old) \cap gone \subseteq {Report}
    BY DEF Faithful, old
  <2> QED BY <1>10, <1>15, <2>1
<1>18. \A i, j \in 1 .. Len(new) :
         i < j /\ Report \notin {new[i], new[j]} => new[i] < new[j]
  <2>1. \A i, j \in 1 .. Len(old) :
          i < j /\ Report \notin {old[i], old[j]} => old[i] < old[j]
    BY DEF Faithful, old
  <2> QED BY <1>7, <1>8, <2>1
<1> QED BY <1>16, <1>17, <1>18 DEF Faithful, new, front, rest, chunk

-----------------------------------------------------------------------------
LEMMA InitHolds == Init => IInv
<1> SUFFICES ASSUME Init PROVE IInv
  OBVIOUS
<1>1. /\ sent = 0 /\ driver_rx = <<>> /\ receive_buf = <<>> /\ transmit_buf = <<>>
      /\ wire = <<>> /\ dropped = {} /\ todo = {} /\ pc = "check"
      /\ waits = 0 /\ rx_age = 0 /\ transport \in Transports
  BY DEF Init
<1>2. <<>> \in Seq(Nat) /\ Len(<<>>) = 0 /\ <<>> \o <<>> = <<>> /\ Range(<<>>) = {}
  <2>1. <<>> \in Seq(Nat) /\ Len(<<>>) = 0
    OBVIOUS
  <2>2. <<>> \o <<>> = <<>>
    BY <2>1, ConcatEmptySeq, Zenon
  <2>3. \A e \in Seq(Nat) : Len(e) = 0 => Range(e) = {}
    <3> SUFFICES ASSUME NEW e \in Seq(Nat), Len(e) = 0, NEW b \in Range(e) PROVE FALSE
      OBVIOUS
    <3>1. PICK i \in 1 .. 0 : e[i] = b
      BY InRange
    <3> QED BY <3>1
  <2>4. Range(<<>>) = {}
    BY <2>1, <2>3, Zenon
  <2> QED BY <2>1, <2>2, <2>4
<1>3. TypeInv
  BY <1>1, <1>2, Constants DEF TypeInv
<1>4. AwakeInv /\ AgeInv
  BY <1>1, Constants DEF AwakeInv, AgeInv
<1>5. InputInv /\ Answered = 0
  <2>1. Input = <<>>
    BY <1>1, <1>2 DEF Input
  <2>2. Len(Input) = 0
    BY <1>2, <2>1, Zenon
  <2>3. Answered = 0
    BY <1>1, <2>2 DEF Answered
  <2> QED BY <2>2, <2>3 DEF InputInv
<1>6. LastByte(0) = 0
  BY Constants DEF LastByte
<1>7. OutputInv
  BY <1>1, <1>2, <1>5, <1>6 DEF OutputInv, Output, Faithful
<1> QED BY <1>3, <1>4, <1>5, <1>7 DEF IInv

\* Steps that move no byte keep the bytes' part of the invariant.
LEMMA BytesKept ==
  ASSUME IInv, UNCHANGED <<sent, driver_rx, receive_buf, transmit_buf, wire, dropped,
                           transport>>
  PROVE  InputInv' /\ OutputInv'
BY DEF IInv, InputInv, OutputInv, Input, Output, Answered

\* Input bytes are numbered on when the host sends one more.
LEMMA HostSendKeeps == IInv /\ HostSend => IInv'
<1> SUFFICES ASSUME IInv, HostSend PROVE IInv'
  OBVIOUS
<1> DEFINE R == Len(receive_buf)
           D == Len(driver_rx)
<1>1. /\ sent' = sent + 1 /\ driver_rx' = Append(driver_rx, sent + 1)
      /\ UNCHANGED <<receive_buf, transmit_buf, wire, dropped, tx_pending, requested,
                     todo, pc, waits, rx_age, is_shutdown, transport>>
  BY DEF HostSend, output, sched, mode
<1>2. /\ sent \in Nat /\ driver_rx \in Seq(Nat) /\ receive_buf \in Seq(Nat)
      /\ R \in Nat /\ D \in Nat
  BY InRange DEF IInv, TypeInv
<1>3. /\ driver_rx' \in Seq(Nat) /\ Len(driver_rx') = D + 1
      /\ \A i \in 1 .. D : driver_rx'[i] = driver_rx[i]
      /\ driver_rx'[D + 1] = sent + 1
  BY <1>1, <1>2, AppendProperties
<1>4. /\ Len(Input) = R + D
      /\ \A i \in 1 .. R + D :
           Input[i] = IF i <= R THEN receive_buf[i] ELSE driver_rx[i - R]
  BY <1>2, ConcatProperties DEF Input
<1>5. /\ Len(Input') = R + (D + 1)
      /\ \A i \in 1 .. R + (D + 1) :
           Input'[i] = IF i <= R THEN receive_buf[i] ELSE driver_rx'[i - R]
  <2> DEFINE q == driver_rx'
             t == receive_buf \o q
  <2>1. Input' = t
    BY <1>1 DEF Input
  <2>2. q \in Seq(Nat) /\ Len(q) = D + 1
    BY <1>3
  <2> HIDE DEF q
  <2>3. /\ Len(t) = Len(receive_buf) + Len(q)
        /\ \A i \in 1 .. Len(receive_buf) + Len(q) :
             t[i] = IF i <= Len(receive_buf) THEN receive_buf[i]
                    ELSE q[i - Len(receive_buf)]
    BY <1>2, <2>2, ConcatProperties
  <2> HIDE DEF t
  <2>4. /\ Len(t) = R + (D + 1)
        /\ \A i \in 1 .. R + (D + 1) : t[i] = IF i <= R THEN receive_buf[i] ELSE q[i - R]
    BY <2>2, <2>3
  <2> QED BY <2>1, <2>4 DEF q
<1> HIDE DEF R, D
<1>6. Answered' = Answered /\ Answered \in Nat /\ Answered = sent - (R + D)
  BY <1>1, <1>2, <1>4, <1>5 DEF Answered, IInv, InputInv
<1>7. ASSUME NEW i \in 1 .. R + (D + 1) PROVE Input'[i] = Answered + i
  <2>1. CASE i \in 1 .. R + D
    <3>1. Input[i] = Answered + i
      BY <1>4, <2>1 DEF IInv, InputInv
    <3>2. CASE i <= R
      BY <1>4, <1>5, <2>1, <3>1, <3>2
    <3>3. CASE ~(i <= R)
      <4>1. i - R \in 1 .. D
        BY <1>2, <2>1, <3>3
      <4> QED BY <1>3, <1>4, <1>5, <2>1, <3>1, <3>3, <4>1
    <3> QED BY <3>2, <3>3
  <2>2. CASE i = R + (D + 1)
    <3>1. ~(i <= R) /\ i - R = D + 1
      BY <1>2, <2>2
    <3> QED BY <1>2, <1>3, <1>5, <1>6, <2>2, <3>1
  <2> QED BY <1>2, <2>1, <2>2
<1>8. InputInv'
  BY <1>5, <1>6, <1>7 DEF InputInv
<1>9. OutputInv'
  BY <1>1, <1>6 DEF IInv, OutputInv, Output
<1>10. TypeInv' /\ AwakeInv' /\ AgeInv'
  BY <1>1, <1>2, <1>3 DEF IInv, TypeInv, AwakeInv, AgeInv, ReadComing, ToRead
<1> QED BY <1>8, <1>9, <1>10 DEF IInv

\* The task loop moves no bytes; irq_wait counts towards the periodic wake.
LEMMA LoopKeeps == IInv /\ (irq_wait \/ TasksStart \/ TasksEnd) => IInv'
<1> SUFFICES ASSUME IInv, irq_wait \/ TasksStart \/ TasksEnd PROVE IInv'
  OBVIOUS
<1>1. UNCHANGED <<sent, driver_rx, receive_buf, transmit_buf, wire, dropped, tx_pending,
                  is_shutdown, transport>>
  BY DEF irq_wait, TasksStart, TasksEnd, host, output, mode
<1>2. InputInv' /\ OutputInv'
  BY <1>1, BytesKept
<1>3. CASE irq_wait
  <2>1. /\ pc = "check" /\ ~requested /\ UNCHANGED <<todo, pc>>
        /\ rx_age' = IF driver_rx = <<>> THEN 0 ELSE rx_age + 1
        /\ waits' = (waits + 1) % PeriodWaits
        /\ requested' <=> waits' = 0
    BY <1>3 DEF irq_wait
  <2>2. waits \in 0 .. PeriodWaits - 1 /\ rx_age \in Nat /\ rx_age <= waits
    BY <2>1 DEF IInv, TypeInv, AgeInv, ReadComing, ToRead
  <2>3. waits' = IF waits + 1 = PeriodWaits THEN 0 ELSE waits + 1
    BY <2>1, <2>2, Constants
  <2>4. /\ waits' \in 0 .. PeriodWaits - 1 /\ rx_age' \in Nat /\ rx_age' <= PeriodWaits
        /\ rx_age' <= waits' \/ waits' = 0
    BY <2>1, <2>2, <2>3, Constants
  <2>5. TypeInv' /\ AwakeInv'
    BY <1>1, <2>1, <2>4 DEF IInv, TypeInv, AwakeInv, ToRead
  <2>6. AgeInv'
    BY <2>1, <2>4 DEF AgeInv, ReadComing
  <2> QED BY <1>2, <2>5, <2>6 DEF IInv
<1>4. CASE TasksStart
  <2>1. /\ pc = "check" /\ requested /\ pc' = "tasks" /\ todo' = TaskList
        /\ UNCHANGED <<waits, rx_age>>
    BY <1>4 DEF TasksStart
  <2> QED BY <1>1, <1>2, <2>1
          DEF IInv, TypeInv, AwakeInv, AgeInv, ReadComing, ToRead, TaskList
<1>5. CASE TasksEnd
  <2>1. /\ pc = "tasks" /\ todo = {} /\ pc' = "check"
        /\ UNCHANGED <<requested, todo, waits, rx_age>>
    BY <1>5 DEF TasksEnd
  <2> QED BY <1>1, <1>2, <2>1 DEF IInv, TypeInv, AwakeInv, AgeInv, ReadComing, ToRead
<1> QED BY <1>3, <1>4, <1>5

\* The first half of console_io_task reads all there is.
LEMMA ReadKeeps == IInv /\ console_read => IInv'
<1> SUFFICES ASSUME IInv, console_read PROVE IInv'
  OBVIOUS
<1>1. /\ ToRead /\ pc' = "io" /\ todo' = todo \ {"console_io_task"}
      /\ receive_buf' = receive_buf \o driver_rx /\ driver_rx' = <<>> /\ rx_age' = 0
      /\ requested => requested'
      /\ UNCHANGED <<sent, transmit_buf, wire, dropped, tx_pending, waits,
                     is_shutdown, transport>>
  BY DEF console_read, output, mode, ToRead
<1>2. receive_buf' \in Seq(Nat) /\ driver_rx' \in Seq(Nat)
  BY <1>1, ConcatProperties DEF IInv, TypeInv
<1>3. Input' = Input
  <2>1. receive_buf \o driver_rx \in Seq(Nat)
    BY <1>1, <1>2
  <2>2. (receive_buf \o driver_rx) \o <<>> = receive_buf \o driver_rx
    BY <2>1, ConcatEmptySeq
  <2> QED BY <1>1, <2>2 DEF Input
<1>4. InputInv' /\ OutputInv'
  BY <1>1, <1>3 DEF IInv, InputInv, OutputInv, Output, Answered
<1>5. TypeInv'
  BY <1>1, <1>2 DEF IInv, TypeInv
<1>6. AwakeInv'
  BY <1>1 DEF IInv, AwakeInv, ToRead
<1>7. AgeInv'
  BY <1>1, Constants DEF IInv, TypeInv, AgeInv
<1> QED BY <1>4, <1>5, <1>6, <1>7 DEF IInv

\* The second half hands a chunk over, and asks again if it was a full one.
LEMMA TransmitKeeps == IInv /\ (io_idle \/ io_transmit) => IInv'
<1> SUFFICES ASSUME IInv, io_idle \/ io_transmit PROVE IInv'
  OBVIOUS
<1>1. /\ pc = "io" /\ pc' = "tasks"
      /\ UNCHANGED <<sent, driver_rx, receive_buf, todo, waits, rx_age, is_shutdown, transport>>
  BY DEF io_idle, io_transmit, host, mode
<1>2. AgeInv'
  BY <1>1 DEF IInv, AgeInv, ReadComing, ToRead
<1>3. InputInv' /\ Answered' = Answered
  BY <1>1 DEF IInv, InputInv, Answered, Input
<1>4. CASE io_idle
  <2>1. UNCHANGED <<transmit_buf, wire, dropped, tx_pending, requested>> /\ ~tx_pending
    BY <1>4 DEF io_idle, output
  <2>2. TypeInv' /\ AwakeInv'
    BY <1>1, <2>1 DEF IInv, TypeInv, AwakeInv
  <2> QED BY <1>1, <1>2, <2>1, <2>2, BytesKept DEF IInv
<1>5. CASE io_transmit
  <2> DEFINE B     == Len(transmit_buf)
             len   == IF B < MessageMax THEN B ELSE MessageMax
             chunk == SubSeq(transmit_buf, 1, len)
             rest  == SubSeq(transmit_buf, len + 1, B)
  <2>1. PICK out \in console_write_all(chunk) :
          /\ transmit_buf' = rest /\ wire' = wire \o out
          /\ dropped' = dropped \cup (Range(chunk) \ Range(out))
          /\ finish_write(len)
    BY <1>5 DEF io_transmit
  <2>2. /\ transmit_buf \in Seq(Nat) /\ wire \in Seq(Nat) /\ dropped \in SUBSET Nat
        /\ B \in Nat /\ len \in 0 .. B /\ len \in Nat
        /\ \A i \in 1 .. B : transmit_buf[i] \in Nat
    BY Constants, InRange DEF IInv, TypeInv
  <2>3. /\ chunk \in Seq(Nat) /\ Len(chunk) = len
        /\ \A i \in 1 .. len : chunk[i] = transmit_buf[i]
    <3>1. \A i \in 1 .. len : transmit_buf[i] \in Nat
      BY <2>2
    <3>2. /\ chunk \in Seq(Nat) /\ Len(chunk) = IF 1 <= len THEN len - 1 + 1 ELSE 0
          /\ \A i \in 1 .. len - 1 + 1 : chunk[i] = transmit_buf[1 + i - 1]
      BY <2>2, <3>1, SubSeqProperties
    <3> HIDE DEF chunk, len
    <3> QED BY <2>2, <3>2
  <2>4. rest \in Seq(Nat) /\ (len = B => rest = <<>>)
    <3>1. \A i \in len + 1 .. B : transmit_buf[i] \in Nat
      BY <2>2
    <3>2. rest \in Seq(Nat)
      BY <2>2, <3>1, SubSeqProperties
    <3>3. ASSUME len = B PROVE rest = <<>>
      <4>1. B \in Int /\ B + 1 \in Int /\ B < B + 1
        BY <2>2
      <4> HIDE DEF B, len
      <4> QED BY <3>3, <4>1, SubSeqEmpty
    <3> QED BY <3>2, <3>3
  <2>5. PICK n \in 0 .. len : /\ out \in Seq(Nat) /\ Len(out) = n
                              /\ \A i \in 1 .. n : out[i] = transmit_buf[i]
                              /\ transport = "uart" => out = chunk
    <3> HIDE DEF chunk, len
    <3>1. CASE transport = "uart"
      <4>1. out = chunk
        BY <2>1, <3>1 DEF console_write_all
      <4> QED BY <2>2, <2>3, <4>1
    <3>2. CASE transport # "uart"
      <4>1. PICK n \in 0 .. Len(chunk) : out = SubSeq(chunk, 1, n)
        BY <2>1, <3>2 DEF console_write_all
      <4>2. n \in 0 .. len /\ n \in Int /\ n \in Nat
        BY <2>2, <2>3, <4>1
      <4>3. \A i \in 1 .. n : i \in 1 .. len /\ chunk[i] \in Nat
        BY <2>2, <2>3, <4>2, InRange
      <4>4. /\ out \in Seq(Nat) /\ Len(out) = IF 1 <= n THEN n - 1 + 1 ELSE 0
            /\ \A i \in 1 .. n - 1 + 1 : out[i] = chunk[1 + i - 1]
        BY <4>1, <4>2, <4>3, SubSeqProperties
      <4>5. Len(out) = n /\ \A i \in 1 .. n : out[i] = transmit_buf[i]
        BY <2>3, <4>2, <4>3, <4>4
      <4> QED BY <3>2, <4>2, <4>4, <4>5
    <3> QED BY <3>1, <3>2
  <2> HIDE DEF len
  <2>6. Answered \in Nat /\ LastByte(Answered) \in Nat
    BY ReplyBytes DEF IInv, InputInv
  <2>7. Faithful(Output, dropped, LastByte(Answered))
    BY DEF IInv, OutputInv
  <2>8. Faithful((wire \o out) \o rest, dropped \cup (Range(chunk) \ Range(out)),
                 LastByte(Answered))
    BY <2>2, <2>5, <2>6, <2>7, ChunkKeepsFaith DEF Output
  <2> HIDE DEF chunk, rest
  <2>9. Faithful(Output', dropped', LastByte(Answered))
    BY <2>1, <2>8 DEF Output
  <2>10. transport' = "uart" => dropped' = {}
    BY <1>1, <2>1, <2>5 DEF IInv, OutputInv
  <2>11. OutputInv'
    BY <1>3, <2>9, <2>10 DEF OutputInv
  <2>12. wire' \in Seq(Nat) /\ transmit_buf' \in Seq(Nat) /\ dropped' \in SUBSET Nat
    <3>1. wire' \in Seq(Nat)
      BY <2>1, <2>2, <2>5, ConcatProperties
    <3>2. Range(chunk) \in SUBSET Nat
      BY <2>3, RangeOfSeq
    <3> QED BY <2>1, <2>2, <2>4, <3>1, <3>2
  <2>13. TypeInv'
    BY <1>1, <2>12 DEF IInv, TypeInv
  <2>14. AwakeInv'
    <3>1. CASE len = MessageMax
      <4>1. tx_pending' /\ requested'
        BY <2>1, <3>1 DEF finish_write, serial_enable_tx_irq
      <4> QED BY <4>1 DEF AwakeInv
    <3>2. CASE len # MessageMax
      <4>1. len = B
        BY <3>2 DEF len
      <4> QED BY <2>1, <2>4, <4>1 DEF AwakeInv
    <3> QED BY <3>1, <3>2
  <2> QED BY <1>2, <1>3, <2>11, <2>13, <2>14 DEF IInv
<1> QED BY <1>4, <1>5

\* A command dispatched is the next one unanswered, and its reply goes behind the
\* output.
LEMMA DispatchKeeps == IInv /\ console_task => IInv'
<1> SUFFICES ASSUME IInv, console_task PROVE IInv'
  OBVIOUS
<1> DEFINE R == Len(receive_buf)
           D == Len(driver_rx)
           r == Reply(Answered + 1)
<1>1. /\ pc = "tasks" /\ todo' = todo \ {"console_task"} /\ receive_buf # <<>>
      /\ receive_buf' = Tail(receive_buf)
      /\ transmit_buf' = transmit_buf \o Reply(Head(receive_buf))
      /\ tx_pending' /\ requested'
      /\ UNCHANGED <<sent, driver_rx, wire, dropped, pc, waits, rx_age, transport>>
  BY DEF console_task, serial_enable_tx_irq, host, mode
<1>2. /\ receive_buf \in Seq(Nat) /\ driver_rx \in Seq(Nat) /\ transmit_buf \in Seq(Nat)
      /\ wire \in Seq(Nat) /\ sent \in Nat /\ R \in Nat /\ D \in Nat
  BY InRange DEF IInv, TypeInv
<1>3. R > 0 /\ receive_buf[1] = Head(receive_buf)
  BY <1>1, <1>2, HeadTailProperties
<1>4. /\ receive_buf' \in Seq(Nat) /\ Len(receive_buf') = R - 1
      /\ \A i \in 1 .. R - 1 : receive_buf'[i] = receive_buf[i + 1]
  BY <1>1, <1>2, HeadTailProperties
<1>5. /\ Len(Input) = R + D
      /\ \A i \in 1 .. R + D :
           Input[i] = IF i <= R THEN receive_buf[i] ELSE driver_rx[i - R]
  BY <1>2, ConcatProperties DEF Input
<1>6. /\ Len(Input') = (R - 1) + D
      /\ \A i \in 1 .. (R - 1) + D :
           Input'[i] = IF i <= R - 1 THEN receive_buf'[i] ELSE driver_rx[i - (R - 1)]
  <2> DEFINE q == receive_buf'
             t == q \o driver_rx
  <2>1. Input' = t
    BY <1>1 DEF Input
  <2>2. q \in Seq(Nat) /\ Len(q) = R - 1
    BY <1>4
  <2> HIDE DEF q
  <2>3. /\ Len(t) = Len(q) + Len(driver_rx)
        /\ \A i \in 1 .. Len(q) + Len(driver_rx) :
             t[i] = IF i <= Len(q) THEN q[i] ELSE driver_rx[i - Len(q)]
    BY <1>2, <2>2, ConcatProperties
  <2> HIDE DEF t
  <2>4. /\ Len(t) = (R - 1) + D
        /\ \A i \in 1 .. (R - 1) + D :
             t[i] = IF i <= R - 1 THEN q[i] ELSE driver_rx[i - (R - 1)]
    BY <2>2, <2>3
  <2> QED BY <2>1, <2>4 DEF q
<1> HIDE DEF R, D
<1>7. Answered' = Answered + 1 /\ Answered \in Nat
  BY <1>1, <1>2, <1>5, <1>6 DEF Answered, IInv, InputInv
<1>8. Head(receive_buf) = Answered + 1
  BY <1>2, <1>3, <1>5 DEF IInv, InputInv
<1>9. ASSUME NEW i \in 1 .. (R - 1) + D PROVE Input'[i] = Answered' + i
  <2>1. i + 1 \in 1 .. R + D /\ i \in Nat
    BY <1>2, <1>3
  <2>2. Input[i + 1] = Answered + (i + 1)
    BY <1>5, <2>1 DEF IInv, InputInv
  <2>3. CASE i <= R - 1
    <3>1. i \in 1 .. R - 1 /\ i + 1 <= R
      BY <1>2, <2>1, <2>3
    <3>2. Input'[i] = receive_buf[i + 1] /\ Input[i + 1] = receive_buf[i + 1]
      BY <1>4, <1>5, <1>6, <2>1, <2>3, <3>1
    <3> QED BY <1>7, <2>1, <2>2, <3>2
  <2>4. CASE ~(i <= R - 1)
    <3>1. ~(i + 1 <= R) /\ (i + 1) - R = i - (R - 1)
      BY <1>2, <2>1, <2>4
    <3>2. Input'[i] = driver_rx[i - (R - 1)] /\ Input[i + 1] = driver_rx[(i + 1) - R]
      BY <1>5, <1>6, <2>1, <2>4, <3>1
    <3> QED BY <1>7, <2>1, <2>2, <3>1, <3>2
  <2> QED BY <2>3, <2>4
<1>10. InputInv'
  BY <1>6, <1>7, <1>9 DEF InputInv
<1>11. /\ r \in Seq(Nat) /\ Len(r) = ReplyLen
       /\ \A i \in 1 .. ReplyLen : r[i] = LastByte(Answered) + i
       /\ LastByte(Answered) \in Nat /\ LastByte(Answered + 1) = LastByte(Answered) + ReplyLen
  BY <1>7, ReplyBytes
<1>12. transmit_buf' = transmit_buf \o r /\ wire' = wire
  BY <1>1, <1>8
<1> HIDE DEF r
<1>13. Output' = Output \o r /\ Output \in Seq(Nat) /\ transmit_buf' \in Seq(Nat)
  <2>0. wire \in Seq(Nat) /\ transmit_buf \in Seq(Nat) /\ r \in Seq(Nat)
    BY <1>2, <1>11
  <2>1. (wire \o transmit_buf) \o r = wire \o (transmit_buf \o r)
    BY <2>0, ConcatAssociative
  <2>2. wire \o transmit_buf \in Seq(Nat) /\ transmit_buf \o r \in Seq(Nat)
    BY <1>2, <1>11, ConcatProperties
  <2> QED BY <1>12, <2>1, <2>2 DEF Output
<1>14. Faithful(Output', dropped, LastByte(Answered'))
  <2>1. Faithful(Output, dropped, LastByte(Answered)) /\ dropped \in SUBSET Nat
    BY DEF IInv, OutputInv, TypeInv
  <2>2. Faithful(Output \o r, dropped, LastByte(Answered) + ReplyLen)
    BY <1>11, <1>13, <2>1, Constants, ReplyKeepsFaith
  <2> QED BY <1>7, <1>11, <1>13, <2>2
<1>15. OutputInv'
  BY <1>1, <1>14 DEF IInv, OutputInv
<1>16. TypeInv' /\ AwakeInv'
  BY <1>1, <1>4, <1>13 DEF IInv, TypeInv, AwakeInv
<1>17. AgeInv'
  BY <1>1 DEF IInv, AgeInv, ReadComing, ToRead
<1> QED BY <1>10, <1>15, <1>16, <1>17 DEF IInv

\* A shutdown cuts the pass short; its report goes behind the output and asks for
\* another pass.
LEMMA ShutdownKeeps == IInv /\ (console_task_idle \/ RaiseShutdown) => IInv'
<1> SUFFICES ASSUME IInv, console_task_idle \/ RaiseShutdown PROVE IInv'
  OBVIOUS
<1>1. UNCHANGED <<sent, driver_rx, receive_buf, transmit_buf, wire, dropped, tx_pending,
                  requested, waits, rx_age, transport>>
  BY DEF console_task_idle, RaiseShutdown, console_shutdown, host, output, mode
<1>2. InputInv' /\ OutputInv'
  BY <1>1, BytesKept
<1>3. \/ pc = "tasks" /\ pc' = "tasks" /\ todo' = todo \ {"console_task"}
      \/ pc' = "report" /\ todo' = {}
  BY DEF console_task_idle, RaiseShutdown
<1>4. TypeInv' /\ AwakeInv' /\ AgeInv'
  BY <1>1, <1>3 DEF IInv, TypeInv, AwakeInv, AgeInv, ReadComing, ToRead
<1> QED BY <1>2, <1>4 DEF IInv

LEMMA ReportKeeps == IInv /\ SendReport => IInv'
<1> SUFFICES ASSUME IInv, SendReport PROVE IInv'
  OBVIOUS
<1>1. /\ transmit_buf' = Append(transmit_buf, Report) /\ tx_pending' /\ requested'
      /\ pc' = "check"
      /\ UNCHANGED <<sent, driver_rx, receive_buf, wire, dropped, todo, waits, rx_age, transport>>
  BY DEF SendReport, serial_enable_tx_irq, host, mode
<1>2. /\ wire \in Seq(Nat) /\ transmit_buf \in Seq(Nat) /\ Report \in Nat
      /\ dropped \in SUBSET Nat
  BY DEF IInv, TypeInv, Report
<1>3. transmit_buf' \in Seq(Nat)
  BY <1>1, <1>2, AppendProperties
<1>4. Output' = Append(Output, Report) /\ Output \in Seq(Nat)
  <2>1. <<Report>> \in Seq(Nat) /\ wire \o transmit_buf \in Seq(Nat)
    BY <1>2, ConcatProperties
  <2>2. /\ Append(transmit_buf, Report) = transmit_buf \o <<Report>>
        /\ Append(wire \o transmit_buf, Report) = (wire \o transmit_buf) \o <<Report>>
    BY <1>2, <2>1, AppendIsConcat
  <2>3. (wire \o transmit_buf) \o <<Report>> = wire \o (transmit_buf \o <<Report>>)
    BY <1>2, <2>1, ConcatAssociative
  <2> QED BY <1>1, <2>1, <2>2, <2>3 DEF Output
<1>5. InputInv' /\ Answered' = Answered /\ Answered \in Nat
  BY <1>1 DEF IInv, InputInv, Answered, Input
<1>6. LastByte(Answered) \in Nat
  BY <1>5, ReplyBytes
<1>7. OutputInv'
  <2>1. Faithful(Output, dropped, LastByte(Answered))
    BY DEF IInv, OutputInv
  <2>2. Faithful(Append(Output, Report), dropped, LastByte(Answered))
    BY <1>2, <1>4, <1>6, <2>1, ReportKeepsFaith
  <2> QED BY <1>1, <1>4, <1>5, <2>2 DEF IInv, OutputInv
<1>8. TypeInv' /\ AwakeInv' /\ AgeInv'
  BY <1>1, <1>3 DEF IInv, TypeInv, AwakeInv, AgeInv, ReadComing
<1> QED BY <1>5, <1>7, <1>8 DEF IInv

\* The invariant holds in every reachable state.
LEMMA Invariance == Spec => []IInv
<1>1. IInv /\ [Next]_vars => IInv'
  <2> SUFFICES ASSUME IInv, [Next]_vars PROVE IInv'
    OBVIOUS
  <2>1. CASE UNCHANGED vars
    <3>1. UNCHANGED <<sent, driver_rx, receive_buf, transmit_buf, wire, dropped,
                      transport, tx_pending, requested, todo, pc, waits, rx_age>>
      BY <2>1 DEF vars, host, output, sched, mode
    <3> QED BY <3>1, BytesKept
            DEF IInv, TypeInv, AwakeInv, AgeInv, ReadComing, ToRead
  <2> QED BY <2>1, HostSendKeeps, LoopKeeps, ReadKeeps, TransmitKeeps, DispatchKeeps,
             ShutdownKeeps, ReportKeeps DEF Next, Task
<1> QED BY <1>1, InitHolds, PTL DEF Spec

-----------------------------------------------------------------------------
\* The task never sleeps on output, whatever the length of replies and chunks and
\* wherever a shutdown cuts a pass short (console.c:116-150).
THEOREM ConsoleNoOutputAsleep == Spec => []NoOutputAsleep
<1>1. IInv => NoOutputAsleep
  BY DEF IInv, AwakeInv, ToRead, NoOutputAsleep
<1> QED BY <1>1, Invariance, PTL

\* Every byte of every reply is sent or still buffered, once and in order, or is
\* among those a short write dropped, of which a UART has none (console.c:57-77).
THEOREM ConsoleOutputFaithful == Spec => []OutputFaithful
<1>1. IInv => OutputFaithful
  <2> SUFFICES ASSUME IInv PROVE OutputFaithful
    OBVIOUS
  <2>1. Input \in Seq(Nat)
    BY ConcatProperties DEF IInv, TypeInv, Input
  <2>2. Input = [i \in 1 .. Len(Input) |-> Answered + i]
    <3>1. Input = [i \in 1 .. Len(Input) |-> Input[i]]
      BY <2>1
    <3> QED BY <3>1 DEF IInv, InputInv
  <2> QED BY <2>2 DEF IInv, OutputInv, Faithful, OutputFaithful, Input, Output, Answered
<1> QED BY <1>1, Invariance, PTL

\* A received byte is read within one period of the wake, though a shutdown may cut
\* short the very pass that was to read it (console.c:123-132).
THEOREM ConsoleRxBounded == Spec => []RxBounded
<1>1. IInv => RxBounded
  BY DEF IInv, AgeInv, RxBounded
<1> QED BY <1>1, Invariance, PTL

-----------------------------------------------------------------------------
\* What the commands read can cost, all that waits in the buffers, and what a wake and
\* a shutdown add to it.
Cost(n)   == ReplyWork * n
Load      == 5 * Len(transmit_buf) + Cost(Len(receive_buf))
               + 5 * Len(driver_rx) + Cost(Len(driver_rx))
WakeWork  == IF requested THEN 5 ELSE 0
RaiseWork == IF is_shutdown THEN 0 ELSE 10

\* The sum of a state's work, all of it natural numbers.
Parts ==
  /\ Len(transmit_buf) \in Nat /\ Len(receive_buf) \in Nat /\ Len(driver_rx) \in Nat
  /\ StepsLeft \in Nat /\ WakeWork \in Nat /\ RaiseWork \in Nat /\ Load \in Nat
  /\ Work = StepsLeft + WakeWork + RaiseWork + Load

\* The step that transmits comes after the one that reads.
ReadFirstInv == pc = "io" => "console_io_task" \notin todo

\* A sum taken apart by a factor.
LEMMA Distributes ==
  /\ \A a, m, n \in Nat : a * (m + n) = a * m + a * n /\ (m + n) * a = m * a + n * a
  /\ \A a, n \in Nat : a * n \in Nat /\ a * 1 = a /\ a * 0 = 0
OBVIOUS

\* What commands cost adds up.
LEMMA Costs ==
  /\ Cost(0) = 0 /\ Cost(1) = 5 + 5 * ReplyLen
  /\ CommandWork \in Nat /\ CommandWork = 5 + Cost(1)
  /\ \A n \in Nat : Cost(n) \in Nat /\ CommandWork * n = 5 * n + Cost(n)
  /\ \A m, n \in Nat : Cost(m + n) = Cost(m) + Cost(n)
<1>1. /\ ReplyWork \in Nat /\ ReplyWork = 5 + 5 * ReplyLen
      /\ CommandWork \in Nat /\ CommandWork = 5 + ReplyWork
  BY Constants DEF ReplyWork, CommandWork, PassSteps
<1>2. \A n \in Nat : (5 + ReplyWork) * n = 5 * n + ReplyWork * n
  BY <1>1, Distributes
<1>3. \A n \in Nat : Cost(n) \in Nat
  BY <1>1, Distributes DEF Cost
<1>4. \A m, n \in Nat : Cost(m + n) = Cost(m) + Cost(n)
  BY <1>1, Distributes DEF Cost
<1>5. \A n \in Nat : CommandWork * n = 5 * n + Cost(n)
  BY <1>1, <1>2 DEF Cost
<1>6. Cost(0) = 0 /\ Cost(1) = ReplyWork
  BY <1>1, Distributes DEF Cost
<1> HIDE DEF Cost
<1> QED BY <1>1, <1>3, <1>4, <1>5, <1>6

\* The work of a state is the sum of its parts.
LEMMA WorkParts == TypeInv => Parts
<1> SUFFICES ASSUME TypeInv PROVE Parts
  OBVIOUS
<1>1. Len(transmit_buf) \in Nat /\ Len(receive_buf) \in Nat /\ Len(driver_rx) \in Nat
  BY InRange DEF TypeInv
<1>2. StepsLeft \in Nat
  <2>1. pc \in {"check", "tasks", "io", "report"}
    BY DEF TypeInv
  <2> QED BY <2>1 DEF StepsLeft, PassSteps
<1>3. WakeWork \in Nat /\ RaiseWork \in Nat
  BY DEF WakeWork, RaiseWork
<1>4. Cost(Len(receive_buf)) \in Nat /\ Cost(Len(driver_rx)) \in Nat
  BY <1>1, Costs
<1>5. Load \in Nat
  BY <1>1, <1>4 DEF Load
<1>6. Work = StepsLeft + WakeWork + RaiseWork + 5 * Len(transmit_buf)
               + Cost(Len(receive_buf)) + CommandWork * Len(driver_rx)
  BY DEF Work, WakeWork, RaiseWork, Cost, PassSteps
<1>7. CommandWork * Len(driver_rx) = 5 * Len(driver_rx) + Cost(Len(driver_rx))
  BY <1>1, Costs
<1>8. Work = StepsLeft + WakeWork + RaiseWork + Load
  BY <1>1, <1>2, <1>3, <1>4, <1>6, <1>7 DEF Load
<1> QED BY <1>1, <1>2, <1>3, <1>5, <1>8 DEF Parts

\* Before and after a step.
LEMMA PartsAround == IInv /\ IInv' => Parts /\ Parts'
<1>1. IInv => Parts
  BY WorkParts DEF IInv
<1> QED BY <1>1, PTL

\* A step whose own work falls by more than it adds to the load of the buffers.
LEMMA WorkFalls ==
  ASSUME Parts, Parts',
         NEW c \in Nat, Load' + c = Load,
         StepsLeft' + WakeWork' + RaiseWork' < StepsLeft + WakeWork + RaiseWork + c
  PROVE  Work' < Work
<1>1. PICK s \in Nat, w \in Nat, r \in Nat, l \in Nat :
        s = StepsLeft /\ w = WakeWork /\ r = RaiseWork /\ l = Load
  BY DEF Parts
<1>2. PICK s1 \in Nat, w1 \in Nat, r1 \in Nat, l1 \in Nat :
        s1 = StepsLeft' /\ w1 = WakeWork' /\ r1 = RaiseWork' /\ l1 = Load'
  BY DEF Parts
<1>3. Work = s + w + r + l /\ Work' = s1 + w1 + r1 + l1
  BY <1>1, <1>2 DEF Parts
<1>4. l1 + c = l
  BY <1>1, <1>2
<1>5. s1 + w1 + r1 < s + w + r + c
  BY <1>1, <1>2
<1>6. s1 + w1 + r1 + l1 < s + w + r + l
  BY <1>4, <1>5
<1> QED BY <1>3, <1>6

\* A step of a pass whose wake is paid by the load it takes off the buffers.
LEMMA PassStepFalls ==
  ASSUME Parts, Parts',
         NEW c \in Nat, Load' + c = Load,
         StepsLeft' = StepsLeft - 1, WakeWork' <= WakeWork + c, RaiseWork' = RaiseWork
  PROVE  Work' < Work
<1>1. PICK s \in Nat, w \in Nat, r \in Nat, w1 \in Nat :
        s = StepsLeft /\ w = WakeWork /\ r = RaiseWork /\ w1 = WakeWork'
  BY DEF Parts
<1>2. w1 <= w + c
  BY <1>1
<1>3. (s - 1) + w1 + r < s + w + r + c
  BY <1>2
<1>4. StepsLeft' + WakeWork' + RaiseWork' < StepsLeft + WakeWork + RaiseWork + c
  BY <1>1, <1>3
<1> QED BY <1>4, WorkFalls

\* The half that reads: each command taken from the driver pays for its wake.
LEMMA ReadShrinks == IInv /\ IInv' /\ console_read => Work' < Work
<1> SUFFICES ASSUME IInv, IInv', console_read PROVE Work' < Work
  OBVIOUS
<1> DEFINE R == Len(receive_buf)
           D == Len(driver_rx)
<1>1. /\ pc = "tasks" /\ "console_io_task" \in todo
      /\ pc' = "io" /\ todo' = todo \ {"console_io_task"}
      /\ receive_buf' = receive_buf \o driver_rx /\ driver_rx' = <<>>
      /\ requested' = (requested \/ driver_rx # <<>>)
      /\ UNCHANGED <<transmit_buf, is_shutdown>>
  BY DEF console_read, output, mode
<1>2. driver_rx \in Seq(Nat) /\ receive_buf \in Seq(Nat) /\ R \in Nat /\ D \in Nat
  BY InRange DEF IInv, TypeInv
<1>3. Len(receive_buf') = R + D /\ Len(driver_rx') = 0
  BY <1>1, <1>2, ConcatProperties, EmptySeq
<1>4. driver_rx = <<>> \/ D > 0
  BY <1>2, EmptySeq
<1>5. Cost(R + D) = Cost(R) + Cost(D) /\ Cost(0) = 0 /\ Cost(R) \in Nat /\ Cost(D) \in Nat
  BY <1>2, Costs
<1>6. Load = 5 * Len(transmit_buf) + Cost(R) + 5 * D + Cost(D)
  BY DEF Load
<1>7. Load' = 5 * Len(transmit_buf) + Cost(R + D) + 5 * 0 + Cost(0)
  <2> HIDE DEF R, D
  <2> QED BY <1>1, <1>3 DEF Load
<1>8. WakeWork' <= WakeWork + 5 * D
  <2>1. CASE driver_rx = <<>>
    <3>1. WakeWork' = WakeWork /\ WakeWork \in Nat
      BY <1>1, <2>1 DEF WakeWork
    <3> HIDE DEF D
    <3> QED BY <1>2, <3>1
  <2>2. CASE D > 0
    <3>1. WakeWork' <= 5 /\ WakeWork \in Nat
      BY DEF WakeWork
    <3>2. WakeWork' \in Nat
      BY DEF WakeWork
    <3> HIDE DEF D
    <3> QED BY <1>2, <2>2, <3>1, <3>2
  <2> QED BY <1>4, <2>1, <2>2
<1>9. StepsLeft' = StepsLeft - 1 /\ RaiseWork' = RaiseWork
  BY <1>1 DEF StepsLeft, RaiseWork
<1>10. Parts /\ Parts'
  BY PartsAround
<1>11. R \in Nat /\ D \in Nat /\ Len(transmit_buf) \in Nat
  BY <1>10 DEF Parts
<1> HIDE DEF R, D
<1>12. 5 * D \in Nat /\ Load' + 5 * D = Load
  BY <1>5, <1>6, <1>7, <1>11
<1> QED BY <1>8, <1>9, <1>10, <1>12, PassStepFalls

\* The half that transmits: a full chunk pays for the pass it asks for.
LEMMA TransmitShrinks ==
  IInv /\ IInv' /\ ReadFirstInv /\ (io_idle \/ io_transmit) => Work' < Work
<1> SUFFICES ASSUME IInv, IInv', ReadFirstInv, io_idle \/ io_transmit PROVE Work' < Work
  OBVIOUS
<1>1. /\ pc = "io" /\ pc' = "tasks"
      /\ UNCHANGED <<driver_rx, receive_buf, todo, is_shutdown>>
  BY DEF io_idle, io_transmit, host, mode
<1>2. StepsLeft' = StepsLeft - 1 /\ RaiseWork' = RaiseWork
  BY <1>1 DEF StepsLeft, RaiseWork, ReadFirstInv
<1>3. Parts /\ Parts'
  BY PartsAround
<1>4. CASE io_idle
  <2>1. Load' = Load /\ WakeWork' = WakeWork
    BY <1>1, <1>4 DEF io_idle, output, Load, WakeWork
  <2>2. Load' + 0 = Load /\ WakeWork' <= WakeWork + 0
    BY <1>3, <2>1 DEF Parts
  <2> QED BY <1>2, <1>3, <2>2, PassStepFalls
<1>5. CASE io_transmit
  <2> DEFINE B   == Len(transmit_buf)
             len == IF B < MessageMax THEN B ELSE MessageMax
  <2>1. /\ transmit_buf' = SubSeq(transmit_buf, len + 1, B)
        /\ finish_write(len)
    BY <1>5 DEF io_transmit
  <2>2. /\ transmit_buf \in Seq(Nat) /\ B \in Nat /\ len \in 0 .. B
        /\ \A i \in 1 .. B : transmit_buf[i] \in Nat
    BY Constants, InRange DEF IInv, TypeInv
  <2> HIDE DEF len, B
  <2>3. Len(transmit_buf') \in Nat /\ Len(transmit_buf') + len = B
    <3>1. \A i \in len + 1 .. B : transmit_buf[i] \in Nat
      BY <2>2
    <3>2. Len(transmit_buf') = IF len + 1 <= B THEN B - (len + 1) + 1 ELSE 0
      BY <2>1, <2>2, <3>1, SubSeqProperties
    <3> QED BY <2>2, <3>2
  <2>4. WakeWork' <= WakeWork + 5 * len
    <3>1. CASE len = MessageMax
      <4>1. len >= 1
        BY <3>1, Constants
      <4> QED BY <2>2, <4>1 DEF WakeWork
    <3>2. CASE len # MessageMax
      <4>1. requested' = requested
        BY <2>1, <3>2 DEF finish_write
      <4> QED BY <2>2, <4>1 DEF WakeWork
    <3> QED BY <3>1, <3>2
  <2>5. Load' + 5 * len = Load
    <3>1. Cost(Len(receive_buf)) \in Nat /\ Cost(Len(driver_rx)) \in Nat
      BY <1>3, Costs DEF Parts
    <3>2. PICK r \in Nat, d \in Nat, n \in Nat :
            /\ r = Cost(Len(receive_buf)) /\ d = Cost(Len(driver_rx)) /\ n = Len(driver_rx)
      BY <1>3, <3>1 DEF Parts
    <3>3. Load = 5 * B + r + 5 * n + d /\ Load' = 5 * Len(transmit_buf') + r + 5 * n + d
      BY <1>1, <3>2 DEF Load, B
    <3>4. PICK k \in Nat : k = Len(transmit_buf')
      BY <2>2, <2>3
    <3>5. (5 * k + r + 5 * n + d) + 5 * len = 5 * B + r + 5 * n + d
      BY <2>2, <2>3, <3>4
    <3> QED BY <3>3, <3>4, <3>5
  <2>6. 5 * len \in Nat
    BY <2>2
  <2> QED BY <1>2, <1>3, <2>4, <2>5, <2>6, PassStepFalls
<1> QED BY <1>4, <1>5

\* A command pays for its dispatch, for the bytes of its reply and for their wake.
LEMMA DispatchShrinks == IInv /\ IInv' /\ console_task => Work' < Work
<1> SUFFICES ASSUME IInv, IInv', console_task PROVE Work' < Work
  OBVIOUS
<1> DEFINE R == Len(receive_buf)
           B == Len(transmit_buf)
<1>1. /\ pc = "tasks" /\ "console_task" \in todo /\ todo' = todo \ {"console_task"}
      /\ receive_buf # <<>> /\ receive_buf' = Tail(receive_buf)
      /\ transmit_buf' = transmit_buf \o Reply(Head(receive_buf))
      /\ requested' /\ UNCHANGED <<driver_rx, pc, is_shutdown>>
  BY DEF console_task, serial_enable_tx_irq, host, mode
<1>2. /\ receive_buf \in Seq(Nat) /\ transmit_buf \in Seq(Nat) /\ driver_rx \in Seq(Nat)
      /\ R \in Nat /\ B \in Nat /\ Len(driver_rx) \in Nat
  BY InRange DEF IInv, TypeInv
<1>3. R > 0 /\ Len(receive_buf') = R - 1
  <2>1. Head(receive_buf) = receive_buf[1] /\ Len(Tail(receive_buf)) = R - 1
    BY <1>1, <1>2, HeadTailProperties
  <2>2. R # 0
    BY <1>1, <1>2, EmptySeq
  <2> QED BY <1>1, <1>2, <2>1, <2>2
<1>4. Head(receive_buf) = Answered + 1 /\ Answered \in Nat
  <2>1. Head(receive_buf) = receive_buf[1]
    BY <1>1, <1>2, HeadTailProperties
  <2>2. Len(Input) = R + Len(driver_rx) /\ Input[1] = receive_buf[1]
    <3>1. /\ Len(Input) = R + Len(driver_rx)
          /\ \A i \in 1 .. R + Len(driver_rx) :
               Input[i] = IF i <= R THEN receive_buf[i] ELSE driver_rx[i - R]
      BY <1>2, ConcatProperties DEF Input
    <3> HIDE DEF R
    <3> QED BY <1>2, <1>3, <3>1
  <2>3. 1 \in 1 .. Len(Input)
    BY <1>2, <1>3, <2>2
  <2> QED BY <2>1, <2>2, <2>3 DEF IInv, InputInv
<1>5. Len(transmit_buf') = B + ReplyLen
  <2>1. Reply(Answered + 1) \in Seq(Nat) /\ Len(Reply(Answered + 1)) = ReplyLen
    BY <1>4, ReplyBytes
  <2>2. transmit_buf' = transmit_buf \o Reply(Answered + 1)
    BY <1>1, <1>4
  <2> QED BY <1>2, <2>1, <2>2, ConcatProperties
<1>6. /\ Cost(R) = Cost(R - 1) + Cost(1) /\ Cost(R - 1) \in Nat
      /\ Cost(1) = 5 + 5 * ReplyLen /\ Cost(Len(driver_rx)) \in Nat
  <2>1. R - 1 \in Nat /\ R = (R - 1) + 1
    BY <1>2, <1>3
  <2>2. PICK n \in Nat : n = R - 1
    BY <2>1
  <2>3. R = n + 1
    BY <2>1, <2>2
  <2>4. Cost(n + 1) = Cost(n) + Cost(1) /\ Cost(n) \in Nat
    BY Costs
  <2>5. Cost(1) = 5 + 5 * ReplyLen /\ Cost(Len(driver_rx)) \in Nat
    BY <1>2, Costs
  <2> HIDE DEF R
  <2> QED BY <2>2, <2>3, <2>4, <2>5
<1>7. Parts /\ Parts'
  BY PartsAround
<1>8. StepsLeft' = StepsLeft - 1
  BY <1>1 DEF StepsLeft
<1>9. WakeWork' <= WakeWork + 5 /\ RaiseWork' = RaiseWork
  BY <1>1 DEF WakeWork, RaiseWork
<1>10. Load' + 5 = Load
  <2>1. Load = 5 * B + Cost(R) + 5 * Len(driver_rx) + Cost(Len(driver_rx))
    BY DEF Load
  <2>2. Load' = 5 * (B + ReplyLen) + Cost(R - 1) + 5 * Len(driver_rx) + Cost(Len(driver_rx))
    <3> HIDE DEF R, B
    <3> QED BY <1>1, <1>3, <1>5 DEF Load
  <2>3. PICK r \in Nat, d \in Nat, n \in Nat :
          r = Cost(R - 1) /\ d = Cost(Len(driver_rx)) /\ n = Len(driver_rx)
    BY <1>2, <1>6
  <2> HIDE DEF R, B
  <2>4. Load = 5 * B + (r + (5 + 5 * ReplyLen)) + 5 * n + d
    BY <1>6, <2>1, <2>3
  <2>5. Load' = 5 * (B + ReplyLen) + r + 5 * n + d
    BY <2>2, <2>3
  <2>6. PICK k \in Nat : k = ReplyLen
    BY Constants
  <2>7. (5 * (B + k) + r + 5 * n + d) + 5 = 5 * B + (r + (5 + 5 * k)) + 5 * n + d
    BY <1>2
  <2> QED BY <2>4, <2>5, <2>6, <2>7
<1> QED BY <1>7, <1>8, <1>9, <1>10, PassStepFalls

\* Every step but the wait itself uses up work; a command of the host adds its cost.
LEMMA StepShrinks ==
  ASSUME IInv, IInv', ReadFirstInv, Next
  PROVE  IF sent' # sent THEN Work' <= Work + CommandWork
         ELSE Work' < Work \/ (pc = "check" /\ ~requested)
<1>0. Parts /\ Parts'
  BY PartsAround
<1>1. CASE HostSend
  <2>1. /\ sent' = sent + 1 /\ driver_rx' = Append(driver_rx, sent')
        /\ UNCHANGED <<transmit_buf, receive_buf, requested, pc, todo, is_shutdown>>
    BY <1>1 DEF HostSend, output, sched, mode
  <2>2. sent' # sent /\ Len(driver_rx') = Len(driver_rx) + 1
    BY <2>1, AppendProperties DEF IInv, TypeInv
  <2>3. /\ Cost(Len(driver_rx) + 1) = Cost(Len(driver_rx)) + Cost(1)
        /\ Cost(Len(driver_rx)) \in Nat /\ Cost(Len(receive_buf)) \in Nat /\ Cost(1) \in Nat
        /\ CommandWork = 5 + Cost(1)
    BY <1>0, Costs DEF Parts
  <2>4. Load' = Load + CommandWork
    <3>1. Load' = 5 * Len(transmit_buf) + Cost(Len(receive_buf))
                    + 5 * (Len(driver_rx) + 1) + Cost(Len(driver_rx) + 1)
      BY <2>1, <2>2 DEF Load
    <3>2. PICK b \in Nat, r \in Nat, n \in Nat, d \in Nat, c \in Nat :
            /\ b = Len(transmit_buf) /\ r = Cost(Len(receive_buf))
            /\ n = Len(driver_rx) /\ d = Cost(Len(driver_rx)) /\ c = Cost(1)
      BY <1>0, <2>3 DEF Parts
    <3>3. Load = 5 * b + r + 5 * n + d /\ Load' = 5 * b + r + 5 * (n + 1) + (d + c)
      BY <2>3, <3>1, <3>2 DEF Load
    <3>4. 5 * b + r + 5 * (n + 1) + (d + c) = (5 * b + r + 5 * n + d) + (5 + c)
      OBVIOUS
    <3> QED BY <2>3, <3>2, <3>3, <3>4
  <2>5. StepsLeft' = StepsLeft
    BY <2>1 DEF StepsLeft
  <2>6. WakeWork' = WakeWork /\ RaiseWork' = RaiseWork
    BY <2>1 DEF WakeWork, RaiseWork
  <2>7. Work' <= Work + CommandWork
    <3>1. PICK s \in Nat, w \in Nat, r \in Nat, l \in Nat, c \in Nat :
            /\ s = StepsLeft /\ w = WakeWork /\ r = RaiseWork /\ l = Load
            /\ c = CommandWork
      BY <1>0, Costs DEF Parts
    <3>2. Work = s + w + r + l /\ Work' = s + w + r + (l + c)
      BY <1>0, <2>4, <2>5, <2>6, <3>1 DEF Parts
    <3>3. s + w + r + (l + c) <= (s + w + r + l) + c
      OBVIOUS
    <3> QED BY <3>1, <3>2, <3>3
  <2> QED BY <2>2, <2>7
<1>2. CASE irq_wait
  BY <1>2 DEF irq_wait, host
<1>3. CASE TasksStart \/ TasksEnd \/ console_task_idle \/ RaiseShutdown
  <2>1. UNCHANGED <<sent, driver_rx, receive_buf, transmit_buf>>
    BY <1>3 DEF TasksStart, TasksEnd, console_task_idle, RaiseShutdown, host, output
  <2>2. Load' = Load
    BY <2>1 DEF Load
  <2>3. StepsLeft' + WakeWork' + RaiseWork' < StepsLeft + WakeWork + RaiseWork
    <3>1. CASE TasksStart
      BY <3>1 DEF TasksStart, mode, TaskList, StepsLeft, WakeWork, RaiseWork, PassSteps
    <3>2. CASE TasksEnd
      BY <3>2 DEF TasksEnd, mode, StepsLeft, WakeWork, RaiseWork, PassSteps
    <3>3. CASE console_task_idle
      BY <3>3 DEF console_task_idle, mode, StepsLeft, WakeWork, RaiseWork, PassSteps
    <3>4. CASE RaiseShutdown
      BY <3>4 DEF RaiseShutdown, StepsLeft, WakeWork, RaiseWork, PassSteps
    <3> QED BY <1>3, <3>1, <3>2, <3>3, <3>4
  <2>4. Load' + 0 = Load
    BY <1>0, <2>2 DEF Parts
  <2>5. StepsLeft' + WakeWork' + RaiseWork' < StepsLeft + WakeWork + RaiseWork + 0
    <3>1. PICK n \in Nat : n = StepsLeft + WakeWork + RaiseWork
      BY <1>0 DEF Parts
    <3> QED BY <2>3, <3>1
  <2> QED BY <1>0, <2>1, <2>4, <2>5, WorkFalls
<1>4. CASE console_read \/ io_idle \/ io_transmit \/ console_task
  <2>1. sent' = sent
    BY <1>4 DEF console_read, io_idle, io_transmit, console_task, host
  <2> QED BY <1>4, <2>1, ReadShrinks, TransmitShrinks, DispatchShrinks
<1>5. CASE SendReport
  <2>1. /\ pc = "report" /\ pc' = "check" /\ requested'
        /\ transmit_buf' = Append(transmit_buf, Report)
        /\ UNCHANGED <<sent, driver_rx, receive_buf, is_shutdown>>
    BY <1>5 DEF SendReport, serial_enable_tx_irq, host, mode
  <2>2. Len(transmit_buf') = Len(transmit_buf) + 1 /\ Len(transmit_buf) \in Nat
    BY <2>1, AppendProperties, InRange DEF IInv, TypeInv, Report
  <2>3. Load' = Load + 5
    <3>1. PICK b \in Nat, r \in Nat, n \in Nat, d \in Nat :
            /\ b = Len(transmit_buf) /\ r = Cost(Len(receive_buf))
            /\ n = Len(driver_rx) /\ d = Cost(Len(driver_rx))
      BY <1>0, Costs DEF Parts
    <3>2. Load = 5 * b + r + 5 * n + d /\ Load' = 5 * (b + 1) + r + 5 * n + d
      BY <2>1, <2>2, <3>1 DEF Load
    <3>3. 5 * (b + 1) + r + 5 * n + d = (5 * b + r + 5 * n + d) + 5
      OBVIOUS
    <3> QED BY <3>2, <3>3
  <2>4. /\ StepsLeft = 11 /\ StepsLeft' = 0 /\ WakeWork' = 5 /\ RaiseWork' = RaiseWork
    BY <2>1 DEF StepsLeft, WakeWork, RaiseWork, PassSteps
  <2>5. PICK w \in Nat, r \in Nat, l \in Nat :
          w = WakeWork /\ r = RaiseWork /\ l = Load
    BY <1>0 DEF Parts
  <2>6. Work = 11 + w + r + l /\ Work' = 0 + 5 + r + (l + 5)
    BY <1>0, <2>3, <2>4, <2>5 DEF Parts
  <2>7. 0 + 5 + r + (l + 5) < 11 + w + r + l
    OBVIOUS
  <2> QED BY <2>1, <2>6, <2>7
<1> QED BY <1>1, <1>2, <1>3, <1>4, <1>5 DEF Next, Task

\* The safety half of the watchdog's feeding: between two waits the task takes at most
\* as many steps as there is work, and only commands of the host add to it, whatever
\* the lengths of chunks and replies (console.c:116-150, timer.c:190).
THEOREM ConsoleWorkShrinks == Spec => WorkShrinks
<1>1. Init => ReadFirstInv
  BY DEF Init, ReadFirstInv
<1>2. ReadFirstInv /\ [Next]_vars => ReadFirstInv'
  BY DEF ReadFirstInv, Next, Task, HostSend, irq_wait, TasksStart, TasksEnd, console_read,
         io_idle, io_transmit, console_task_idle, console_task, RaiseShutdown, SendReport,
         vars, sched
<1>3. IInv /\ IInv' /\ ReadFirstInv /\ [Next]_vars
        => [IF sent' # sent THEN Work' <= Work + CommandWork
            ELSE Work' < Work \/ (pc = "check" /\ ~requested)]_vars
  BY StepShrinks
<1> QED BY <1>1, <1>2, <1>3, Invariance, PTL DEF Spec, WorkShrinks

=============================================================================
