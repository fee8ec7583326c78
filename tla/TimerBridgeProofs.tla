------------------------- MODULE TimerBridgeProofs -------------------------
(***************************************************************************)
(* The safety of the timer bridge, for every width of the timestamp, every *)
(* delay Klipper may ask for and every interleaving of the counter, the    *)
(* interrupt and the task.                                                 *)
(***************************************************************************)
EXTENDS TimerBridge, TLAPS

-----------------------------------------------------------------------------
(***************************************************************************)
(* First what timer_alarm_count_for returns, for every width of the        *)
(* timestamp and every minimum lead below half an epoch.                   *)
(***************************************************************************)

(***************************************************************************)
(* Arithmetic the casts rest on: division with remainder, and how far a    *)
(* multiple of n is from zero.                                             *)
(***************************************************************************)
LEMMA ModIdentity ==
  ASSUME NEW a \in Nat, NEW n \in Nat, a < n
  PROVE  a % n = a
OBVIOUS

\* Division with remainder, as the (uint32_t) conversion uses it.
LEMMA DivMod ==
  ASSUME NEW a \in Int, NEW n \in Nat \ {0}
  PROVE  /\ a \div n \in Int
         /\ a % n \in 0 .. n - 1
         /\ a = n * (a \div n) + (a % n)
OBVIOUS

\* A multiple of n strictly between -2n and n is 0 or -n.
LEMMA SmallMultiple ==
  ASSUME NEW n \in Nat \ {0}, NEW k \in Int
  PROVE  /\ n * k \in Int
         /\ k >= 1 => n * k >= n
         /\ k <= -2 => n * k <= -n - n
         /\ k = -1 => n * k = -n
         /\ k = 0 => n * k = 0
OBVIOUS

\* An epoch is two halves, and not zero.
LEMMA EpochType == Epoch \in Nat \ {0} /\ Epoch = Half + Half
BY HalfAssumption DEF Epoch

(***************************************************************************)
(* The signed difference of two wrapped timestamps is the difference of    *)
(* the times they stand for when those are within half an epoch: the       *)
(* (int32_t)(next - (uint32_t)now) of timer_math.h:20.                     *)
(***************************************************************************)
LEMMA SignedDifference ==
  ASSUME NEW n \in Int, NEW d \in Int,
         d - n >= -Half, d - n < Half
  PROVE  Int32(UInt32(d) - UInt32(n)) = d - n
<1> DEFINE q1 == d \div Epoch
           q2 == n \div Epoch
           D  == UInt32(d) - UInt32(n)
           q3 == D \div Epoch
           k  == q1 - (q2 - q3)
           u  == UInt32(D)
<1>1. Epoch \in Nat \ {0} /\ Epoch = Half + Half /\ Half \in Nat \ {0}
  BY EpochType, HalfAssumption
<1>2. q1 \in Int /\ UInt32(d) \in 0 .. Epoch - 1 /\ d = Epoch * q1 + UInt32(d)
  BY <1>1, DivMod DEF UInt32
<1>3. q2 \in Int /\ UInt32(n) \in 0 .. Epoch - 1 /\ n = Epoch * q2 + UInt32(n)
  BY <1>1, DivMod DEF UInt32
<1>4. D \in Int
  BY <1>1, <1>2, <1>3
<1>5. q3 \in Int /\ u \in 0 .. Epoch - 1 /\ D = Epoch * q3 + u
  BY <1>1, <1>4, DivMod DEF UInt32
<1>6. k \in Int /\ Epoch * k = Epoch * q1 - (Epoch * q2 - Epoch * q3)
  BY <1>1, <1>2, <1>3, <1>5
<1>7. d - n = Epoch * k + u
  <2> DEFINE a == Epoch * q1  b == Epoch * q2  c == Epoch * q3  e == Epoch * k
  <2>1. a \in Int /\ b \in Int /\ c \in Int /\ e \in Int
    BY <1>1, <1>2, <1>3, <1>5, <1>6, SmallMultiple
  <2>2. UInt32(d) \in Int /\ UInt32(n) \in Int /\ u \in Int
    BY <1>1, <1>2, <1>3, <1>5
  <2>3. /\ d = a + UInt32(d) /\ n = b + UInt32(n)
        /\ UInt32(d) - UInt32(n) = c + u /\ e = a - (b - c)
    BY <1>2, <1>3, <1>5, <1>6
  <2> HIDE DEF a, b, c, e, u
  <2>4. d - n = e + u
    BY <2>1, <2>2, <2>3
  <2> QED BY <2>4 DEF e
<1> HIDE DEF k, u, D
<1>8. k \in {0, -1}
  <2>1. ~(k >= 1)
    BY <1>1, <1>5, <1>6, <1>7, SmallMultiple
  <2>2. ~(k <= -2)
    <3> SUFFICES ASSUME k <= -2 PROVE FALSE
      OBVIOUS
    <3>1. Epoch * k \in Int /\ Epoch * k <= -Epoch - Epoch
      BY <1>1, <1>6, SmallMultiple
    <3> QED BY <1>1, <1>5, <1>7, <3>1
  <2> QED BY <1>6, <2>1, <2>2
<1>9. CASE k = 0
  <2>1. u = d - n
    BY <1>1, <1>5, <1>7, <1>9, SmallMultiple
  <2> QED BY <1>1, <2>1 DEF Int32, u, D
<1>10. CASE k = -1
  <2>1. u = d - n + Epoch /\ ~(u < Half)
    BY <1>1, <1>5, <1>7, <1>10, SmallMultiple
  <2>2. Int32(D) = u - Epoch
    BY <2>1 DEF Int32, u
  <2> QED BY <1>1, <1>5, <2>1, <2>2 DEF D
<1> QED BY <1>8, <1>9, <1>10

(***************************************************************************)
(* Whatever the timestamp, the alarm keeps the minimum lead over the count *)
(* that was read: what installing it in time relies on (timer_math.h:9-11).*)
(***************************************************************************)
LEMMA AlarmLead ==
  ASSUME NEW n \in Int, NEW next \in Int
  PROVE  /\ timer_alarm_count_for(n, next) \in Int
         /\ timer_alarm_count_for(n, next) >= n + MinAlarmTicks
         /\ timer_alarm_count_for(n, next) < n + Half
<1> DEFINE delta == Int32(next - UInt32(n))
<1>1. Epoch \in Nat \ {0} /\ Epoch = Half + Half /\ Half \in Nat \ {0}
  BY EpochType, HalfAssumption
<1>2. UInt32(n) \in Int
  BY <1>1, DivMod DEF UInt32
<1>3. UInt32(next - UInt32(n)) \in 0 .. Epoch - 1
  BY <1>1, <1>2, DivMod DEF UInt32
<1>4. delta \in Int /\ delta < Half
  BY <1>1, <1>3 DEF Int32
<1> HIDE DEF delta
<1>5. /\ Larger(delta, MinAlarmTicks) \in Nat
      /\ Larger(delta, MinAlarmTicks) >= MinAlarmTicks
      /\ Larger(delta, MinAlarmTicks) < Half
  BY <1>1, <1>4, MinAlarmAssumption DEF Larger
<1>6. UInt32(Larger(delta, MinAlarmTicks)) = Larger(delta, MinAlarmTicks)
  BY <1>1, <1>5, ModIdentity DEF UInt32
<1> QED BY <1>1, <1>5, <1>6, MinAlarmAssumption DEF timer_alarm_count_for, delta

(***************************************************************************)
(* For a deadline within half an epoch the alarm is for that very deadline,*)
(* or for the minimum lead when it is late or too near.                    *)
(***************************************************************************)
LEMMA AlarmExact ==
  ASSUME NEW n \in Int, NEW d \in Int,
         d - n >= -Half, d - n < Half
  PROVE  timer_alarm_count_for(n, UInt32(d)) = Larger(d, n + MinAlarmTicks)
<1>1. Epoch \in Nat \ {0} /\ Epoch = Half + Half /\ Half \in Nat \ {0}
  BY EpochType, HalfAssumption
<1>2. Int32(UInt32(d) - UInt32(n)) = d - n
  BY SignedDifference
<1>3. /\ Larger(d - n, MinAlarmTicks) \in Nat
      /\ Larger(d - n, MinAlarmTicks) < Epoch
      /\ n + Larger(d - n, MinAlarmTicks) = Larger(d, n + MinAlarmTicks)
  BY <1>1, MinAlarmAssumption DEF Larger
<1>4. UInt32(Larger(d - n, MinAlarmTicks)) = Larger(d - n, MinAlarmTicks)
  BY <1>1, <1>3, ModIdentity DEF UInt32
<1> QED BY <1>2, <1>3, <1>4 DEF timer_alarm_count_for

-----------------------------------------------------------------------------
(***************************************************************************)
(* The inductive invariant.  None of the properties is inductive alone:    *)
(* the wake chain needs to know that a freshly installed alarm is ahead,   *)
(* that needs how far the counter may have run since it was read, and both *)
(* need to know who called timer_set and how deep the critical sections    *)
(* are, since an interrupt can only come in at depth zero.                 *)
(***************************************************************************)

\* How deep the caller of timer_set or timer_kick is.
CallerDepth == IF ret = "restore" THEN 1 ELSE IF ret = "clear" THEN 1 ELSE 0

DepthInv ==
  /\ pc \in {"start", "take", "many", "next", "feed", "block", "tasks"} => nest = abandoned
  /\ pc \in {"check", "restore"} => nest = abandoned + 1
  /\ pc \in {"clear", "end"} => nest = abandoned + 1
  /\ pc \in {"kick", "set"} => nest = abandoned + CallerDepth
  /\ pc = "arm" => nest = abandoned + CallerDepth + 1
  /\ abandoned > 0 => is_shutdown

ReturnInv ==
  /\ pc \in {"take", "many", "next"} => ret \in {"feed", "tasks"}
  /\ pc \in {"feed", "block"} => ret = "feed"
  /\ pc = "kick" => ret \in {"restore", "clear"}

\* timer_set holds a fresh count while it installs the alarm.
LeadInv == pc = "arm" => now <= count /\ count <= now + InstallTicks

\* The time asked for is within half an epoch of the count it is compared with, also
\* after a dispatch that runs the periodic timer before its time.
ReachInv ==
  /\ \A t \in Timers : timers[t] - count < Half
  /\ pc # "block" => lag <= PassTicks
  /\ pc = "set" => wake - count < Half /\ count <= wake + lag
  /\ pc = "arm" => wake - now < Half /\ now <= wake + PassTicks
  /\ overrun => Room
  /\ early => timers["periodic"] + Period < count + Half

\* The chain of alarm, interrupt and flag, and what a shutdown still holds of it
\* when it drops the flag.
ChainInv ==
  /\ NoMissedAlarm
  /\ WakeChain
  /\ pc = "clear" => alarm > count \/ intr

\* From the poll in irq_wait to its sleep, a raised flag carries a notification.
NotifyInv ==
  /\ pc \in {"many", "next", "set", "arm", "feed", "block"}
  /\ ret = "feed"
  /\ must_dispatch
  => notified

\* Whoever kicks has put the placeholder at the head of the list.
HeadInv ==
  /\ Scheduled("periodic")
  /\ Scheduled("deleted") => Earliest("deleted")
  /\ pc \in {"kick", "set", "arm"} /\ ret \in {"restore", "clear"} => Scheduled("deleted")
  /\ pc = "clear" => Scheduled("deleted")

\* There is something for a dispatch to run at count c.
Backed(c) == Scheduled("deleted") \/ \E t \in Timers : Scheduled(t) /\ timers[t] <= c

\* Why a flag is raised: something is to be run by then, or the alarm that raised it
\* went off in the midst of a dispatch.
CauseInv ==
  /\ early => pc = "many"
  /\ must_dispatch /\ abandoned > 0 => pc \in {"kick", "set", "arm", "clear"} /\ ret = "clear"
  /\ InDispatch /\ (must_dispatch \/ intr) => overrun
  /\ ~InDispatch /\ (must_dispatch \/ intr) => overrun \/ Backed(count)
  /\ ~InDispatch /\ alarm # 0 => Backed(alarm)
  /\ pc = "many" => early \/ Backed(count)
  /\ pc \in {"set", "arm"} /\ InDispatch => \E t \in Timers : Scheduled(t) /\ timers[t] = wake

BaseInv == /\ TypeOK /\ DepthInv /\ ReturnInv /\ LeadInv
           /\ ReachInv /\ ChainInv /\ NotifyInv

IInv == BaseInv /\ HeadInv /\ CauseInv


USE DEF hardware, flags, locals, sched, vars

\* The timestamp of any integer count is an integer.
LEMMA StampType ==
  ASSUME NEW x \in Int
  PROVE  UInt32(x) \in Int
BY EpochType, DivMod DEF UInt32

\* Klipper's own timers are among them, and are not the user's.
LEMMA OwnTimers == /\ "periodic" \in Timers /\ "deleted" \in Timers
                   /\ "periodic" \notin UserTimers /\ "deleted" \notin UserTimers
                   /\ UserTimers \subseteq Timers
BY UserAssumption DEF Timers

\* timer_init leaves the bridge in the invariant.
LEMMA InitInvariant == Init => IInv
<1> SUFFICES ASSUME Init PROVE IInv
  OBVIOUS
<1>1. /\ timer_alarm_count_for(0, UInt32(KickTicks)) \in Int
      /\ timer_alarm_count_for(0, UInt32(KickTicks)) >= MinAlarmTicks
  BY KickAssumption, HalfAssumption, MinAlarmAssumption, StampType, AlarmLead
<1>2. TypeOK
  <2>1. alarm \in Nat
    BY <1>1, HalfAssumption, MinAlarmAssumption DEF Init
  <2>2. timers \in [Timers -> Nat \cup {Off}]
    BY DEF Init, Off
  <2>3. count \in 0 .. MaxCount /\ now \in Nat /\ wake \in Nat /\ lag \in Nat
        /\ nest \in 0 .. 4 /\ abandoned \in 0 .. 2
    BY CountAssumption DEF Init
  <2>4. /\ intr = FALSE /\ must_dispatch = FALSE /\ notified = FALSE
        /\ requested = FALSE /\ polled = FALSE /\ is_shutdown = FALSE
        /\ pc = "start" /\ ret = "feed" /\ overrun = FALSE /\ early = FALSE
    BY DEF Init
  <2> QED
    BY <2>1, <2>2, <2>3, <2>4 DEF TypeOK
<1>3. DepthInv /\ ReturnInv /\ LeadInv /\ NotifyInv
  BY DEF Init, DepthInv, ReturnInv, LeadInv, NotifyInv
<1>4. ReachInv
  BY HalfAssumption, PassAssumption DEF Init, ReachInv, Off
<1>5. ChainInv
  BY <1>1, MinAlarmAssumption
     DEF Init, ChainInv, NoMissedAlarm, WakeChain
<1>6. timers["periodic"] = 0 /\ \A t \in Timers \ {"periodic"} : timers[t] = Off
  BY OwnTimers DEF Init
<1>7. HeadInv
  BY <1>6, OwnTimers DEF Init, HeadInv, Scheduled, Off
<1>8. CauseInv
  <2>1. ~InDispatch /\ pc = "start" /\ ~early /\ ~must_dispatch /\ ~intr /\ alarm \in Nat
    BY <1>2 DEF Init, InDispatch, TypeOK
  <2>2. Backed(alarm)
    BY <1>6, <2>1, OwnTimers DEF Backed, Scheduled, Off
  <2> QED BY <2>1, <2>2 DEF CauseInv
<1> QED
  BY <1>2, <1>3, <1>4, <1>5, <1>7, <1>8 DEF IInv, BaseInv

\* The timer a dispatch runs is the earliest, and a first one is due unless early.
LEMMA HeadDue ==
  ASSUME IInv, NEW t \in Timers, Head(t)
  PROVE  /\ Earliest(t)
         /\ pc = "many" /\ ~early => t = "deleted" \/ timers[t] <= count
<1>1. \A u \in Timers : timers[u] \in Int
  BY DEF IInv, BaseInv, TypeOK, Off
<1>2. count \in Int
  BY CountAssumption DEF IInv, BaseInv, TypeOK
<1>3. Earliest(t)
  BY DEF Head, IInv, HeadInv
<1>4. CASE t = "deleted"
  BY <1>3, <1>4
<1>5. CASE t # "deleted"
  <2>1. ~Scheduled("deleted")
    BY <1>5 DEF Head
  <2>2. ASSUME pc = "many", ~early PROVE timers[t] <= count
    <3>1. PICK u \in Timers : Scheduled(u) /\ timers[u] <= count
      BY <2>1, <2>2 DEF IInv, CauseInv, Backed
    <3>2. timers[t] <= timers[u]
      BY <1>3, <3>1 DEF Earliest
    <3> QED BY <1>1, <1>2, <3>1, <3>2
  <2> QED BY <1>3, <2>2
<1> QED BY <1>4, <1>5

\* What running the head of the list does to the deadlines: every other one stays, and
\* its own moves on, within reach of the clock.
LEMMA RunMoves ==
  ASSUME IInv, NEW t \in Timers, RunTimer(t)
  PROVE  /\ timers' \in [Timers -> Nat \cup {Off}]
         /\ \A u \in Timers \ {t} : timers'[u] = timers[u]
         /\ timers'[t] = Off \/ timers'[t] > timers[t]
         /\ timers'[t] - count < Half
         /\ t = "periodic" => timers'[t] = timers[t] + Period
         /\ t # "periodic" => timers'["periodic"] = timers["periodic"]
         /\ timers["deleted"] = Off => timers'["deleted"] = Off
         /\ t = "deleted" => timers'[t] = Off
<1> USE DEF RunTimer
<1>1. timers \in [Timers -> Nat \cup {Off}] /\ count \in Nat
  BY CountAssumption DEF IInv, BaseInv, TypeOK
<1>2. Earliest(t) /\ (pc = "many" /\ ~early => t = "deleted" \/ timers[t] <= count)
  BY HeadDue
<1>3. timers[t] \in Nat
  BY <1>1, <1>2 DEF Earliest, Scheduled
<1>4. PICK x : timers' = [timers EXCEPT ![t] = x]
  OBVIOUS
<1>5. timers'[t] = x /\ \A u \in Timers \ {t} : timers'[u] = timers[u]
  BY <1>1, <1>4
<1>6. CASE t = "periodic" /\ timers' = [timers EXCEPT ![t] = @ + Period]
  <2>1. timers'[t] = timers[t] + Period /\ Period \in Nat \ {0} /\ Period + Period < Half
    BY <1>1, <1>6, PeriodAssumption
  <2>2. timers[t] + Period - count < Half
    <3>1. CASE pc = "many" /\ early
      BY <1>1, <1>3, <1>6, <2>1, <3>1, HalfAssumption DEF IInv, BaseInv, ReachInv
    <3>2. CASE ~(pc = "many" /\ early)
      <4>1. timers[t] <= count
        BY <1>2, <1>6, <3>2
      <4> QED BY <1>1, <1>3, <2>1, <4>1, HalfAssumption
    <3> QED BY <3>1, <3>2
  <2> QED BY <1>1, <1>3, <1>5, <1>6, <2>1, <2>2, OwnTimers
<1>7. CASE t # "periodic" /\ timers' = [timers EXCEPT ![t] = Off]
  BY <1>1, <1>5, <1>7, OwnTimers, HalfAssumption DEF Off
<1>8. ASSUME t \in UserTimers, NEW d \in UserDelays, timers[t] + d < count + Half,
             timers' = [timers EXCEPT ![t] = @ + d]
      PROVE  /\ timers' \in [Timers -> Nat \cup {Off}]
             /\ timers'[t] > timers[t] /\ timers'[t] - count < Half
  <2>1. timers'[t] = timers[t] + d /\ d \in Nat /\ d > 0
    BY <1>1, <1>8, DelayAssumption, HalfAssumption
  <2> QED BY <1>1, <1>3, <1>8, <2>1, HalfAssumption
<1>9. t \in UserTimers => t # "periodic" /\ t # "deleted"
  BY OwnTimers
<1> QED BY <1>5, <1>6, <1>7, <1>8, <1>9, OwnTimers

\* Every step of hardware, interrupt and task keeps the types, the depth, the bounds
\* and the chain.
LEMMA BaseKept == IInv /\ [Next]_vars => BaseInv'
<1> SUFFICES ASSUME IInv, [Next]_vars PROVE BaseInv'
  OBVIOUS
<1>s. \A n \in 0 .. 2 : n + 1 \in 0 .. 4
  OBVIOUS
<1> USE HalfAssumption, MinAlarmAssumption, KickAssumption, PassAssumption,
        InstallAssumption, WaitAssumption, CountAssumption
<1> USE DEF IInv, BaseInv, TypeOK, DepthInv, ReturnInv, LeadInv, ReachInv, ChainInv,
        NotifyInv, NoMissedAlarm, WakeChain, Rearming, CallerDepth, Step, Marked, Enter,
        Exit, Preempted, Room
<1>0. \A t \in Timers : timers[t] \in Int
  BY DEF Off
<1>p. timers["periodic"] \in Int /\ Period \in Nat \ {0} /\ Period + Period < Half
  BY <1>0, OwnTimers, PeriodAssumption
<1>1. CASE Tick
  <2>1. TypeOK'
    BY <1>1 DEF Tick, Allowance
  <2>2. DepthInv'
    BY <1>1 DEF Tick, Allowance
  <2>3. ReturnInv'
    BY <1>1 DEF Tick, Allowance
  <2>4. LeadInv'
    BY <1>1 DEF Tick, Allowance
  <2>5. ReachInv'
    <3>1. ASSUME NEW t \in Timers PROVE timers'[t] - count' < Half
      BY <1>0, <1>1 DEF Tick
    <3>2. pc' # "block" => lag' <= PassTicks
      BY <1>1 DEF Tick, Allowance
    <3>3. /\ pc' = "set" => wake' - count' < Half /\ count' <= wake' + lag'
          /\ pc' = "arm" => wake' - now' < Half /\ now' <= wake' + PassTicks
      BY <1>1 DEF Tick
    <3>4. (overrun' => Room') /\ (early' => timers'["periodic"] + Period < count' + Half)
      BY <1>1, <1>p DEF Tick
    <3> QED
      BY <3>1, <3>2, <3>3, <3>4
  <2>6. ChainInv'
    <3>1. count' = count + 1 /\ pc' = pc /\ ret' = ret
          /\ must_dispatch' = must_dispatch
      BY <1>1 DEF Tick
    <3>2. CASE alarm = count'
      <4>1. intr' /\ alarm' = 0
        BY <1>1, <3>2 DEF Tick
      <4> QED
        BY <4>1
    <3>3. CASE alarm # count'
      <4>1. intr' = intr /\ alarm' = alarm
        BY <1>1, <3>3 DEF Tick
      <4>2. alarm > count <=> alarm > count'
        BY <3>1, <3>3
      <4> QED
        BY <3>1, <4>1, <4>2
    <3> QED
      BY <3>2, <3>3
  <2>7. NotifyInv'
    BY <1>1 DEF Tick, Allowance
  <2> QED
    BY <2>1, <2>2, <2>3, <2>4, <2>5, <2>6, <2>7
<1>2. CASE Horizon
  BY <1>2 DEF Horizon
<1>3. CASE timer_irq_handler
  <2>1. TypeOK'
    <3>1. intr' = FALSE /\ must_dispatch' = TRUE /\ notified' = TRUE
      BY <1>3 DEF timer_irq_handler
    <3>2. UNCHANGED <<count, alarm, overrun, nest, pc, ret, locals, sched, lag>>
      BY <1>3 DEF timer_irq_handler
    <3> QED
      BY <3>1, <3>2
  <2>2. DepthInv' /\ ReturnInv' /\ LeadInv'
    BY <1>3 DEF timer_irq_handler
  <2>3. ReachInv'
    BY <1>3 DEF timer_irq_handler
  <2>4. ChainInv' /\ NotifyInv'
    BY <1>3 DEF timer_irq_handler
  <2> QED
    BY <2>1, <2>2, <2>3, <2>4
<1>4. CASE DispatchNothing
  BY <1>4 DEF DispatchNothing
<1>5. CASE DispatchTake
  <2>1. TypeOK'
    BY <1>5 DEF DispatchTake
  <2>2. DepthInv' /\ ReturnInv' /\ LeadInv'
    BY <1>5 DEF DispatchTake
  <2>3. ReachInv'
    BY <1>5, <1>p DEF DispatchTake
  <2>4. ChainInv' /\ NotifyInv'
    BY <1>5 DEF DispatchTake
  <2> QED
    BY <2>1, <2>2, <2>3, <2>4
<1>6. ASSUME NEW t \in Timers, DispatchReturn(t) PROVE BaseInv'
  BY <1>0, <1>6 DEF DispatchReturn
<1>7. CASE SetRead
  BY <1>7 DEF SetRead
<1>8. CASE SetInstall
  <2>1. /\ alarm' \in Int
        /\ alarm' >= now + MinAlarmTicks
    BY <1>8, StampType, AlarmLead DEF SetInstall
  <2> QED
    BY <1>8, <2>1 DEF SetInstall
<1>9. CASE timer_kick
  BY <1>9 DEF timer_kick
<1>10. CASE LoopStart
  BY <1>10 DEF LoopStart
<1>11. CASE TasksStart
  <2>1. TypeOK'
    <3>1. /\ nest' \in 0 .. 4 /\ pc' = "tasks"
          /\ requested' = FALSE /\ polled' = FALSE
      BY <1>11 DEF TasksStart
    <3> QED
      BY <1>11, <3>1 DEF TasksStart
  <2>2. DepthInv' /\ ReturnInv' /\ LeadInv'
    BY <1>11 DEF TasksStart
  <2>3. ReachInv' /\ ChainInv' /\ NotifyInv'
    BY <1>11 DEF TasksStart
  <2> QED
    BY <2>1, <2>2, <2>3
<1>12. CASE irq_wait
  BY <1>12 DEF irq_wait
<1>13. CASE irq_wait_feed
  BY <1>13 DEF irq_wait_feed
<1>14. CASE irq_wait_wake
  <2>1. TypeOK'
    <3>1. /\ nest' \in 0 .. 4 /\ pc' = "check"
          /\ notified' = FALSE /\ lag' = 0
      BY <1>14 DEF irq_wait_wake
    <3>2. UNCHANGED <<hardware, must_dispatch, overrun, ret, locals, sched>>
      BY <1>14 DEF irq_wait_wake
    <3> QED
      BY <3>1, <3>2
  <2>2. DepthInv' /\ ReturnInv' /\ LeadInv'
    BY <1>14 DEF irq_wait_wake
  <2>3. ReachInv' /\ ChainInv' /\ NotifyInv'
    BY <1>14 DEF irq_wait_wake
  <2> QED
    BY <2>1, <2>2, <2>3
<1>15. CASE irq_poll
  BY <1>15 DEF irq_poll
<1>16. CASE AddTimerEnd
  BY <1>16 DEF AddTimerEnd
<1>17. CASE WakeTasks
  BY <1>17 DEF WakeTasks
<1>18. CASE TasksEnd
  BY <1>18 DEF TasksEnd
<1>19. CASE RaiseShutdown
  <2>1. abandoned = 0 /\ nest = 0 /\ abandoned' \in 0 .. 2 /\ nest' = abandoned' + 1
    BY <1>19 DEF RaiseShutdown
  <2>2. /\ timers' \in [Timers -> Nat \cup {Off}] /\ timers'["periodic"] = timers["periodic"]
        /\ \A t \in Timers : timers'[t] \in {Off, timers["periodic"]}
    BY <1>19, OwnTimers DEF RaiseShutdown, Off
  <2>3. TypeOK'
    <3>1. is_shutdown' = TRUE /\ early' = FALSE /\ ret' = "clear" /\ pc' = "kick"
      BY <1>19 DEF RaiseShutdown
    <3>2. UNCHANGED <<hardware, flags, locals, requested, polled, lag>>
      BY <1>19 DEF RaiseShutdown
    <3>3. nest' \in 0 .. 4
      BY <2>1, <1>s, Zenon
    <3> QED
      BY <2>1, <2>2, <3>1, <3>2, <3>3
  <2>4. DepthInv' /\ ReturnInv' /\ LeadInv'
    BY <1>19, <2>1 DEF RaiseShutdown
  <2>5. ReachInv'
    <3>1. /\ UNCHANGED <<count, overrun, lag>> /\ ~early' /\ pc' = "kick"
          /\ pc # "block" /\ (early' = early \/ early)
      BY <1>19 DEF RaiseShutdown
    <3>2. ASSUME NEW t \in Timers PROVE timers'[t] - count' < Half
      BY <1>p, <2>2, <3>1, OwnTimers DEF Off
    <3>3. overrun' => Room'
      BY <1>p, <2>2, <3>1
    <3> QED
      BY <3>1, <3>2, <3>3
  <2>6. ChainInv' /\ NotifyInv'
    BY <1>19 DEF RaiseShutdown
  <2> QED
    BY <2>3, <2>4, <2>5, <2>6
<1>20. CASE clear_active_irq
  <2>1. TypeOK'
    BY <1>20 DEF clear_active_irq
  <2>2. DepthInv' /\ ReturnInv' /\ LeadInv'
    BY <1>20 DEF clear_active_irq
  <2>3. ReachInv'
    BY <1>20 DEF clear_active_irq
  <2>4. ChainInv' /\ NotifyInv'
    BY <1>20 DEF clear_active_irq
  <2> QED
    BY <2>1, <2>2, <2>3, <2>4
<1>21. CASE ShutdownEnd
  BY <1>21 DEF ShutdownEnd
<1>22. ASSUME NEW t \in Timers, RunTimer(t) PROVE BaseInv'
  <2>1. TypeOK'
    <3>1. timers' \in [Timers -> Nat \cup {Off}]
      BY <1>22, RunMoves
    <3>2. requested' \in BOOLEAN
      BY <1>22 DEF RunTimer
    <3> QED
      BY <1>22, <3>1, <3>2 DEF RunTimer
  <2>2. DepthInv' /\ ReturnInv' /\ LeadInv'
    BY <1>22 DEF RunTimer
  <2>3. ReachInv'
    <3>1. UNCHANGED <<count, overrun, lag>> /\ ~early' /\ pc' = "next" /\ pc # "block"
      BY <1>22 DEF RunTimer
    <3>2. ASSUME NEW u \in Timers PROVE timers'[u] - count' < Half
      <4>1. CASE u = t
        BY <1>22, <3>1, <4>1, RunMoves
      <4>2. CASE u # t
        BY <1>0, <1>22, <3>1, <4>2, RunMoves
      <4> QED BY <4>1, <4>2
    <3>3. ASSUME overrun PROVE timers'["periodic"] + Period < count + Half
      <4>1. CASE t # "periodic"
        <5>1. timers'["periodic"] = timers["periodic"]
          BY <1>22, <4>1, RunMoves
        <5> QED BY <1>p, <3>3, <5>1
      <4>2. CASE t = "periodic"
        <5>1. timers'["periodic"] = timers["periodic"] + Period
          BY <1>22, <4>2, RunMoves
        <5>2. CASE early
          BY <1>p, <3>3, <5>1, <5>2
        <5>3. CASE ~early
          <6>1. timers["periodic"] <= count
            BY <1>22, <4>2, <5>3, HeadDue DEF RunTimer
          <6> QED BY <1>p, <5>1, <6>1
        <5> QED BY <5>2, <5>3
      <4> QED BY <4>1, <4>2
    <3>4. overrun' => Room'
      <4>1. timers'["periodic"] \in Int
        BY <2>1, OwnTimers DEF Off
      <4>2. Room' <=> timers'["periodic"] + Period < count + Half
        BY <1>p, <3>1, <4>1
      <4> QED BY <3>1, <3>3, <4>2
    <3>5. pc' # "block" => lag' <= PassTicks
      BY <3>1
    <3> QED
      BY <3>1, <3>2, <3>4, <3>5
  <2>4. ChainInv' /\ NotifyInv'
    BY <1>22 DEF RunTimer
  <2> QED
    BY <2>1, <2>2, <2>3, <2>4
<1>23. ASSUME NEW t \in UserTimers, NEW d \in UserDelays, AddTimer(t, d) PROVE BaseInv'
  <2>1. t \in Timers /\ d \in Nat /\ d > 0 /\ d < Half
    BY OwnTimers, DelayAssumption
  <2>2. /\ timers' \in [Timers -> Nat \cup {Off}]
        /\ \A u \in Timers : timers'[u] \in {timers[u], count + d}
        /\ timers'["periodic"] = timers["periodic"]
    BY <1>23, <2>1, OwnTimers DEF AddTimer
  <2>3. TypeOK'
    BY <1>23, <2>2 DEF AddTimer
  <2>4. DepthInv' /\ ReturnInv' /\ LeadInv'
    BY <1>23 DEF AddTimer
  <2>5. ReachInv'
    <3>1. UNCHANGED <<count, overrun, early, lag>> /\ pc' \in {"kick", "restore"}
          /\ pc # "block"
      BY <1>23 DEF AddTimer
    <3>2. ASSUME NEW u \in Timers PROVE timers'[u] - count' < Half
      BY <1>0, <2>1, <2>2, <3>1
    <3> QED
      BY <2>2, <3>1, <3>2
  <2>6. ChainInv' /\ NotifyInv'
    BY <1>23 DEF AddTimer
  <2> QED
    BY <2>3, <2>4, <2>5, <2>6
<1>24. CASE UNCHANGED vars
  BY <1>24
<1> QED
  BY <1>1, <1>2, <1>3, <1>4, <1>5, <1>6, <1>7, <1>8, <1>9, <1>10, <1>11, <1>12, <1>13, <1>14, <1>15, <1>16, <1>17, <1>18, <1>19, <1>20, <1>21, <1>22, <1>23, <1>24 DEF Next, Task, timer_dispatch, timer_set, Loop, Tasks, Shutdown

\* timer_set installs the alarm of the deadline it was asked for.
LEMMA InstallExact ==
  IInv /\ SetInstall => alarm' = Larger(wake, now + MinAlarmTicks)
<1> SUFFICES ASSUME IInv, SetInstall
             PROVE  alarm' = Larger(wake, now + MinAlarmTicks)
  OBVIOUS
<1>1. now \in Int /\ wake \in Int /\ wake - now < Half /\ wake - now >= -Half
  BY HalfAssumption, PassAssumption
     DEF IInv, BaseInv, TypeOK, ReachInv, SetInstall, Step
<1> QED
  BY <1>1, AlarmExact DEF SetInstall

\* Steps of the task outside dispatch, timer_set, kick and shutdown.
Quiet == \/ DispatchNothing \/ Loop
         \/ irq_poll \/ AddTimerEnd \/ WakeTasks \/ TasksEnd \/ ShutdownEnd

\* Every step keeps the head of the list and the cause of each flag.
LEMMA CauseKept == IInv /\ [Next]_vars => HeadInv' /\ CauseInv'
<1> SUFFICES ASSUME IInv, [Next]_vars PROVE HeadInv' /\ CauseInv'
  OBVIOUS
<1> USE DEF IInv, BaseInv, HeadInv, CauseInv, Step, Marked
<1>a. /\ timers \in [Timers -> Nat \cup {Off}] /\ count \in Nat /\ alarm \in Nat
      /\ abandoned \in 0 .. 2 /\ \A t \in Timers : timers[t] \in Int
  BY CountAssumption DEF TypeOK, Off
<1>1. CASE Tick
  <2>1. /\ count' = count + 1
        /\ UNCHANGED <<pc, ret, must_dispatch, timers, wake, early, abandoned>>
        /\ InDispatch' = InDispatch
    BY <1>1 DEF Tick, InDispatch
  <2>2. \A t \in Timers : Scheduled(t)' = Scheduled(t)
    BY <2>1 DEF Scheduled
  <2>3. Backed(count) => Backed(count)'
    BY <1>a, <2>1, <2>2, OwnTimers DEF Backed
  <2>4. HeadInv'
    BY <2>1, <2>2, OwnTimers DEF Earliest
  <2>5. CASE alarm = count'
    <3>1. alarm' = 0 /\ intr'
      BY <1>1, <2>5, Zenon DEF Tick
    <3>4. alarm # 0
      BY <1>a, <2>1, <2>5
    <3>3. (InDispatch => overrun') /\ (overrun => overrun')
      BY <1>1, <2>5, Zenon DEF Tick
    <3>2. ~InDispatch => Backed(count)'
      BY <2>1, <2>2, <2>5, <3>4, OwnTimers DEF Backed
    <3> QED BY <2>1, <2>2, <2>3, <2>4, <3>1, <3>2, <3>3, <3>4
  <2>6. CASE alarm # count'
    <3>1. alarm' = alarm
      BY <1>1, <2>6 DEF Tick
    <3>3. (intr' <=> intr) /\ (overrun' <=> overrun)
      BY <1>1, <2>6, Zenon DEF Tick
    <3>2. Backed(alarm) => Backed(alarm)'
      BY <2>1, <2>2, <3>1, OwnTimers DEF Backed
    <3> QED BY <2>1, <2>2, <2>3, <2>4, <3>1, <3>2, <3>3
  <2> QED BY <2>5, <2>6
<1>2. CASE timer_irq_handler
  <2>1. /\ UNCHANGED <<count, alarm, overrun, pc, ret, timers, wake, early, abandoned>>
        /\ intr /\ ~intr' /\ must_dispatch' /\ nest = 0
    BY <1>2 DEF timer_irq_handler, Preempted
  <2>2. InDispatch' = InDispatch /\ \A t \in Timers : Scheduled(t)' = Scheduled(t)
    BY <2>1 DEF InDispatch, Scheduled
  <2>3. abandoned = 0 \/ pc \notin {"start", "take", "many", "next", "feed", "block",
          "tasks", "check", "restore", "clear", "end", "kick", "set", "arm"}
    BY <1>a, <2>1 DEF DepthInv, CallerDepth
  <2>4. abandoned = 0
    BY <2>3 DEF TypeOK
  <2>5. (Backed(count) => Backed(count)') /\ (Backed(alarm) => Backed(alarm)') /\ HeadInv'
    BY <2>1, <2>2, OwnTimers DEF Backed, Earliest
  <2> QED BY <2>1, <2>2, <2>4, <2>5
<1>3. CASE Quiet
  <2>1. /\ UNCHANGED <<count, alarm, intr, must_dispatch, overrun, timers, wake, early, abandoned>>
        /\ pc \in {"start", "check", "feed", "block", "tasks", "restore", "take", "end"}
        /\ pc' \in {"start", "check", "feed", "block", "tasks", "take"}
    BY <1>3 DEF Quiet, DispatchNothing, Loop, LoopStart, TasksStart, irq_wait,
         irq_wait_feed, irq_wait_wake, irq_poll, AddTimerEnd, WakeTasks, TasksEnd,
         ShutdownEnd, ReturnInv
  <2>2. ~InDispatch /\ ~InDispatch' /\ \A t \in Timers : Scheduled(t)' = Scheduled(t)
    BY <2>1 DEF InDispatch, Scheduled
  <2>3. (Backed(count) => Backed(count)') /\ (Backed(alarm) => Backed(alarm)') /\ HeadInv'
    BY <2>1, <2>2, OwnTimers DEF Backed, Earliest
  <2> QED BY <2>1, <2>2, <2>3
<1>4. CASE DispatchTake
  <2>1. /\ UNCHANGED <<count, alarm, intr, timers, wake, abandoned, nest>>
        /\ must_dispatch /\ ~must_dispatch' /\ pc = "take" /\ pc' = "many"
        /\ early' = overrun /\ ~overrun' /\ ~Preempted
    BY <1>4 DEF DispatchTake
  <2>2. ~InDispatch /\ InDispatch' /\ \A t \in Timers : Scheduled(t)' = Scheduled(t)
    BY <2>1 DEF InDispatch, Scheduled
  <2>3. ~intr
    BY <1>a, <2>1 DEF Preempted, DepthInv
  <2>4. (Backed(count) => Backed(count)') /\ HeadInv'
    BY <2>1, <2>2, OwnTimers DEF Backed, Earliest
  <2> QED BY <2>1, <2>2, <2>3, <2>4
<1>5. ASSUME NEW t \in Timers, RunTimer(t) PROVE HeadInv' /\ CauseInv'
  <2>1. /\ UNCHANGED <<count, alarm, intr, must_dispatch, overrun, abandoned>>
        /\ pc \in {"many", "next"} /\ pc' = "next" /\ ~early' /\ Head(t)
    BY <1>5 DEF RunTimer
  <2>2. InDispatch /\ InDispatch'
    BY <2>1 DEF InDispatch
  <2>3. /\ Scheduled("periodic")'
        /\ timers["deleted"] = Off => timers'["deleted"] = Off
        /\ t = "deleted" => timers'[t] = Off
    <3>1. timers["periodic"] \in Nat /\ Period \in Nat
      BY <1>a, OwnTimers, PeriodAssumption DEF Scheduled
    <3> QED BY <1>5, <3>1, RunMoves DEF Scheduled, Off
  <2>4. ~Scheduled("deleted")'
    BY <2>1, <2>3 DEF Head, Scheduled
  <2> QED BY <2>1, <2>2, <2>3, <2>4
<1>6. ASSUME NEW t \in Timers, DispatchReturn(t) PROVE HeadInv' /\ CauseInv'
  <2>1. /\ UNCHANGED <<count, alarm, intr, must_dispatch, overrun, timers, early, abandoned, ret>>
        /\ pc = "next" /\ pc' = "set" /\ wake' = timers[t] /\ ret \in {"feed", "tasks"}
    BY <1>6 DEF DispatchReturn, ReturnInv
  <2>2. InDispatch /\ InDispatch' /\ \A u \in Timers : Scheduled(u)' = Scheduled(u)
    BY <2>1 DEF InDispatch, Scheduled
  <2>3. Scheduled(t) /\ HeadInv'
    BY <1>6, <2>1, <2>2, HeadDue, OwnTimers DEF DispatchReturn, Earliest
  <2> QED BY <2>1, <2>2, <2>3
<1>7. CASE SetRead \/ timer_kick
  <2>1. /\ UNCHANGED <<count, alarm, intr, must_dispatch, overrun, timers, early, abandoned, ret>>
        /\ \/ pc = "set" /\ pc' = "arm" /\ wake' = wake
           \/ pc = "kick" /\ pc' = "set" /\ ret \in {"restore", "clear"}
    BY <1>7 DEF SetRead, timer_kick, ReturnInv
  <2>2. /\ InDispatch' = InDispatch /\ (InDispatch => wake' = wake /\ pc = "set")
        /\ \A u \in Timers : Scheduled(u)' = Scheduled(u)
    BY <2>1 DEF InDispatch, Scheduled
  <2>3. (Backed(count) => Backed(count)') /\ (Backed(alarm) => Backed(alarm)') /\ HeadInv'
    BY <2>1, <2>2, OwnTimers DEF Backed, Earliest
  <2> QED BY <2>1, <2>2, <2>3
<1>8. CASE SetInstall
  <2>1. /\ UNCHANGED <<count, intr, must_dispatch, overrun, timers, early, abandoned, ret>>
        /\ pc = "arm" /\ pc' = ret /\ ret \in {"feed", "tasks", "restore", "clear"}
    BY <1>8 DEF SetInstall, TypeOK
  <2>2. ~InDispatch' /\ (InDispatch <=> ret \in {"feed", "tasks"})
        /\ \A u \in Timers : Scheduled(u)' = Scheduled(u)
    BY <2>1 DEF InDispatch, Scheduled
  <2>3. wake <= alarm' /\ wake \in Nat /\ alarm' \in Int
    <3>1. alarm' = Larger(wake, now + MinAlarmTicks) /\ wake \in Nat /\ now \in Nat
      BY <1>8, InstallExact DEF TypeOK
    <3> QED BY <3>1, MinAlarmAssumption, HalfAssumption DEF Larger
  <2>4. Backed(alarm)'
    <3>1. CASE InDispatch
      <4>1. PICK u \in Timers : Scheduled(u) /\ timers[u] = wake
        BY <2>1, <3>1
      <4> QED BY <2>1, <2>2, <2>3, <4>1 DEF Backed
    <3>2. CASE ~InDispatch
      BY <2>1, <2>2, <3>2, OwnTimers DEF Backed
    <3> QED BY <3>1, <3>2
  <2>5. (Backed(count) => Backed(count)') /\ HeadInv'
    BY <2>1, <2>2, OwnTimers DEF Backed, Earliest
  <2> QED BY <2>1, <2>2, <2>4, <2>5
<1>9. CASE RaiseShutdown
  <2>1. /\ pc' = "kick" /\ ret' = "clear" /\ ~early'
        /\ timers' = [t \in Timers |-> IF t \in UserTimers THEN Off ELSE timers["periodic"]]
    BY <1>9 DEF RaiseShutdown
  <2>2. /\ timers'["deleted"] = timers["periodic"] /\ timers'["periodic"] = timers["periodic"]
        /\ \A t \in Timers : timers'[t] \in {Off, timers["periodic"]}
    BY <2>1, OwnTimers
  <2>3. HeadInv'
    BY <1>a, <2>1, <2>2, OwnTimers DEF Scheduled, Earliest
  <2>4. ~InDispatch' /\ Backed(count)' /\ Backed(alarm)'
    BY <2>1, <2>3 DEF InDispatch, Backed
  <2> QED BY <2>1, <2>3, <2>4
<1>10. CASE clear_active_irq
  <2>1. /\ UNCHANGED <<count, alarm, intr, timers, early, abandoned, ret>>
        /\ ~must_dispatch' /\ pc = "clear" /\ pc' = "end"
    BY <1>10 DEF clear_active_irq
  <2>2. ~InDispatch' /\ \A u \in Timers : Scheduled(u)' = Scheduled(u)
    BY <2>1 DEF InDispatch, Scheduled
  <2>3. HeadInv' /\ Scheduled("deleted")'
    BY <2>1, <2>2, OwnTimers DEF Earliest
  <2>4. Backed(count)' /\ Backed(alarm)'
    BY <2>3 DEF Backed
  <2> QED BY <2>1, <2>2, <2>3, <2>4
<1>11. ASSUME NEW t \in UserTimers, NEW d \in UserDelays, AddTimer(t, d)
       PROVE  HeadInv' /\ CauseInv'
  <2>1. /\ UNCHANGED <<count, alarm, intr, must_dispatch, overrun, early, abandoned>>
        /\ pc = "tasks" /\ ret' = "restore" /\ ~Scheduled(t)
        /\ pc' = IF First(d) THEN "kick" ELSE "restore"
        /\ timers' = [u \in Timers |->
             IF u = t \/ (u = "deleted" /\ First(d)) THEN count + d ELSE timers[u]]
    BY <1>11 DEF AddTimer
  <2>2. t \in Timers /\ t # "periodic" /\ t # "deleted" /\ d \in Nat /\ count + d # Off
    BY <1>a, OwnTimers, DelayAssumption, HalfAssumption DEF Off
  <2>3. /\ timers'[t] = count + d
        /\ \A u \in Timers \ {t, "deleted"} : timers'[u] = timers[u]
        /\ timers'["deleted"] = IF First(d) THEN count + d ELSE timers["deleted"]
    BY <2>1, <2>2, OwnTimers
  <2>4. Scheduled("periodic")' /\ (First(d) => Scheduled("deleted")')
        /\ (Scheduled("deleted") => Scheduled("deleted")')
    BY <2>2, <2>3, OwnTimers DEF Scheduled
  <2>5. Scheduled("deleted")' => Earliest("deleted")'
    <3>1. CASE First(d)
      <4>1. timers'["deleted"] = count + d
        BY <2>3, <3>1
      <4>2. ASSUME NEW u \in Timers, Scheduled(u)' PROVE timers'["deleted"] <= timers'[u]
        BY <1>a, <2>2, <2>3, <3>1, <4>1, <4>2 DEF First, Scheduled
      <4> QED BY <4>2 DEF Earliest
    <3>2. CASE ~First(d)
      <4> SUFFICES ASSUME Scheduled("deleted")' PROVE Earliest("deleted")'
        OBVIOUS
      <4>1. timers'["deleted"] = timers["deleted"] /\ Scheduled("deleted")
        BY <2>3, <3>2 DEF Scheduled
      <4>2. PICK u \in Timers : Scheduled(u) /\ ~(count + d < timers[u])
        BY <3>2 DEF First
      <4>3. timers["deleted"] <= count + d
        BY <1>a, <2>2, <4>1, <4>2, OwnTimers DEF Earliest
      <4>4. ASSUME NEW x \in Timers, Scheduled(x)' PROVE timers'["deleted"] <= timers'[x]
        BY <1>a, <2>3, <4>1, <4>3, <4>4, OwnTimers DEF Earliest, Scheduled
      <4> QED BY <4>4 DEF Earliest
    <3> QED BY <3>1, <3>2
  <2>6. ~InDispatch /\ ~InDispatch' /\ HeadInv'
    BY <2>1, <2>4, <2>5 DEF InDispatch
  <2>7. (Backed(count) => Backed(count)') /\ (Backed(alarm) => Backed(alarm)')
    <3>1. \A u \in Timers : Scheduled(u) => u = "deleted" \/ (Scheduled(u)' /\ timers'[u] = timers[u])
      BY <2>1, <2>3 DEF Scheduled
    <3> QED BY <2>1, <2>4, <3>1 DEF Backed
  <2> QED BY <2>1, <2>6, <2>7
<1>12. CASE Horizon \/ UNCHANGED vars
  <2>1. UNCHANGED vars
    BY <1>12 DEF Horizon
  <2> QED BY <2>1 DEF InDispatch, Backed, Scheduled, Earliest
<1> QED
  BY <1>1, <1>2, <1>3, <1>4, <1>5, <1>6, <1>7, <1>8, <1>9, <1>10, <1>11, <1>12
     DEF Next, Task, timer_dispatch, timer_set, Tasks, Shutdown, Quiet

\* Every step of hardware, interrupt and task keeps the invariant.
LEMMA NextInvariant == IInv /\ [Next]_vars => IInv'
BY BaseKept, CauseKept DEF IInv

\* The invariant holds throughout.
LEMMA Invariance == Spec => []IInv
BY InitInvariant, NextInvariant, PTL DEF Spec

-----------------------------------------------------------------------------
\* Every variable keeps its type, whatever timer.c and its callers do.
THEOREM TypeCorrect == Spec => []TypeOK
<1>1. IInv => TypeOK
  BY DEF IInv, BaseInv
<1> QED
  BY <1>1, Invariance, PTL

(***************************************************************************)
(* The Klipper task never blocks with interrupts masked, and irq_wait gives*)
(* sched.c back the one critical section it was called with.               *)
(***************************************************************************)
THEOREM MasksBalanced == Spec => []MaskBalance
<1>1. IInv => MaskBalance
  BY DEF IInv, BaseInv, DepthInv, MaskBalance
<1> QED
  BY <1>1, Invariance, PTL

(***************************************************************************)
(* The one-shot alarm chain never dies: outside the code that re-arms it   *)
(* there is always an alarm ahead, an interrupt or a raised flag.          *)
(***************************************************************************)
THEOREM WakeChainKept == Spec => []WakeChain
<1>1. IInv => WakeChain
  BY DEF IInv, BaseInv, ChainInv
<1> QED
  BY <1>1, Invariance, PTL

(***************************************************************************)
(* timer_set never installs an alarm at a count the timer has passed.      *)
(***************************************************************************)
THEOREM AlarmsInTime == Spec => []NoMissedAlarm
<1>1. IInv => NoMissedAlarm
  BY DEF IInv, BaseInv, ChainInv
<1> QED
  BY <1>1, Invariance, PTL

(***************************************************************************)
(* An alarm between irq_wait's poll and its sleep always ends that sleep.  *)
(***************************************************************************)
THEOREM WakeupsKept == Spec => []NoLostWakeup
<1>1. IInv => NoLostWakeup
  BY DEF IInv, BaseInv, ReturnInv, NotifyInv, NoLostWakeup
<1> QED
  BY <1>1, Invariance, PTL

(***************************************************************************)
(* Every alarm is for the deadline it was asked for, in its own epoch of   *)
(* the 32-bit clock, or for the minimum lead when that deadline is late.   *)
(***************************************************************************)
THEOREM EpochsExact == Spec => EpochExact
<1>1. IInv /\ [Next]_vars
      => [SetInstall => alarm' = Larger(wake, now + MinAlarmTicks)]_vars
  BY InstallExact
<1> QED
  BY <1>1, Invariance, PTL DEF Spec, EpochExact

(***************************************************************************)
(* The mapping of timestamps to counts is exact at every count, for every  *)
(* width of the timestamp and every minimum lead: the same fact over all   *)
(* that Klipper may hold, the deadlines of this model's timers included.   *)
(***************************************************************************)
THEOREM AlarmsInOwnEpoch == Spec => []AlarmInOwnEpoch
<1>1. IInv => AlarmInOwnEpoch
  <2> SUFFICES ASSUME IInv, NEW d \in Reach
               PROVE  timer_alarm_count_for(count, UInt32(d))
                        = Larger(d, count + MinAlarmTicks)
    BY DEF AlarmInOwnEpoch
  <2>1. count \in Int /\ d \in Int /\ d - count < Half /\ d - count >= -Half
    BY HalfAssumption DEF IInv, BaseInv, TypeOK, Reach
  <2> QED
    BY <2>1, AlarmExact
<1> QED
  BY <1>1, Invariance, PTL

-----------------------------------------------------------------------------
(***************************************************************************)
(* How late a timer may be run.  Each waiting timer is bound to what will  *)
(* run it next: an alarm that covers it, a flag or interrupt with the part *)
(* of the task that is still to come before the poll, or the dispatch that *)
(* is under way.                                                           *)
(***************************************************************************)

\* A shutdown may have thrown away all that came up to the end of a dispatch.
Lost == IF is_shutdown THEN Lead + 3 * PassTicks ELSE 0

\* The latest count at which the alarm that covers t fires.
AlarmBy(t) == timers[t] + Lead + PassTicks + Lost

\* What the task may have run since that alarm, when it is not at a poll yet.
SinceAlarm == IF pc = "feed" THEN lag
              ELSE IF pc = "block" THEN PassTicks ELSE PassTicks + lag

\* clear_active_irq is about to drop a raised flag, never a pending interrupt.
Raised == intr \/ (must_dispatch /\ pc # "clear")

Covered(t) == \/ alarm > count /\ alarm <= AlarmBy(t)
              \/ Raised /\ count <= AlarmBy(t) + SinceAlarm

\* The task is inside timer_set or about to kick, called from the places in R.
Setting(R) == pc \in {"kick", "set", "arm"} /\ ret \in R

Prompt(t) ==
  Scheduled(t) =>
    /\ pc \in {"many", "next"} => count <= AlarmBy(t) + 2 * PassTicks + lag
    /\ Setting({"feed", "tasks"}) => wake <= timers[t] /\ count <= wake + lag
    /\ Setting({"restore"}) => count <= timers[t] + lag
    /\ Setting({"clear"}) => count <= timers[t] + Lead + 3 * PassTicks + lag
    /\ pc \notin {"many", "next", "kick", "set", "arm"} => Covered(t)

PromptInv == \A t \in Timers : Prompt(t)

\* A kick is for a moment after the count that timer_set reads.
KickInv ==
  /\ pc = "set" /\ ret \in {"restore", "clear"} => wake <= count + KickTicks
  /\ pc = "arm" /\ ret \in {"restore", "clear"} => wake <= now + KickTicks
  /\ ret = "clear" /\ pc \in {"kick", "set", "arm", "clear"} => is_shutdown

\* The numbers these bounds are made of.
LEMMA Numbers ==
  ASSUME IInv
  PROVE  /\ count \in Nat /\ alarm \in Nat /\ now \in Nat /\ wake \in Nat /\ lag \in Nat
         /\ PassTicks \in Nat /\ Lead \in Nat /\ KickTicks \in Nat /\ MinAlarmTicks \in Nat
         /\ Lead >= KickTicks /\ Lead >= MinAlarmTicks
         /\ Lost \in Nat
         /\ pc # "block" => lag <= PassTicks
         /\ \A t \in Timers : timers[t] \in Int
BY HalfAssumption, PassAssumption, KickAssumption, MinAlarmAssumption, CountAssumption
   DEF IInv, BaseInv, TypeOK, ReachInv, Lead, Larger, Lost, Off

\* So are the terms of a timer's cover.
LEMMA CoverNumbers ==
  ASSUME IInv, NEW t \in Timers
  PROVE  timers[t] \in Int /\ AlarmBy(t) \in Int /\ SinceAlarm \in Nat
<1>1. timers[t] \in Int
  BY Numbers
<1>2. AlarmBy(t) \in Int
  BY <1>1, Numbers DEF AlarmBy
<1>3. SinceAlarm \in Nat
  BY Numbers DEF SinceAlarm
<1> QED BY <1>1, <1>2, <1>3

\* A step of the task that changes neither clock, alarm nor timers keeps each
\* timer's cover, unless a raised flag is farther from its poll than before.
LEMMA MoveKeeps ==
  ASSUME IInv, IInv', PromptInv,
         UNCHANGED <<count, alarm, intr, must_dispatch, timers, is_shutdown>>,
         pc \notin {"many", "next", "kick", "set", "arm", "clear"},
         pc' \notin {"many", "next", "kick", "set", "arm", "clear"},
         intr \/ must_dispatch => SinceAlarm <= SinceAlarm'
  PROVE  PromptInv' /\ KickInv'
<1>1. KickInv'
  BY DEF KickInv
<1>2. ASSUME NEW t \in Timers PROVE Prompt(t)'
  <2>1. AlarmBy(t)' = AlarmBy(t) /\ Scheduled(t)' = Scheduled(t)
        /\ alarm' = alarm /\ count' = count
    BY DEF AlarmBy, Lost, Scheduled
  <2>2. Raised => Raised' /\ SinceAlarm <= SinceAlarm'
    BY DEF Raised
  <2>3. SinceAlarm \in Nat /\ AlarmBy(t) \in Int /\ count \in Nat
    BY <1>2, CoverNumbers, Numbers
  <2>4. SinceAlarm' \in Nat
    <3>1. lag' \in Nat /\ PassTicks \in Nat
      BY Numbers DEF IInv, BaseInv, TypeOK
    <3>2. \A n \in Nat : PassTicks + n \in Nat
      BY <3>1
    <3> QED BY <3>1, <3>2, Zenon DEF SinceAlarm
  <2>5. Covered(t) => Covered(t)'
    BY <2>1, <2>2, <2>3, <2>4 DEF Covered
  <2> QED BY <1>2, <2>1, <2>5 DEF PromptInv, Prompt, Setting
<1> QED BY <1>1, <1>2 DEF PromptInv

\* The clock runs on: an alarm is ahead until it fires, on time.
LEMMA TickPrompt ==
  IInv /\ abandoned = 0 /\ PromptInv /\ KickInv /\ Tick => PromptInv' /\ KickInv'
<1> SUFFICES ASSUME IInv, abandoned = 0, PromptInv, KickInv, Tick
             PROVE  PromptInv' /\ KickInv'
  OBVIOUS
<1>1. /\ count' = count + 1 /\ lag' = lag + 1
      /\ UNCHANGED <<must_dispatch, pc, ret, now, wake, timers, is_shutdown>>
      /\ ~Preempted /\ lag < Allowance
  BY DEF Tick
<1>2. KickInv'
  BY <1>1, Numbers DEF KickInv
<1>3. ASSUME NEW t \in Timers PROVE Prompt(t)'
  <2>1. AlarmBy(t)' = AlarmBy(t) /\ Scheduled(t)' = Scheduled(t)
    BY <1>1 DEF AlarmBy, Lost, Scheduled
  <2>2. AlarmBy(t) \in Int /\ SinceAlarm \in Nat
    BY <1>3, CoverNumbers
  <2>3. ASSUME Covered(t) PROVE Covered(t)'
    <3>1. CASE alarm > count /\ alarm <= AlarmBy(t)
      <4>1. CASE alarm = count'
        <5>1. intr' BY <4>1 DEF Tick
        <5>2. Raised' BY <5>1 DEF Raised
        <5>3. SinceAlarm' >= 0
          BY <1>1, Numbers DEF SinceAlarm
        <5>4. count' <= AlarmBy(t) + SinceAlarm'
          <6> DEFINE s == SinceAlarm'
          <6>1. s \in Int /\ count + 1 <= AlarmBy(t)
            BY <3>1, <4>1, <1>1, Numbers DEF SinceAlarm
          <6> HIDE DEF s
          <6> QED BY <6>1, <5>3, <1>1, <2>2, Numbers DEF s
        <5> QED BY <5>2, <5>4, <2>1 DEF Covered
      <4>2. CASE alarm # count'
        <5>1. alarm' = alarm BY <4>2 DEF Tick
        <5>2. alarm > count + 1 BY <3>1, <4>2, <1>1, Numbers
        <5> QED BY <3>1, <5>1, <5>2, <2>1, <1>1 DEF Covered
      <4> QED BY <4>1, <4>2
    <3>2. CASE Raised /\ count <= AlarmBy(t) + SinceAlarm
      <4>1. pc # "block"
        <5>1. SUFFICES ASSUME pc = "block" PROVE FALSE
          OBVIOUS
        <5>2. ~intr /\ must_dispatch
          BY <1>1, <3>2, <5>1 DEF Raised, Preempted, IInv, BaseInv, DepthInv
        <5>3. notified
          BY <5>1, <5>2 DEF IInv, BaseInv, NotifyInv, ReturnInv
        <5> QED BY <1>1, <5>1, <5>3, Numbers DEF Allowance
      <4>2. SinceAlarm' = SinceAlarm + 1
        BY <1>1, <4>1, Numbers DEF SinceAlarm
      <4>3. intr => intr'
        BY DEF Tick
      <4>4. Raised'
        BY <3>2, <4>3, <1>1 DEF Raised
      <4>5. count + 1 <= AlarmBy(t) + (SinceAlarm + 1)
        BY <3>2, <2>2, Numbers
      <4> QED BY <4>2, <4>4, <4>5, <2>1, <1>1 DEF Covered
    <3> QED BY <2>3, <3>1, <3>2 DEF Covered
  <2>4. Prompt(t)
    BY DEF PromptInv
  <2>5. pc \notin {"many", "next", "kick", "set", "arm"} => Prompt(t)'
    BY <1>1, <2>1, <2>3, <2>4 DEF Prompt, Setting
  <2>6. pc \in {"many", "next"} => Prompt(t)'
    BY <1>1, <2>1, <2>2, <2>4, Numbers DEF Prompt, Setting
  <2>7. pc \in {"kick", "set", "arm"} => Prompt(t)'
    BY <1>1, <2>1, <2>4, Numbers DEF Prompt, Setting, Scheduled
  <2> QED BY <2>5, <2>6, <2>7
<1> QED BY <1>2, <1>3 DEF PromptInv

\* An interrupt becomes a flag: the timers it was to run stay covered.
LEMMA HandlerPrompt ==
  IInv /\ PromptInv /\ KickInv /\ timer_irq_handler => PromptInv' /\ KickInv'
<1> SUFFICES ASSUME IInv, PromptInv, KickInv, timer_irq_handler
             PROVE  PromptInv' /\ KickInv'
  OBVIOUS
<1>1. /\ UNCHANGED <<count, alarm, pc, ret, now, wake, timers, is_shutdown, lag>>
      /\ must_dispatch' /\ nest = 0
  BY DEF timer_irq_handler, Preempted
<1>2. pc # "clear"
  <2>1. pc = "clear" => nest = abandoned + 1 /\ abandoned \in 0 .. 2
    BY DEF IInv, BaseInv, DepthInv, TypeOK
  <2> QED BY <1>1, <2>1
<1>3. Raised'
  BY <1>1, <1>2 DEF Raised
<1>4. ASSUME NEW t \in Timers PROVE Prompt(t)'
  <2>1. AlarmBy(t)' = AlarmBy(t) /\ SinceAlarm' = SinceAlarm
    BY <1>1 DEF AlarmBy, Lost, SinceAlarm
  <2>2. Covered(t) => Covered(t)'
    BY <1>1, <1>3, <2>1 DEF Covered
  <2> QED BY <1>1, <2>1, <2>2 DEF PromptInv, Prompt, Setting, Scheduled
<1> QED BY <1>1, <1>4 DEF PromptInv, KickInv

\* The task's own moves bring it no farther from its next poll than a mark allows.
LEMMA ControlPrompt ==
  /\ IInv /\ IInv' /\ abandoned = 0 /\ PromptInv
  /\ \/ DispatchNothing \/ Loop
     \/ irq_poll \/ AddTimerEnd \/ WakeTasks \/ TasksEnd \/ ShutdownEnd
  => PromptInv' /\ KickInv'
<1> SUFFICES ASSUME IInv, IInv', abandoned = 0, PromptInv,
                    \/ DispatchNothing \/ Loop
                    \/ irq_poll \/ AddTimerEnd \/ WakeTasks \/ TasksEnd \/ ShutdownEnd
             PROVE  PromptInv' /\ KickInv'
  OBVIOUS
<1>1. UNCHANGED <<count, alarm, intr, must_dispatch, timers, is_shutdown>> /\ ~Preempted
  BY DEF DispatchNothing, Loop, LoopStart, TasksStart, irq_wait, irq_wait_feed,
         irq_wait_wake, irq_poll, AddTimerEnd, WakeTasks, TasksEnd, ShutdownEnd,
         Step, Marked
<1>2. CASE DispatchNothing
  <2>1. ~intr /\ ~must_dispatch /\ pc = "take" /\ pc' = ret /\ ret \in {"feed", "tasks"}
    BY <1>1, <1>2 DEF DispatchNothing, Marked, Preempted, IInv, BaseInv, DepthInv, ReturnInv
  <2> QED BY <1>1, <2>1, MoveKeeps
<1>3. CASE irq_wait_feed
  <2>1. pc = "feed" /\ pc' = "block"
    BY <1>3 DEF irq_wait_feed, Marked
  <2>2. SinceAlarm <= SinceAlarm'
    BY <2>1, Numbers DEF SinceAlarm
  <2> QED BY <1>1, <2>1, <2>2, MoveKeeps
<1>4. CASE irq_wait_wake
  <2>1. pc = "block" /\ pc' = "check" /\ lag' = 0
    BY <1>4 DEF irq_wait_wake, Marked
  <2>2. SinceAlarm <= SinceAlarm'
    BY <2>1, Numbers DEF SinceAlarm
  <2> QED BY <1>1, <2>1, <2>2, MoveKeeps
<1>5. CASE \/ LoopStart \/ TasksStart \/ irq_wait
           \/ irq_poll \/ AddTimerEnd \/ WakeTasks \/ TasksEnd \/ ShutdownEnd
  <2>1. /\ pc \in {"start", "check", "tasks", "restore", "end"}
        /\ pc' \in {"start", "check", "tasks", "take"}
        /\ lag' = lag
    BY <1>5 DEF LoopStart, TasksStart, irq_wait, irq_poll, AddTimerEnd, WakeTasks,
                TasksEnd, ShutdownEnd, Step
  <2>2. SinceAlarm <= SinceAlarm'
    BY <2>1, Numbers DEF SinceAlarm
  <2> QED BY <1>1, <2>1, <2>2, MoveKeeps
<1> QED BY <1>2, <1>3, <1>4, <1>5 DEF Loop

\* A dispatch takes over whatever covered a timer, and leaves when each is ahead.
LEMMA DispatchPrompt ==
  /\ IInv /\ IInv' /\ PromptInv
  /\ DispatchTake \/ \E t \in Timers : RunTimer(t) \/ DispatchReturn(t)
  => PromptInv' /\ KickInv'
<1> SUFFICES ASSUME IInv, IInv', PromptInv,
                    DispatchTake \/ \E t \in Timers : RunTimer(t) \/ DispatchReturn(t)
             PROVE  PromptInv' /\ KickInv'
  OBVIOUS
<1>1. CASE DispatchTake
  <2>1. /\ UNCHANGED <<count, timers, is_shutdown>>
        /\ pc = "take" /\ pc' = "many" /\ lag' = 0
    BY <1>1 DEF DispatchTake, Marked
  <2>2. ASSUME NEW t \in Timers PROVE Prompt(t)'
    <3>1. AlarmBy(t)' = AlarmBy(t) /\ Scheduled(t)' = Scheduled(t) /\ count' = count
      BY <2>1 DEF AlarmBy, Lost, Scheduled
    <3>2. Scheduled(t) => count <= AlarmBy(t) + 2 * PassTicks
      <4>1. lag <= PassTicks
        BY <2>1, Numbers
      <4>2. Scheduled(t) => Covered(t)
        BY <2>1 DEF PromptInv, Prompt
      <4> QED BY <2>1, <4>1, <4>2, CoverNumbers, Numbers DEF Covered, SinceAlarm
    <3>3. Scheduled(t) => count <= AlarmBy(t) + 2 * PassTicks + 0
      BY <3>2, CoverNumbers, Numbers
    <3> QED BY <2>1, <3>1, <3>3 DEF Prompt, Setting
  <2> QED BY <2>1, <2>2 DEF PromptInv, KickInv
<1>2. ASSUME NEW u \in Timers, RunTimer(u) PROVE PromptInv' /\ KickInv'
  <2>1. /\ UNCHANGED <<count, is_shutdown, lag>> /\ pc \in {"many", "next"} /\ pc' = "next"
    BY <1>2 DEF RunTimer, Step
  <2>2. ASSUME NEW t \in Timers, Scheduled(t)'
        PROVE  Scheduled(t) /\ timers'[t] >= timers[t]
    <3>1. Scheduled(u) /\ (Scheduled(u)' => timers'[u] > timers[u])
      BY <1>2, HeadDue, RunMoves DEF RunTimer, Earliest, Scheduled
    <3>2. t # u => timers'[t] = timers[t]
      BY <1>2, RunMoves
    <3>3. timers'[t] \in Int
      BY <2>2, Numbers, <1>2, RunMoves DEF Off
    <3> QED BY <2>2, <3>1, <3>2, <3>3, Numbers DEF Scheduled
  <2>3. ASSUME NEW t \in Timers, Scheduled(t)'
        PROVE  count' <= AlarmBy(t)' + 2 * PassTicks + lag'
    <3>1. count <= AlarmBy(t) + 2 * PassTicks + lag
      BY <2>1, <2>2, <2>3 DEF PromptInv, Prompt
    <3>2. Lost' = Lost /\ timers'[t] \in Int
      BY <2>1, <2>3 DEF Lost, IInv, BaseInv, TypeOK, Off
    <3> QED BY <2>1, <2>2, <2>3, <3>1, <3>2, Numbers DEF AlarmBy
  <2> QED BY <2>1, <2>3 DEF PromptInv, Prompt, Setting, KickInv
<1>3. ASSUME NEW u \in Timers, DispatchReturn(u) PROVE PromptInv' /\ KickInv'
  <2>1. /\ UNCHANGED <<count, timers, lag, ret>> /\ pc = "next" /\ pc' = "set"
        /\ wake' = timers[u] /\ Earliest(u) /\ timers[u] > count
        /\ ret \in {"feed", "tasks"}
    BY <1>3, HeadDue DEF DispatchReturn, Step, IInv, BaseInv, ReturnInv
  <2>2. ASSUME NEW t \in Timers, Scheduled(t)
        PROVE  wake' <= timers[t] /\ count' <= wake' + lag'
    BY <2>1, <2>2, Numbers DEF Earliest
  <2> QED BY <2>1, <2>2 DEF PromptInv, Prompt, Setting, Scheduled, KickInv
<1> QED BY <1>1, <1>2, <1>3

\* timer_set reads the count and installs an alarm that covers every timer: the
\* earliest one's, a kick that comes before them all, or a shutdown's.
LEMMA SetPrompt ==
  /\ IInv /\ IInv' /\ PromptInv /\ KickInv
  /\ timer_set \/ timer_kick
  => PromptInv' /\ KickInv'
<1> SUFFICES ASSUME IInv, IInv', PromptInv, KickInv, timer_set \/ timer_kick
             PROVE  PromptInv' /\ KickInv'
  OBVIOUS
<1>1. UNCHANGED <<count, timers, is_shutdown, ret, lag>>
  BY DEF timer_set, SetRead, SetInstall, timer_kick, Step
<1>2. CASE timer_kick
  <2>1. pc = "kick" /\ pc' = "set" /\ wake' = count + KickTicks
        /\ ret \in {"restore", "clear"}
    BY <1>2 DEF timer_kick, Step, IInv, BaseInv, ReturnInv
  <2>2. KickInv'
    BY <1>1, <2>1, Numbers DEF KickInv
  <2>3. PromptInv'
    BY <1>1, <2>1 DEF PromptInv, Prompt, Setting, Scheduled
  <2> QED BY <2>2, <2>3
<1>3. CASE SetRead
  <2>1. pc = "set" /\ pc' = "arm" /\ now' = count /\ wake' = wake
    BY <1>3 DEF SetRead, Step
  <2>2. KickInv'
    BY <1>1, <2>1 DEF KickInv
  <2>3. PromptInv'
    BY <1>1, <2>1 DEF PromptInv, Prompt, Setting, Scheduled
  <2> QED BY <2>2, <2>3
<1>4. CASE SetInstall
  <2>1. pc = "arm" /\ pc' = ret /\ now <= count
    BY <1>4 DEF SetInstall, Step, IInv, BaseInv, LeadInv
  <2>2. alarm' = Larger(wake, now + MinAlarmTicks)
    BY <1>4, InstallExact
  <2>3. ret \in {"feed", "tasks", "restore", "clear"}
    BY DEF IInv, BaseInv, TypeOK
  <2>4. alarm' > count'
    <3>1. alarm' # 0
      BY <2>2, Numbers, MinAlarmAssumption, HalfAssumption DEF Larger
    <3> QED BY <3>1 DEF IInv, BaseInv, ChainInv, NoMissedAlarm
  <2>5. KickInv'
    BY <2>1, <2>3, <1>1 DEF KickInv
  <2>6. ASSUME NEW t \in Timers, Scheduled(t) PROVE alarm' <= AlarmBy(t)
    <3>1. Prompt(t) /\ lag <= PassTicks
      BY <2>1, Numbers DEF PromptInv
    <3>2. timers[t] \in Int
      BY Numbers
    <3>3. CASE ret \in {"feed", "tasks"}
      <4>1. wake <= timers[t] /\ count <= wake + lag
        BY <2>1, <2>6, <3>1, <3>3 DEF Prompt, Setting
      <4> QED BY <4>1, <2>1, <2>2, <3>1, <3>2, Numbers DEF Larger, AlarmBy
    <3>4. CASE ret = "restore"
      <4>1. count <= timers[t] + lag /\ wake <= now + KickTicks
        BY <2>1, <2>6, <3>1, <3>4 DEF Prompt, Setting, KickInv
      <4> QED BY <4>1, <2>1, <2>2, <3>1, <3>2, Numbers DEF Larger, AlarmBy
    <3>5. CASE ret = "clear"
      <4>1. count <= timers[t] + Lead + 3 * PassTicks + lag /\ wake <= now + KickTicks
        BY <2>1, <2>6, <3>1, <3>5 DEF Prompt, Setting, KickInv
      <4>2. Lost = Lead + 3 * PassTicks
        BY <2>1, <3>5 DEF KickInv, Lost
      <4> QED BY <4>1, <4>2, <2>1, <2>2, <3>1, <3>2, Numbers DEF Larger, AlarmBy
    <3> QED BY <2>3, <3>3, <3>4, <3>5
  <2>7. ASSUME NEW t \in Timers PROVE Prompt(t)'
    <3>1. Scheduled(t)' = Scheduled(t) /\ AlarmBy(t)' = AlarmBy(t)
      BY <1>1 DEF Scheduled, AlarmBy, Lost
    <3>2. Scheduled(t) => Covered(t)'
      BY <2>4, <2>6, <3>1 DEF Covered
    <3> QED BY <2>1, <2>3, <3>1, <3>2 DEF Prompt, Setting
  <2> QED BY <2>5, <2>7 DEF PromptInv
<1> QED BY <1>2, <1>3, <1>4 DEF timer_set

\* A timer is added ahead of the clock: behind another's cover, or with a kick when
\* it comes before them all.
LEMMA AddPrompt ==
  ASSUME IInv, IInv', PromptInv,
         NEW u \in UserTimers, NEW d \in UserDelays, AddTimer(u, d)
  PROVE  PromptInv' /\ KickInv'
<1>1. /\ UNCHANGED <<count, alarm, intr, must_dispatch, is_shutdown, lag>>
      /\ timers' = [x \in Timers |->
           IF x = u \/ (x = "deleted" /\ First(d)) THEN count + d ELSE timers[x]]
      /\ pc = "tasks" /\ ret' = "restore"
      /\ pc' = IF First(d) THEN "kick" ELSE "restore"
  BY DEF AddTimer, Step
<1>2. /\ u \in Timers /\ u # "deleted" /\ d \in Nat /\ d > 0 /\ count \in Nat /\ lag \in Nat
      /\ timers \in [Timers -> Nat \cup {Off}]
  BY DelayAssumption, HalfAssumption, Numbers, OwnTimers DEF IInv, BaseInv, TypeOK
<1>3. /\ timers'[u] = count + d
      /\ \A x \in Timers \ {u} :
           timers'[x] = timers[x] \/ (First(d) /\ timers'[x] = count + d)
  BY <1>1, <1>2
<1>4. CASE First(d)
  <2>1. pc' = "kick"
    BY <1>1, <1>4
  <2>2. ASSUME NEW t \in Timers, Scheduled(t)' PROVE count' <= timers'[t] + lag'
    <3>1. timers'[t] >= count + d
      BY <1>2, <1>3, <1>4, <2>2, Numbers DEF Scheduled, First
    <3>2. timers'[t] \in Int
      BY <2>2 DEF IInv, BaseInv, TypeOK, Off
    <3> QED BY <1>1, <1>2, <3>1, <3>2
  <2> QED BY <1>1, <2>1, <2>2 DEF PromptInv, Prompt, Setting, KickInv
<1>5. CASE ~First(d)
  <2>1. pc' = "restore"
    BY <1>1, <1>5
  <2>2. PICK x \in Timers : Scheduled(x) /\ timers[x] <= count + d
    BY <1>2, <1>5, Numbers DEF First
  <2>3. ASSUME NEW t \in Timers, Scheduled(t)' PROVE Covered(t)'
    <3>1. PICK y \in Timers : Scheduled(y) /\ timers[y] <= timers'[t]
      <4>1. CASE t = u
        BY <2>2, <1>3, <4>1
      <4>2. CASE t # u
        <5>1. Scheduled(t) /\ timers[t] <= timers'[t]
          BY <2>3, <1>3, <1>5, <4>2, Numbers DEF Scheduled
        <5> QED BY <5>1
      <4> QED BY <4>1, <4>2
    <3>2. Covered(y)
      BY <1>1, <3>1 DEF PromptInv, Prompt
    <3>3. AlarmBy(y) <= AlarmBy(t)'
      <4>1. Lost' = Lost
        BY <1>1 DEF Lost
      <4>2. timers'[t] \in Int /\ timers[y] \in Int
        BY Numbers, <2>3 DEF IInv, BaseInv, TypeOK, Off
      <4> QED BY <3>1, <4>1, <4>2, Numbers DEF AlarmBy
    <3>4. SinceAlarm' = SinceAlarm /\ SinceAlarm \in Nat
      BY <1>1, <2>1, CoverNumbers DEF SinceAlarm
    <3>5. Raised => Raised'
      BY <1>1, <2>1 DEF Raised
    <3>6. AlarmBy(t)' \in Int /\ AlarmBy(y) \in Int
      <4>1. timers'[t] \in Int /\ Lost' \in Int
        BY <1>1, Numbers, <2>3 DEF IInv, BaseInv, TypeOK, Off, Lost
      <4> QED BY <4>1, Numbers, CoverNumbers DEF AlarmBy
    <3>7. alarm' = alarm /\ count' = count /\ alarm \in Nat
      BY <1>1, Numbers
    <3> DEFINE a == AlarmBy(t)'
               s == SinceAlarm'
    <3> HIDE DEF a, s
    <3>8. \/ alarm > count /\ alarm <= a
          \/ Raised' /\ count <= a + s
      BY <3>2, <3>3, <3>4, <3>5, <3>6, <3>7, <1>2 DEF Covered, a, s
    <3> QED BY <3>7, <3>8 DEF Covered, a, s
  <2> QED BY <1>1, <2>1, <2>3 DEF PromptInv, Prompt, Setting, KickInv
<1> QED BY <1>4, <1>5

\* A shutdown kicks before it drops the flag, and drops no interrupt.
LEMMA ShutdownPrompt ==
  /\ IInv /\ IInv' /\ PromptInv /\ KickInv
  /\ RaiseShutdown \/ clear_active_irq
  => PromptInv' /\ KickInv'
<1> SUFFICES ASSUME IInv, IInv', PromptInv, KickInv, RaiseShutdown \/ clear_active_irq
             PROVE  PromptInv' /\ KickInv'
  OBVIOUS
<1>1. CASE RaiseShutdown
  <2>1. /\ UNCHANGED <<count, lag>> /\ pc \in {"tasks", "many", "next"} /\ ~is_shutdown
        /\ pc' = "kick" /\ ret' = "clear" /\ is_shutdown'
    BY <1>1 DEF RaiseShutdown, Step
  <2>2. ASSUME NEW t \in Timers, Scheduled(t)'
        PROVE  count' <= timers'[t] + Lead + 3 * PassTicks + lag'
    <3>1. Scheduled("periodic") /\ "periodic" \in Timers /\ timers'[t] = timers["periodic"]
      BY <1>1, <2>2, OwnTimers DEF RaiseShutdown, Scheduled, IInv, HeadInv
    <3>2. AlarmBy("periodic") = timers["periodic"] + Lead + PassTicks /\ timers["periodic"] \in Int
      BY <2>1, <3>1, Numbers DEF AlarmBy, Lost
    <3>3. pc = "tasks" => SinceAlarm = PassTicks + lag
      BY DEF SinceAlarm
    <3>4. count <= AlarmBy("periodic") + 2 * PassTicks + lag
      BY <2>1, <3>1, <3>2, <3>3, Numbers DEF PromptInv, Prompt, Covered
    <3> QED BY <2>1, <3>1, <3>2, <3>4, Numbers
  <2>3. PromptInv'
    BY <2>1, <2>2 DEF PromptInv, Prompt, Setting
  <2> QED BY <2>1, <2>3 DEF KickInv
<1>2. CASE clear_active_irq
  <2>1. /\ UNCHANGED <<count, alarm, intr, timers, is_shutdown, lag>>
        /\ pc = "clear" /\ pc' = "end"
    BY <1>2 DEF clear_active_irq, Step
  <2>2. SinceAlarm' = SinceAlarm /\ (Raised => Raised')
    BY <2>1 DEF SinceAlarm, Raised
  <2>3. ASSUME NEW t \in Timers PROVE Prompt(t)'
    <3>1. AlarmBy(t)' = AlarmBy(t)
      BY <2>1 DEF AlarmBy, Lost
    <3>2. Covered(t) => Covered(t)'
      BY <2>1, <2>2, <3>1 DEF Covered
    <3> QED BY <2>1, <3>2 DEF PromptInv, Prompt, Setting, Scheduled
  <2> QED BY <2>1, <2>3 DEF PromptInv, KickInv
<1> QED BY <1>1, <1>2

\* The first kick, armed by timer_init, covers the periodic timer.
LEMMA InitPrompt == Init => PromptInv /\ KickInv
<1> SUFFICES ASSUME Init PROVE PromptInv /\ KickInv
  OBVIOUS
<1>1. IInv
  BY InitInvariant
<1>2. pc = "start" /\ count = 0 /\ ~is_shutdown
  BY DEF Init
<1>3. alarm = Larger(KickTicks, MinAlarmTicks)
  <2>1. alarm = timer_alarm_count_for(0, UInt32(KickTicks))
    BY DEF Init
  <2>2. KickTicks - 0 < Half /\ KickTicks - 0 >= -Half
    BY KickAssumption, HalfAssumption
  <2>3. timer_alarm_count_for(0, UInt32(KickTicks)) = Larger(KickTicks, 0 + MinAlarmTicks)
    BY <2>2, AlarmExact, KickAssumption, HalfAssumption
  <2> QED BY <2>1, <2>3, <1>1, Numbers
<1>4. ASSUME NEW t \in Timers, Scheduled(t) PROVE Covered(t)
  <2>1. timers[t] = 0
    BY <1>4 DEF Init, Scheduled
  <2>2. alarm > count /\ alarm <= AlarmBy(t)
    BY <1>1, <1>2, <1>3, <2>1, Numbers, MinAlarmAssumption, HalfAssumption
       DEF Lead, AlarmBy, Larger
  <2> QED BY <2>2 DEF Covered
<1> QED BY <1>2, <1>4 DEF PromptInv, Prompt, Setting, KickInv

\* All of this for as long as no shutdown has left a section open.
Prompted == abandoned = 0 => PromptInv /\ KickInv

\* Every step keeps each waiting timer bound to what will run it.
LEMMA PromptKept == IInv /\ Prompted /\ [Next]_vars => Prompted'
<1> SUFFICES ASSUME IInv, Prompted, [Next]_vars, abandoned' = 0
             PROVE  PromptInv' /\ KickInv'
  BY DEF Prompted
<1>1. IInv'
  BY NextInvariant
<1>2. abandoned = 0
  <2>1. CASE RaiseShutdown
    BY <2>1 DEF RaiseShutdown, IInv, BaseInv, TypeOK, DepthInv
  <2>2. CASE ~RaiseShutdown
    <3>1. abandoned' = abandoned
      BY <2>2 DEF Next, Tick, Horizon, timer_irq_handler, Task, timer_dispatch,
           DispatchNothing, DispatchTake, RunTimer, DispatchReturn, timer_set, SetRead,
           SetInstall, timer_kick, Loop, LoopStart, TasksStart, irq_wait, irq_wait_feed,
           irq_wait_wake, Tasks, irq_poll, AddTimer, AddTimerEnd, WakeTasks, TasksEnd,
           Shutdown, clear_active_irq, ShutdownEnd
    <3> QED BY <3>1
  <2> QED BY <2>1, <2>2
<1>3. PromptInv /\ KickInv
  BY <1>2 DEF Prompted
<1>4. CASE Tick
  BY <1>2, <1>3, <1>4, TickPrompt
<1>5. CASE timer_irq_handler
  BY <1>3, <1>5, HandlerPrompt
<1>6. CASE timer_dispatch
  BY <1>1, <1>2, <1>3, <1>6, ControlPrompt, DispatchPrompt DEF timer_dispatch
<1>7. CASE timer_set \/ timer_kick
  BY <1>1, <1>3, <1>7, SetPrompt
<1>8. CASE Loop
  BY <1>1, <1>2, <1>3, <1>8, ControlPrompt
<1>9. CASE Tasks
  BY <1>1, <1>2, <1>3, <1>9, ControlPrompt, AddPrompt DEF Tasks
<1>10. CASE Shutdown
  BY <1>1, <1>2, <1>3, <1>10, ControlPrompt, ShutdownPrompt DEF Shutdown
<1>11. CASE UNCHANGED vars
  BY <1>3, <1>11 DEF PromptInv, KickInv, Prompt, Setting, Scheduled, Covered, Raised,
                     SinceAlarm, AlarmBy, Lost
<1> QED
  BY <1>4, <1>5, <1>6, <1>7, <1>8, <1>9, <1>10, <1>11 DEF Next, Horizon, Task

\* No timer waits longer than the service allows, however it is covered.
WithinSlack == abandoned = 0 => \A t \in Timers : Scheduled(t) => count <= timers[t] + Slack

LEMMA PromptWithinSlack == IInv /\ Prompted => WithinSlack
<1> SUFFICES ASSUME IInv, Prompted, abandoned = 0, NEW t \in Timers, Scheduled(t)
             PROVE  count <= timers[t] + Slack
  BY DEF WithinSlack
<1>1. /\ timers[t] \in Int /\ Lost <= Lead + 3 * PassTicks
      /\ Slack = (Lead + 4 * PassTicks) + (Lead + 3 * PassTicks)
  BY Numbers DEF Lost, Slack
<1>2. Prompt(t)
  BY DEF Prompted, PromptInv
<1>3. CASE pc \in {"many", "next"}
  BY <1>1, <1>2, <1>3, Numbers DEF Prompt, AlarmBy
<1>4. CASE pc \in {"kick", "set", "arm"}
  <2>1. ret \in {"feed", "tasks", "restore", "clear"} /\ lag <= PassTicks
    BY <1>4, Numbers DEF IInv, BaseInv, TypeOK
  <2> QED BY <1>1, <1>2, <1>4, <2>1, Numbers DEF Prompt, Setting
<1>5. CASE pc \notin {"many", "next", "kick", "set", "arm"}
  <2>1. Covered(t)
    BY <1>2, <1>5 DEF Prompt
  <2>2. SinceAlarm <= 2 * PassTicks
    BY Numbers DEF SinceAlarm
  <2> QED BY <1>1, <2>1, <2>2, CoverNumbers, Numbers DEF Covered, AlarmBy
<1> QED BY <1>3, <1>4, <1>5

\* The timers of the service, as it sees them.
Shown == [t \in Klippers |-> timers[t]]

LEMMA ShownType ==
  ASSUME IInv
  PROVE  /\ Shown \in [Klippers -> Nat \cup {Off}]
         /\ Klippers \subseteq Timers
         /\ \A t \in Klippers : Shown[t] = timers[t] /\ (Shown[t])' = timers'[t]
BY DEF Shown, Klippers, IInv, BaseInv, TypeOK

(***************************************************************************)
(* The timer bridge implements the timer service: timers run earliest      *)
(* first, one before its time only as the first of a dispatch whose flag   *)
(* was raised in the midst of another, and the clock is never more than    *)
(* Slack ahead of one that waits, for every period, delay, kick and pass   *)
(* the assumptions allow, across wraps, kicks and a shutdown, unless that  *)
(* left interrupts masked.                                                 *)
(***************************************************************************)
THEOREM ServiceKept == Spec => ServiceSpec
<1> USE DEF Service!Scheduled, Service!Off, Service!Others
<1>1. Init => Service!Init
  BY DEF Init, Service!Init, Off, InDispatch, Klippers
<1>2. IInv /\ WithinSlack' /\ [Next]_vars => [Service!Next]_(Service!vars)
  <2> SUFFICES ASSUME IInv, WithinSlack', [Next]_vars
               PROVE  [Service!Next]_(Service!vars)
    OBVIOUS
  <2>a. /\ Shown \in [Klippers -> Nat \cup {Off}] /\ Klippers \subseteq Timers
        /\ Shown' = [t \in Klippers |-> timers'[t]]
        /\ \A t \in Klippers : Shown[t] = timers[t] /\ Shown'[t] = timers'[t]
    BY ShownType DEF Shown
  <2>b. /\ count \in Nat /\ \A t \in Timers : timers[t] \in Int
        /\ abandoned \in 0 .. 2 /\ (early => pc = "many")
    BY Numbers DEF IInv, BaseInv, TypeOK, CauseInv
  <2>c. ASSUME UNCHANGED <<count, timers, overrun, early, abandoned>>, InDispatch' = InDispatch
        PROVE  UNCHANGED Service!vars
    BY <2>c DEF Service!vars
  <2>1. CASE Tick
    <3>1. /\ count' = count + 1 /\ UNCHANGED <<timers, early, abandoned, pc, ret>>
          /\ InDispatch' = InDispatch
      BY <2>1 DEF Tick, InDispatch
    <3>2. (overrun => overrun') /\ (overrun' => overrun \/ InDispatch)
      BY <2>1, Zenon DEF Tick
    <3>3. ASSUME NEW t \in Timers, Scheduled(t), abandoned = 0
          PROVE  count < timers[t] + Slack
      <4>1. count' <= timers'[t] + Slack
        BY <3>1, <3>3 DEF WithinSlack, Scheduled
      <4> QED BY <4>1, <3>1, <2>b, Numbers DEF Slack
    <3>4. Service!Tick
      BY <3>1, <3>2, <3>3, <2>a, <2>b DEF Service!Tick, Scheduled, Off
    <3> QED BY <3>4 DEF Service!Next
  <2>2. CASE DispatchTake
    <3>1. /\ UNCHANGED <<count, timers, abandoned>> /\ early' = overrun /\ ~overrun'
          /\ ~InDispatch /\ InDispatch'
      BY <2>2 DEF DispatchTake, Marked, InDispatch
    <3>2. Service!Begin
      BY <3>1 DEF Service!Begin
    <3> QED BY <3>2 DEF Service!Next
  <2>3. ASSUME NEW t \in Timers, RunTimer(t) PROVE Service!Next
    <3>1. /\ UNCHANGED <<count, overrun, abandoned>> /\ ~early' /\ Head(t)
          /\ InDispatch /\ InDispatch' /\ pc \in {"many", "next"}
          /\ pc = "next" => timers[t] <= count
      BY <2>3 DEF RunTimer, Step, InDispatch
    <3>2. Earliest(t) /\ (pc = "many" /\ ~early => t = "deleted" \/ timers[t] <= count)
      BY <3>1, HeadDue
    <3>3. \A u \in Timers \ {t} : timers'[u] = timers[u]
      BY <2>3, RunMoves
    <3>4. CASE t = "deleted"
      <4>1. Shown' = Shown
        <5>1. \A u \in Klippers : Shown'[u] = Shown[u]
          BY <2>a, <3>3, <3>4 DEF Klippers
        <5> QED BY <2>a, <5>1 DEF Shown
      <4>2. Service!End
        BY <3>1, <4>1 DEF Service!End, Shown
      <4> QED BY <4>2 DEF Service!Next
    <3>5. CASE t # "deleted"
      <4>1. t \in Klippers /\ (timers[t] <= count \/ early)
        BY <3>1, <3>2, <3>5 DEF Klippers
      <4>2. Shown' = [Shown EXCEPT ![t] = Shown'[t]]
        <5>1. \A u \in Klippers \ {t} : Shown'[u] = Shown[u]
          BY <2>a, <3>3
        <5> QED BY <2>a, <5>1
      <4>3. timers'[t] = Off \/ timers'[t] > timers[t]
        BY <2>3, RunMoves
      <4>4. \A u \in Klippers : Scheduled(u) => timers[t] <= timers[u]
        BY <2>a, <3>2 DEF Earliest
      <4>5. Service!Run(t)
        BY <3>1, <3>2, <4>1, <4>2, <4>3, <4>4, <2>a
           DEF Service!Run, Earliest, Scheduled, Off, Shown
      <4> QED BY <4>1, <4>5 DEF Service!Next
    <3> QED BY <3>4, <3>5
  <2>4. CASE SetInstall
    <3>0. InDispatch \in BOOLEAN /\ InDispatch' \in BOOLEAN
      BY DEF InDispatch
    <3>1. /\ UNCHANGED <<count, timers, overrun, early, abandoned>> /\ ~early'
          /\ ~InDispatch'
      BY <2>4, <2>b DEF SetInstall, Step, InDispatch, IInv, BaseInv, TypeOK
    <3>2. CASE InDispatch
      <4>1. Service!End
        BY <3>0, <3>1, <3>2, <2>a DEF Service!End, Shown
      <4> QED BY <4>1 DEF Service!Next
    <3>3. CASE ~InDispatch
      <4>1. InDispatch' = InDispatch
        BY <3>1, <3>3, <3>0
      <4> QED BY <2>c, <3>1, <4>1
    <3> QED BY <3>2, <3>3
  <2>5. CASE RaiseShutdown
    <3>1. /\ UNCHANGED <<count, overrun>> /\ abandoned = 0 /\ ~early' /\ ~InDispatch'
          /\ timers' = [t \in Timers |-> IF t \in UserTimers THEN Off ELSE timers["periodic"]]
      BY <2>5, <2>b DEF RaiseShutdown, Step, InDispatch, IInv, BaseInv, DepthInv
    <3>2. \A t \in Klippers : timers'[t] \in {timers[t], Off}
      BY <3>1, OwnTimers DEF Klippers, Timers
    <3>3. Service!Cancel
      BY <3>1, <3>2, <2>a DEF Service!Cancel, Off
    <3> QED BY <3>3 DEF Service!Next
  <2>6. CASE clear_active_irq
    <3>1. /\ UNCHANGED <<count, timers, early, abandoned>> /\ ~overrun'
          /\ ~InDispatch /\ ~InDispatch'
      BY <2>6 DEF clear_active_irq, Step, InDispatch
    <3>2. InDispatch' = InDispatch
      BY <2>6, <3>1 DEF InDispatch, clear_active_irq, Step
    <3>3. Service!Drop
      BY <3>1, <3>2 DEF Service!Drop
    <3> QED BY <3>3 DEF Service!Next
  <2>7. ASSUME NEW t \in UserTimers, NEW d \in UserDelays, AddTimer(t, d)
        PROVE  Service!Next
    <3>1. /\ UNCHANGED <<count, overrun, early, abandoned>> /\ ~Scheduled(t)
          /\ pc = "tasks" /\ pc' \in {"kick", "restore"} /\ ret' = "restore"
          /\ timers' = [u \in Timers |->
               IF u = t \/ (u = "deleted" /\ First(d)) THEN count + d ELSE timers[u]]
      BY <2>7 DEF AddTimer, Step
    <3>2. ~InDispatch /\ InDispatch' = InDispatch
      BY <3>1 DEF InDispatch
    <3>3. t \in Klippers /\ d \in Nat /\ d > 0
      BY OwnTimers, DelayAssumption, HalfAssumption DEF Klippers
    <3>4. timers'[t] = count + d /\ \A u \in Klippers \ {t} : timers'[u] = timers[u]
      BY <3>1, <3>3 DEF Klippers
    <3>5. Shown' = [Shown EXCEPT ![t] = Shown'[t]]
      BY <2>a, <3>4
    <3>6. Service!Add(t)
      BY <2>a, <2>b, <3>1, <3>2, <3>3, <3>4, <3>5 DEF Service!Add, Scheduled, Off, Shown
    <3> QED BY <3>3, <3>6 DEF Service!Next
  <2>8. CASE \/ timer_irq_handler \/ Quiet \/ SetRead \/ timer_kick
             \/ Horizon \/ UNCHANGED vars
             \/ \E t \in Timers : DispatchReturn(t)
    <3>1. UNCHANGED <<count, timers, overrun, early, abandoned>>
      BY <2>8 DEF timer_irq_handler, Quiet, DispatchNothing, SetRead, timer_kick, Loop,
           LoopStart, TasksStart, irq_wait, irq_wait_feed, irq_wait_wake, irq_poll,
           AddTimerEnd, WakeTasks, TasksEnd, ShutdownEnd, Horizon, DispatchReturn
    <3>2. InDispatch' = InDispatch
      BY <2>8 DEF InDispatch, timer_irq_handler, Quiet, DispatchNothing, SetRead, timer_kick,
           Loop, LoopStart, TasksStart, irq_wait, irq_wait_feed, irq_wait_wake, irq_poll,
           AddTimerEnd, WakeTasks, TasksEnd, ShutdownEnd, Horizon, DispatchReturn, Step,
           Marked, IInv, BaseInv, ReturnInv
    <3> QED BY <2>c, <3>1, <3>2
  <2> QED BY <2>1, <2>2, <2>3, <2>4, <2>5, <2>6, <2>7, <2>8
             DEF Next, Task, timer_dispatch, timer_set, Tasks, Shutdown, Quiet
<1>3. Spec => [](IInv /\ Prompted)
  <2>1. Init => Prompted
    BY InitPrompt DEF Prompted
  <2> QED BY <2>1, InitInvariant, NextInvariant, PromptKept, PTL DEF Spec
<1> QED
  BY <1>1, <1>2, <1>3, PromptWithinSlack, PTL DEF Spec, ServiceSpec, Service!Spec

=============================================================================
