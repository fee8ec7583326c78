-------------------------- MODULE FanControlProofs --------------------------
(***************************************************************************)
(* The TRIAC fan for every half-cycle, delay, pulse and cooldown: a raised *)
(* gate is always on its way down, a fan told to stop begins at most one   *)
(* pulse more, and it is told to stop only after its cooldown.             *)
(***************************************************************************)
EXTENDS FanControl, TLAPS

Tasks == {"idle", "fire", "armoff", "off"}

\* Types of the fan's state.
TypeOK ==
  /\ relay \in {0, 1} /\ s_duty \in 0 .. 100 /\ s_half \in MinPeriod .. MaxPeriod
  /\ seen \in BOOLEAN /\ since \in 0 .. MaxPeriod + 1
  /\ fire \in Nat \cup {Idle} /\ off \in Nat \cup {Idle}
  /\ task \in Tasks /\ gate \in {0, 1}
  /\ tick \in 0 .. TickWrap - 1 /\ heater_off_tick \in 0 .. TickWrap - 1
  /\ heater_was_on \in BOOLEAN /\ behind \in 0 .. MaxBehind
  /\ cooled \in 0 .. CooldownBound /\ late \in Nat

\* A pulse not yet begun is armed, or its timer has just expired; a fan at
\* zero duty has at most one of them, or has begun it.
Armed  == IF fire # Idle THEN 1 ELSE 0
Due    == IF task = "fire" THEN 1 ELSE 0
LateInv ==
  /\ s_duty > 0 => late = 0
  /\ s_duty = 0 => late + Armed + Due <= 1

\* The history of a cooldown is the distance from the tick that fan_task noted to
\* the present one, across a wrap or not, and at the task's last turn the cooldown
\* was not over.
Elapsed(n) == tick = heater_off_tick + n \/ tick = heater_off_tick + n - TickWrap
CoolInv ==
  s_duty > 0 /\ ~heater_was_on => Elapsed(cooled) /\ cooled < CooldownTicks + behind

IInv == TypeOK /\ GateEnds /\ LateInv /\ CoolInv

-----------------------------------------------------------------------------
\* What the constants are.
LEMMA Constants ==
  /\ MinPeriod \in Nat /\ MaxPeriod \in Nat /\ MinDelay \in Nat /\ PulseTime \in Nat
  /\ MinDelay > 0 /\ PulseTime > 0 /\ NominalHalf \in MinPeriod .. MaxPeriod
  /\ Cooldown \in 1 .. 100 /\ Active \in 1 .. 100
  /\ CooldownTicks \in Nat /\ CooldownTicks > 0 /\ MaxBehind \in Nat /\ MaxBehind > 0
  /\ TickWrap \in Nat \ {0} /\ CooldownTicks + MaxBehind <= TickWrap
BY FanAssumption

\* The next tick of a counter that wraps.
LEMMA NextTick ==
  ASSUME NEW w \in Nat \ {0}, NEW t \in 0 .. w - 1
  PROVE  (t + 1) % w = IF t = w - 1 THEN 0 ELSE t + 1
OBVIOUS

\* The unsigned difference of two ticks n apart, when n is below the wrap.
LEMMA TickDifference ==
  ASSUME NEW w \in Nat \ {0}, NEW n \in 0 .. w - 1
  PROVE  n % w = n /\ (n - w) % w = n
OBVIOUS

\* A delay keeps the phase's minimum and is a time.
LEMMA DelayType ==
  ASSUME NEW d \in 0 .. 100, NEW half \in MinPeriod .. MaxPeriod
  PROVE  delay_for(d, half) \in Nat /\ delay_for(d, half) >= MinDelay
<1>1. half \in Nat /\ 100 - d \in Nat /\ MinDelay \in Nat
  BY Constants
<1>2. (100 - d) * half \in Nat
  BY <1>1
<1>3. ((100 - d) * half) \div 100 \in Nat
  BY <1>2
<1> QED BY <1>1, <1>3 DEF delay_for

\* What fan_task reads of a cooldown is how long it has been, across a wrap or not.
LEMMA CooldownRead ==
  IInv /\ s_duty > 0 /\ ~heater_was_on => (tick - heater_off_tick) % TickWrap = cooled
<1> SUFFICES ASSUME IInv, s_duty > 0, ~heater_was_on
             PROVE  (tick - heater_off_tick) % TickWrap = cooled
  OBVIOUS
<1>1. TickWrap \in Nat \ {0} /\ cooled \in 0 .. TickWrap - 1
  BY Constants DEF IInv, TypeOK, CoolInv, CooldownBound
<1>2. tick - heater_off_tick \in {cooled, cooled - TickWrap}
  BY <1>1 DEF IInv, TypeOK, CoolInv, Elapsed
<1> QED BY <1>1, <1>2, TickDifference

-----------------------------------------------------------------------------
LEMMA InitHolds == Init => IInv
<1> SUFFICES ASSUME Init PROVE IInv
  OBVIOUS
<1>1. TypeOK
  <2>1. seen \in BOOLEAN /\ heater_was_on \in BOOLEAN
    BY Zenon DEF Init
  <2>2. /\ relay = 0 /\ s_duty = 0 /\ s_half = NominalHalf /\ since = 0
        /\ fire = Idle /\ off = Idle /\ task = "idle" /\ gate = 0
        /\ tick \in 0 .. TickWrap - 1 /\ heater_off_tick = 0 /\ behind = 1
        /\ cooled = 0 /\ late = 0
    BY DEF Init
  <2> QED BY <2>1, <2>2, Constants DEF TypeOK, Tasks, CooldownBound
<1>2. GateEnds /\ LateInv
  BY DEF Init, GateEnds, LateInv, Armed, Due
<1>3. CoolInv
  BY DEF Init, CoolInv
<1> QED BY <1>1, <1>2, <1>3 DEF IInv

\* The interrupt arms a pulse only for a fan that is on.
LEMMA ZeroCrossingKeeps == IInv /\ zcd_isr => IInv'
<1> SUFFICES ASSUME IInv, zcd_isr PROVE IInv'
  OBVIOUS
<1>1. half_measured \in MinPeriod .. MaxPeriod
  BY DEF half_measured, IInv, TypeOK
<1>2. /\ s_half' \in MinPeriod .. MaxPeriod /\ seen' = TRUE /\ since' = 0
      /\ UNCHANGED <<relay, task, gate, tick, cooled, late>>
      /\ UNCHANGED <<s_duty, heater_was_on, heater_off_tick, behind>>
  BY <1>1 DEF zcd_isr, fan
<1>3. /\ off' = off /\ (s_duty = 0 => fire' = fire)
      /\ fire' \in Nat \cup {Idle}
  <2>1. CASE s_duty > 0
    BY <2>1, <1>1, DelayType DEF zcd_isr, fires_at, rearm, IInv, TypeOK
  <2>2. CASE ~(s_duty > 0)
    BY <2>2 DEF zcd_isr, fires_at, IInv, TypeOK
  <2> QED BY <2>1, <2>2
<1>4. TypeOK'
  BY <1>2, <1>3, Constants DEF IInv, TypeOK
<1>5. LateInv'
  BY <1>2, <1>3 DEF IInv, LateInv, Armed, Due
<1> QED BY <1>2, <1>3, <1>4, <1>5 DEF IInv, GateEnds, CoolInv, Elapsed

\* The timer task's own steps pass a pulse on, none of them adds one.
LEMMA TimerTaskKeeps ==
  IInv /\ (TakeFire \/ TakeOff \/ gate_fire_cb \/ gate_fire_cb_end \/ gate_off_cb)
    => IInv'
<1> SUFFICES ASSUME IInv,
                    TakeFire \/ TakeOff \/ gate_fire_cb \/ gate_fire_cb_end \/ gate_off_cb
             PROVE  IInv'
  OBVIOUS
<1>1. /\ UNCHANGED <<relay, s_half, seen, since, tick, cooled>>
      /\ UNCHANGED <<s_duty, heater_was_on, heater_off_tick, behind>>
  BY DEF TakeFire, TakeOff, gate_fire_cb, gate_fire_cb_end, gate_off_cb, fan
<1>2. CoolInv'
  BY <1>1 DEF IInv, CoolInv, Elapsed
<1>3. CASE TakeFire
  BY <1>1, <1>2, <1>3
     DEF TakeFire, IInv, TypeOK, Tasks, GateEnds, LateInv, Armed, Due, Idle
<1>4. CASE TakeOff
  BY <1>1, <1>2, <1>4
     DEF TakeOff, IInv, TypeOK, Tasks, GateEnds, LateInv, Armed, Due, Idle
<1>5. CASE gate_fire_cb
  BY <1>1, <1>2, <1>5
     DEF gate_fire_cb, AtMost, IInv, TypeOK, Tasks, GateEnds, LateInv, Armed, Due, Idle
<1>6. CASE gate_fire_cb_end
  BY <1>1, <1>2, <1>6, Constants
     DEF gate_fire_cb_end, off_after_fire,
         IInv, TypeOK, Tasks, GateEnds, LateInv, Armed, Due, Idle
<1>7. CASE gate_off_cb
  BY <1>1, <1>2, <1>7
     DEF gate_off_cb, IInv, TypeOK, Tasks, GateEnds, LateInv, Armed, Due, Idle
<1> QED BY <1>3, <1>4, <1>5, <1>6, <1>7

\* Time disarms nothing.
LEMMA PassesKeeps == IInv /\ Passes => IInv'
<1> SUFFICES ASSUME IInv, Passes PROVE IInv'
  OBVIOUS
<1>1. /\ UNCHANGED <<relay, s_half, seen, task, gate, tick, cooled, late>>
      /\ UNCHANGED <<s_duty, heater_was_on, heater_off_tick, behind>>
      /\ since' = AtMost(since + 1, MaxPeriod + 1)
      /\ fire' = IF fire > 0 THEN fire - 1 ELSE fire
      /\ off' = IF off > 0 THEN off - 1 ELSE off
  BY DEF Passes, fan
<1>2. since' \in 0 .. MaxPeriod + 1
  BY <1>1, Constants DEF AtMost, IInv, TypeOK
<1>3. /\ fire' \in Nat \cup {Idle} /\ off' \in Nat \cup {Idle}
      /\ (fire' = Idle <=> fire = Idle) /\ (off' = Idle <=> off = Idle)
  BY <1>1 DEF IInv, TypeOK, Idle
<1> QED BY <1>1, <1>2, <1>3
        DEF IInv, TypeOK, GateEnds, LateInv, CoolInv, Elapsed, Armed, Due

\* fan_task stops a fan only when no expired pulse is on its way, and starts the
\* history of the cooldown where it notes the tick.
LEMMA FanTaskKeeps == IInv /\ fan_task => IInv'
<1> SUFFICES ASSUME IInv, fan_task PROVE IInv'
  OBVIOUS
<1>1. /\ task = "idle" /\ behind' = 0
      /\ UNCHANGED <<relay, s_half, seen, since, fire, off, task, gate, tick>>
      /\ late' = IF s_duty' = 0 THEN late ELSE 0
  BY DEF fan_task, phase
<1>2. /\ s_duty' \in 0 .. 100 /\ heater_was_on' \in BOOLEAN
      /\ heater_off_tick' \in 0 .. TickWrap - 1 /\ cooled' \in 0 .. CooldownBound
      /\ CoolInv'
  <2>1. CASE relay = 1
    <3>1. /\ heater_was_on' = TRUE /\ s_duty' = Active /\ cooled' = 0
          /\ heater_off_tick' = heater_off_tick
      BY <2>1 DEF fan_task
    <3>2. CoolInv' /\ heater_was_on' \in BOOLEAN
      BY <3>1, Zenon DEF CoolInv
    <3>3. s_duty' = Active /\ cooled' = 0 /\ heater_off_tick' = heater_off_tick
      BY <3>1
    <3> QED BY <3>2, <3>3, Constants DEF IInv, TypeOK, CooldownBound
  <2>2. CASE relay = 0 /\ heater_was_on
    <3>1. /\ heater_was_on' = FALSE /\ s_duty' = Cooldown /\ cooled' = 0
          /\ heater_off_tick' = tick
      BY <2>2 DEF fan_task, was_on_after_off
    <3>2. s_duty' = Cooldown /\ cooled' = 0 /\ heater_off_tick' = tick /\ tick' = tick
      BY <1>1, <3>1
    <3>3. Elapsed(cooled)' /\ cooled' < CooldownTicks + behind'
      BY <1>1, <3>2, Constants DEF Elapsed, IInv, TypeOK
    <3>4. CoolInv' /\ heater_was_on' \in BOOLEAN
      BY <3>1, <3>3, Zenon DEF CoolInv
    <3>5. /\ s_duty' \in 0 .. 100 /\ cooled' \in 0 .. CooldownBound
          /\ heater_off_tick' \in 0 .. TickWrap - 1
      BY <3>2, Constants DEF IInv, TypeOK, CooldownBound
    <3> QED BY <3>4, <3>5
  <2>3. CASE relay = 0 /\ ~heater_was_on
    <3>1. /\ s_duty' = IF s_duty > 0 /\ cooldown_over THEN 0 ELSE s_duty
          /\ UNCHANGED <<heater_was_on, heater_off_tick, cooled>>
      BY <2>3 DEF fan_task
    <3>2. CoolInv'
      <4>1. CASE s_duty > 0 /\ ~cooldown_over
        <5>1. Elapsed(cooled) /\ cooled < CooldownTicks
          BY <2>3, <4>1, CooldownRead, Constants DEF IInv, TypeOK, CoolInv, cooldown_over
        <5> QED BY <1>1, <3>1, <5>1, Constants DEF CoolInv, Elapsed, IInv, TypeOK
      <4>2. CASE ~(s_duty > 0 /\ ~cooldown_over)
        <5>1. ~(s_duty' > 0)
          BY <3>1, <4>2
        <5> QED BY <5>1 DEF CoolInv
      <4> QED BY <4>1, <4>2
    <3> QED BY <1>1, <3>1, <3>2 DEF IInv, TypeOK
  <2> QED BY <2>1, <2>2, <2>3 DEF IInv, TypeOK
<1>3. TypeOK' /\ GateEnds'
  BY <1>1, <1>2, Constants DEF IInv, TypeOK, GateEnds
<1>4. LateInv'
  BY <1>1, <1>2 DEF IInv, TypeOK, LateInv, Armed, Due
<1> QED BY <1>2, <1>3, <1>4 DEF IInv

\* The tick and the history of the cooldown advance together.
LEMMA TickKeeps == IInv /\ RtosTick => IInv'
<1> SUFFICES ASSUME IInv, RtosTick PROVE IInv'
  OBVIOUS
<1>1. /\ UNCHANGED <<relay, s_half, seen, since, fire, off, task, gate>>
      /\ UNCHANGED <<s_duty, heater_was_on, heater_off_tick, late>>
      /\ behind < MaxBehind /\ behind' = behind + 1
      /\ cooled' = AtMost(cooled + 1, CooldownBound)
  BY Zenon DEF RtosTick, phase
<1>2. /\ TickWrap \in Nat \ {0}
      /\ tick' = IF tick = TickWrap - 1 THEN 0 ELSE tick + 1
  BY Constants, NextTick DEF RtosTick, IInv, TypeOK
<1>3. /\ tick' \in 0 .. TickWrap - 1 /\ cooled' \in 0 .. CooldownBound
      /\ cooled < CooldownBound => cooled' = cooled + 1
  BY <1>1, <1>2, Constants DEF IInv, TypeOK, AtMost, CooldownBound
<1>4. CoolInv'
  <2> SUFFICES ASSUME s_duty > 0, ~heater_was_on
               PROVE  Elapsed(cooled)' /\ cooled' < CooldownTicks + behind'
    BY <1>1 DEF CoolInv
  <2>1. Elapsed(cooled) /\ cooled < CooldownTicks + behind
    BY DEF IInv, CoolInv
  <2>2. cooled' = cooled + 1
    BY <1>1, <1>3, <2>1, Constants DEF IInv, TypeOK, CooldownBound
  <2>3. cooled' < CooldownTicks + behind'
    BY <1>1, <2>1, <2>2, Constants DEF IInv, TypeOK
  <2>4. /\ tick \in Nat /\ heater_off_tick \in Nat /\ cooled \in Nat /\ TickWrap \in Nat
        /\ heater_off_tick' = heater_off_tick /\ cooled < TickWrap
    BY <1>1, <2>1, Constants DEF IInv, TypeOK, CooldownBound
  <2>5. Elapsed(cooled)'
    <3>1. CASE tick = TickWrap - 1
      <4>1. tick' = 0 /\ tick = heater_off_tick + cooled
        BY <1>2, <2>1, <2>4, <3>1 DEF Elapsed, IInv, TypeOK
      <4> QED BY <2>2, <2>4, <3>1, <4>1 DEF Elapsed
    <3>2. CASE tick # TickWrap - 1
      BY <1>2, <2>1, <2>2, <2>4, <3>2 DEF Elapsed
    <3> QED BY <3>1, <3>2
  <2> QED BY <2>3, <2>5
<1>5. behind' \in 0 .. MaxBehind
  BY <1>1, Constants DEF IInv, TypeOK
<1> QED BY <1>1, <1>3, <1>4, <1>5 DEF IInv, TypeOK, GateEnds, LateInv, Armed, Due

LEMMA StepKeeps == IInv /\ [Next]_vars => IInv'
<1> SUFFICES ASSUME IInv, [Next]_vars PROVE IInv'
  OBVIOUS
<1>1. CASE SwitchRelay
  BY <1>1 DEF SwitchRelay, phase, fan, IInv, TypeOK, GateEnds, LateInv, CoolInv, Elapsed,
              Armed, Due
<1>2. CASE UNCHANGED vars
  BY <1>2 DEF vars, phase, fan, IInv, TypeOK, GateEnds, LateInv, CoolInv, Elapsed,
              Armed, Due
<1> QED
  BY <1>1, <1>2, ZeroCrossingKeeps, TimerTaskKeeps, PassesKeeps, FanTaskKeeps, TickKeeps
     DEF Next

\* The invariant holds in every reachable state.
LEMMA Invariance == Spec => []IInv
BY InitHolds, StepKeeps, PTL DEF Spec

-----------------------------------------------------------------------------
\* The fan's state keeps its types, the timers and counters their ranges.
THEOREM FanTypes == Spec => []TypeOK
<1>1. IInv => TypeOK
  BY DEF IInv
<1> QED BY <1>1, Invariance, PTL

\* No gate stays raised: its end is armed or under way, however zero crossings
\* and the two timers interleave (fan.c:57-99).
THEOREM FanGateEnds == Spec => []GateEnds
<1>1. IInv => GateEnds
  BY DEF IInv
<1> QED BY <1>1, Invariance, PTL

\* A fan whose duty is zero begins at most the one pulse that was armed before.
THEOREM FanOneLatePulse == Spec => []OneLatePulse
<1>1. IInv => OneLatePulse
  BY DEF IInv, TypeOK, LateInv, Armed, Due, OneLatePulse
<1> QED BY <1>1, Invariance, PTL

\* The fan runs on for its cooldown and no longer, however late its task's turns are
\* and wherever the tick wraps between the tick it noted and the present one.
THEOREM FanCooldownKept == Spec => CooldownKept
<1>1. ASSUME IInv, [Next]_vars, s_duty > 0, s_duty' = 0
      PROVE  cooled >= CooldownTicks
  <2>1. fan_task
    BY <1>1 DEF Next, zcd_isr, TakeFire, TakeOff, gate_fire_cb, gate_fire_cb_end, gate_off_cb,
           Passes, RtosTick, SwitchRelay, vars, fan, IInv, TypeOK
  <2>2. relay = 0 /\ ~heater_was_on /\ cooldown_over
    BY <1>1, <2>1, Constants DEF fan_task, IInv, TypeOK
  <2>3. (tick - heater_off_tick) % TickWrap = cooled
    BY <1>1, <2>2, CooldownRead
  <2> QED BY <2>2, <2>3 DEF cooldown_over
<1>2. ASSUME IInv, s_duty > 0, ~heater_was_on
      PROVE  cooled < CooldownBound
  BY <1>2, Constants DEF IInv, TypeOK, CoolInv, CooldownBound
<1>3. IInv /\ [Next]_vars
        => [/\ s_duty > 0 /\ s_duty' = 0 => cooled >= CooldownTicks
            /\ s_duty > 0 /\ ~heater_was_on => cooled < CooldownBound]_vars
  BY <1>1, <1>2
<1> QED BY <1>3, Invariance, PTL DEF Spec, CooldownKept

=============================================================================
