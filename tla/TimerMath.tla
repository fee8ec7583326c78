----------------------------- MODULE TimerMath -----------------------------
(***************************************************************************)
(* The wrapping clock arithmetic of board/timer_math.h.  Klipper schedules *)
(* with unsigned 32-bit timestamps; the GPTimer counts in 64 bits.  The    *)
(* only conversion from one to the other is timer_alarm_count_for.         *)
(*                                                                         *)
(* The width is a parameter: a timestamp is a number modulo Epoch, and     *)
(* Half is where the signed view turns negative (2^31 in the firmware).    *)
(***************************************************************************)
EXTENDS Integers

CONSTANTS
  Half,            \* half of the timestamp range: 2^31 in the firmware
  MinAlarmTicks    \* ESP32_TIMER_MIN_ALARM_TICKS: 5 in the firmware

ASSUME HalfAssumption == Half \in Nat \ {0}
ASSUME MinAlarmAssumption == MinAlarmTicks \in 1 .. Half - 1

Epoch == 2 * Half

\* The C conversions (uint32_t)x and (int32_t)x.
UInt32(x) == x % Epoch
Int32(x)  == LET u == UInt32(x) IN IF u < Half THEN u ELSE u - Epoch

Larger(a, b) == IF a >= b THEN a ELSE b

-----------------------------------------------------------------------------
\* Mutants: forms of timer_alarm_count_for that a slip in the code would give.

\* The difference kept unsigned: an overdue timestamp lands in the next epoch.
alarm_unsigned_delta(now, next) ==
  now + Larger(UInt32(next - UInt32(now)), MinAlarmTicks)

\* The clamp dropped: an overdue timestamp wraps through (uint32_t)delta.
alarm_without_clamp(now, next) ==
  now + UInt32(Int32(next - UInt32(now)))

\* The clamp off by one: an imminent timestamp gets one tick less of lead.
alarm_clamp_short(now, next) ==
  LET delta == Int32(next - UInt32(now))
  IN  now + UInt32(Larger(delta, MinAlarmTicks - 1))

-----------------------------------------------------------------------------
(***************************************************************************)
(* The 64-bit count at which to raise the alarm for the timestamp `next`   *)
(* when the counter reads `now`.                                           *)
(***************************************************************************)
timer_alarm_count_for(now, next) ==
  LET delta == Int32(next - UInt32(now))
  IN  now + UInt32(Larger(delta, MinAlarmTicks))

=============================================================================
