--------------------------- MODULE MCTimerBridge ---------------------------
(***************************************************************************)
(* Instances of TimerBridge: a clock that wraps at least once, one delay   *)
(* below the minimum alarm lead and one above a kick, and user timers that *)
(* are interchangeable.                                                    *)
(***************************************************************************)
EXTENDS TimerBridge, TLC

UserSymmetry == Permutations(UserTimers)

=============================================================================
