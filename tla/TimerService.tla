---------------------------- MODULE TimerService ----------------------------
(***************************************************************************)
(* What the board's timer code promises to Klipper.  Timers are run by     *)
(* dispatches, earliest first, each once its time has come; the clock never*)
(* gets more than Slack ahead of a timer that is still waiting.            *)
(*                                                                         *)
(* There are two exceptions.  A wakeup that comes while a dispatch is under*)
(* way is stray: it starts another dispatch, whose first timer may be run  *)
(* before its time.  And once a shutdown has left interrupts masked nothing*)
(* is promised about how late a timer is.                                  *)
(***************************************************************************)
EXTENDS Integers

CONSTANTS Timers, Slack

Off == -1                       \* deadline of a timer that is not scheduled

VARIABLES
  count,                        \* the clock
  timers,                       \* the deadline of each timer, or Off
  dispatching,                  \* a dispatch is under way
  stray,                        \* a wakeup has come during a dispatch
  early,                        \* such a wakeup started the present dispatch
  masked                        \* interrupts are masked for good

vars == <<count, timers, dispatching, stray, early, masked>>

Scheduled(t) == timers[t] # Off

\* Nothing but timer t changes.
Others(t) == timers' = [timers EXCEPT ![t] = timers'[t]]

Init == /\ count = 0
        /\ timers \in [Timers -> Nat \cup {Off}]
        /\ ~dispatching /\ ~stray /\ ~early /\ ~masked

Tick == /\ ~masked => \A t \in Timers : Scheduled(t) => count < timers[t] + Slack
        /\ count' = count + 1
        /\ stray => stray'
        /\ stray' => stray \/ dispatching
        /\ UNCHANGED <<timers, dispatching, early, masked>>

Begin == /\ ~dispatching /\ dispatching'
         /\ early' = stray /\ ~stray'
         /\ UNCHANGED <<count, timers, masked>>

\* The earliest timer runs, when it is due, or first of a stray wakeup's dispatch;
\* it may name its next deadline.
Run(t) == /\ dispatching /\ Scheduled(t)
          /\ timers[t] <= count \/ early
          /\ \A u \in Timers : Scheduled(u) => timers[t] <= timers[u]
          /\ timers'[t] = Off \/ timers'[t] > timers[t]
          /\ Others(t)
          /\ ~early'
          /\ UNCHANGED <<count, dispatching, stray, masked>>

\* A dispatch with nothing to run, or nothing more.
End == /\ dispatching /\ ~early'
       /\ dispatching' \in BOOLEAN
       /\ UNCHANGED <<count, timers, stray, masked>>

\* A timer is scheduled in the future.
Add(t) == /\ ~dispatching /\ ~Scheduled(t)
          /\ timers'[t] > count
          /\ Others(t)
          /\ UNCHANGED <<count, dispatching, stray, early, masked>>

\* A shutdown breaks off what it comes upon, cancels timers and moves none of the
\* others; it may leave interrupts masked.
Cancel == /\ \A t \in Timers : timers'[t] \in {timers[t], Off}
          /\ timers' = [t \in Timers |-> timers'[t]]
          /\ ~dispatching' /\ ~early'
          /\ masked => masked'
          /\ UNCHANGED <<count, stray>>

\* And it drops a stray wakeup.
Drop == /\ ~stray'
        /\ UNCHANGED <<count, timers, dispatching, early, masked>>

Next == \/ Tick \/ Begin \/ End \/ Cancel \/ Drop
        \/ \E t \in Timers : Run(t) \/ Add(t)

Spec == Init /\ [][Next]_vars

=============================================================================
