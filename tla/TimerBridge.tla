---------------------------- MODULE TimerBridge ----------------------------
(***************************************************************************)
(* The timer bridge of board/timer.c.  Three actors share its state:       *)
(*                                                                         *)
(*   - the GPTimer, a free-running counter with one one-shot alarm;        *)
(*   - its interrupt handler, which only sets a flag and notifies a task;  *)
(*   - the Klipper task, which runs Klipper's scheduler, dispatches timers *)
(*     in task context and re-arms the alarm.                              *)
(*                                                                         *)
(* The task is a program counter, `pc`, with one action per stretch of     *)
(* code between two points where the interrupt handler or the clock can    *)
(* come in.  Klipper's own sched.c and timer_irq.c are a git submodule:    *)
(* what they do is modelled from how this code calls them, and is called   *)
(* external below.                                                         *)
(***************************************************************************)
EXTENDS TimerMath

CONSTANTS
  UserTimers,     \* timers that host commands schedule
  UserDelays,     \* how far ahead they schedule them
  Period,         \* period of the timer that wakes Klipper's tasks
  KickTicks,      \* timer_kick's 50 us
  WaitTicks,      \* irq_wait's 5 ms
  PassTicks,      \* longest run of the task between two polls of the timer
  InstallTicks,   \* longest time from timer_set's read to the alarm's install
  MaxCount        \* the bound on the clock

\* Klipper's guarantee (timer_math.h:14-15): what it schedules is less than half
\* a wrap of the timestamp away, and so are the task's own delays.
ASSUME KickAssumption    == KickTicks \in 1 .. Half - 1
ASSUME PeriodAssumption  == Period \in Nat \ {0} /\ Period + Period < Half
ASSUME DelayAssumption   == UserDelays \subseteq 1 .. Half - 1
ASSUME PassAssumption    == PassTicks \in 1 .. Half
ASSUME WaitAssumption    == WaitTicks \in Nat \ {0}

\* The lead that timer_math.h:9-11 reserves is longer than an install takes.
ASSUME InstallAssumption == InstallTicks \in 0 .. MinAlarmTicks - 1

ASSUME UserAssumption    == UserTimers \cap {"periodic", "deleted"} = {}
ASSUME CountAssumption   == MaxCount \in Nat

Off    == -1                           \* deadline of an unscheduled timer

\* Klipper's own: the timer that wakes its tasks, and the placeholder that stands
\* at the head of its list, so that a kick's dispatch has something to run.
Timers == UserTimers \cup {"periodic", "deleted"}

VARIABLES
  count,          \* the GPTimer's 64-bit counter
  alarm,          \* its alarm, 0 when none is enabled
  intr,           \* the alarm interrupt is pending
  must_dispatch,  \* TimerInfo.must_dispatch
  notified,       \* the Klipper task's FreeRTOS notification
  nest,           \* how many critical sections the task is inside
  pc,             \* where the task is
  ret,            \* where the timer_dispatch or timer_set in progress returns
  now,            \* the count timer_set has read
  wake,           \* the time timer_set's argument stands for
  timers,         \* external: the deadline of each timer in Klipper's list
  requested,      \* external: tasks_status is TS_REQUESTED
  polled,         \* external: this pass over the tasks has run irq_poll
  is_shutdown,    \* external: sched_is_shutdown()
  lag,            \* ticks the task has run, or slept, since its last mark
  abandoned,      \* history: critical sections a shutdown has left open
  overrun,        \* history: an alarm went off in the midst of a dispatch, and
                  \* the flag it raised has not been taken
  early           \* history: the dispatch under way took such a flag

hardware == <<count, alarm, intr>>
flags    == <<must_dispatch, notified, overrun>>
locals   == <<now, wake>>
sched    == <<timers, requested, polled, is_shutdown, abandoned, early>>
vars     == <<hardware, flags, nest, pc, ret, locals, sched, lag>>

Scheduled(t) == timers[t] # Off
Earliest(t)  == /\ Scheduled(t)
                /\ \A u \in Timers : Scheduled(u) => timers[t] <= timers[u]

\* The head of Klipper's list.
Head(t) == IF Scheduled("deleted") THEN t = "deleted" ELSE Earliest(t)

-----------------------------------------------------------------------------
(***************************************************************************)
(* Interrupts are masked while the task is inside a critical section; an   *)
(* unmasked one preempts it at once.                                       *)
(***************************************************************************)
Preempted == intr /\ nest = 0

\* The task moves from one point to another; Marked also starts a new lag.
Step(from, to)   == ~Preempted /\ pc = from /\ pc' = to /\ UNCHANGED lag
Marked(from, to) == ~Preempted /\ pc = from /\ pc' = to /\ lag' = 0

Enter == nest' = nest + 1       \* portENTER_CRITICAL, irq_disable, irq_save
Exit  == nest' = nest - 1       \* portEXIT_CRITICAL, irq_enable, irq_restore

-----------------------------------------------------------------------------
\* Mutants: slips in timer.c that the properties below must tell from the code.

\* The handler sets the flag and forgets the notification.
timer_irq_handler_no_notify ==
  /\ Preempted
  /\ intr' = FALSE
  /\ must_dispatch' = TRUE
  /\ UNCHANGED <<count, alarm, notified, overrun, nest, pc, ret, locals, sched, lag>>

\* timer_set installs the count a faulty conversion gives.
install_of(alarm_count) ==
  /\ Step("arm", ret)
  /\ Exit
  /\ alarm' = alarm_count
  /\ now' = 0 /\ wake' = 0
  /\ UNCHANGED <<count, intr, flags, ret, sched>>

install_unsigned_delta == install_of(alarm_unsigned_delta(now, UInt32(wake)))
install_without_clamp  == install_of(alarm_without_clamp(now, UInt32(wake)))

\* timer_set returns from inside its critical section.
install_stays_masked ==
  /\ Step("arm", ret)
  /\ alarm' = timer_alarm_count_for(now, UInt32(wake))
  /\ now' = 0 /\ wake' = 0
  /\ UNCHANGED <<count, intr, flags, nest, ret, sched>>

\* irq_wait blocks in the critical section it was called with.
irq_wait_stays_masked ==
  /\ ~requested
  /\ Step("check", "take")
  /\ ret' = "feed"
  /\ UNCHANGED <<hardware, flags, nest, locals, sched>>

\* timer_dispatch takes the flag and does not reset it.
take_keeps_flag ==
  /\ must_dispatch
  /\ Marked("take", "many")
  /\ overrun' = FALSE /\ early' = overrun
  /\ UNCHANGED <<hardware, must_dispatch, notified, nest, ret, locals, timers, requested,
                 polled, is_shutdown, abandoned>>

\* irq_wait goes to sleep without polling the timer.
irq_wait_without_poll ==
  /\ ~requested
  /\ Step("check", "feed")
  /\ Exit
  /\ ret' = "feed"
  /\ UNCHANGED <<hardware, flags, locals, sched>>

\* The shutdown function disarms the alarm along with the flag.
clear_active_irq_disarms ==
  /\ Step("clear", "end")
  /\ must_dispatch' = FALSE /\ overrun' = FALSE
  /\ alarm' = 0 /\ intr' = FALSE
  /\ UNCHANGED <<count, notified, nest, ret, locals, sched>>

-----------------------------------------------------------------------------
(***************************************************************************)
(* State after timer_init, which arms the first kick before it starts the  *)
(* counter.  The task is about to enter Klipper's main loop.               *)
(***************************************************************************)
Init ==
  /\ count = 0 /\ intr = FALSE
  /\ alarm = timer_alarm_count_for(0, UInt32(KickTicks))
  /\ must_dispatch = FALSE /\ notified = FALSE
  /\ nest = 0 /\ pc = "start" /\ ret = "feed"
  /\ now = 0 /\ wake = 0
  /\ timers = [t \in Timers |-> IF t = "periodic" THEN 0 ELSE Off]
  /\ requested = FALSE /\ polled = FALSE /\ is_shutdown = FALSE
  /\ lag = 0
  /\ abandoned = 0 /\ overrun = FALSE /\ early = FALSE

(***************************************************************************)
(* The clock.  It does not run past a pending unmasked interrupt, and the  *)
(* task gets its share: a bounded run between two marks, a bounded sleep in*)
(* irq_wait, a bounded time between timer_set's read and its install.  The *)
(* alarm fires on equality only, once.                                     *)
(*                                                                         *)
(* An alarm may go off in a dispatch, between the taking of the flag and   *)
(* the install: a kick's, or one left by such a dispatch before.  The flag *)
(* it raises is overrun, and the next dispatch runs whatever is first, due *)
(* or not.  A periodic timer run so names a deadline one period further    *)
(* ahead of the clock each time; Room is the model's bound on that, which  *)
(* the firmware meets after thousands of such dispatches in a row.         *)
(***************************************************************************)
InDispatch == pc \in {"many", "next"} \/ (pc \in {"set", "arm"} /\ ret \in {"feed", "tasks"})

Room == timers["periodic"] + Period + (IF early THEN Period ELSE 0) < count + Half

Allowance == IF pc # "block" THEN PassTicks
             ELSE IF notified THEN 0 ELSE WaitTicks

Tick ==
  /\ count < MaxCount
  /\ ~Preempted
  /\ lag < Allowance
  /\ pc = "arm" => count < now + InstallTicks
  /\ InDispatch /\ alarm = count + 1 => Room
  /\ count' = count + 1
  /\ lag' = lag + 1
  /\ intr' = (intr \/ alarm = count')
  /\ alarm' = IF alarm = count' THEN 0 ELSE alarm
  /\ overrun' = (overrun \/ (InDispatch /\ alarm = count'))
  /\ UNCHANGED <<must_dispatch, notified, nest, pc, ret, locals, sched>>

\* The horizon of the checked instances: the clock stops, nothing else does.
Horizon == count = MaxCount /\ UNCHANGED vars

timer_irq_handler ==
  /\ Preempted
  /\ intr' = FALSE
  /\ must_dispatch' = TRUE
  /\ notified' = TRUE
  /\ UNCHANGED <<count, alarm, overrun, nest, pc, ret, locals, sched, lag>>

-----------------------------------------------------------------------------
(***************************************************************************)
(* timer_dispatch: take the flag, run timers, re-arm.                      *)
(***************************************************************************)
DispatchNothing ==
  /\ ~must_dispatch
  /\ Marked("take", ret)
  /\ UNCHANGED <<hardware, flags, nest, ret, locals, sched>>

DispatchTake ==
  /\ must_dispatch
  /\ Marked("take", "many")
  /\ must_dispatch' = FALSE
  /\ overrun' = FALSE /\ early' = overrun
  /\ UNCHANGED <<hardware, notified, nest, ret, locals, timers, requested, polled,
                 is_shutdown, abandoned>>

\* External: timer_dispatch_many runs the head of the list at once, and those after
\* it as they come due.  The periodic timer wakes the tasks, the placeholder does
\* nothing; any other may end or name a next deadline that is within reach.
RunTimer(t) ==
  /\ Head(t)
  /\ pc = "many" \/ (pc = "next" /\ timers[t] <= count)
  /\ Step(pc, "next")
  /\ early' = FALSE
  /\ \/ /\ t = "periodic" /\ requested' = TRUE
        /\ timers' = [timers EXCEPT ![t] = @ + Period]
     \/ /\ t # "periodic" /\ UNCHANGED requested
        /\ timers' = [timers EXCEPT ![t] = Off]
     \/ /\ t \in UserTimers /\ UNCHANGED requested
        /\ \E d \in UserDelays : /\ timers[t] + d < count + Half
                               /\ timers' = [timers EXCEPT ![t] = @ + d]
  /\ UNCHANGED <<hardware, flags, nest, ret, locals, polled, is_shutdown, abandoned>>

\* External: it returns the next deadline once that is in the future.
DispatchReturn(t) ==
  /\ Head(t)
  /\ timers[t] > count
  /\ Step("next", "set")
  /\ wake' = timers[t]
  /\ UNCHANGED <<hardware, flags, nest, ret, now, sched>>

(***************************************************************************)
(* timer_set: read the counter, then install the alarm, in a critical      *)
(* section during which the counter runs on.                               *)
(***************************************************************************)
SetRead ==
  /\ Step("set", "arm")
  /\ Enter
  /\ now' = count
  /\ UNCHANGED <<hardware, flags, ret, wake, sched>>

SetInstall ==
  /\ Step("arm", ret)
  /\ Exit
  /\ alarm' = timer_alarm_count_for(now, UInt32(wake))
  /\ now' = 0 /\ wake' = 0
  /\ UNCHANGED <<count, intr, flags, ret, sched>>

timer_kick ==
  /\ Step("kick", "set")
  /\ wake' = count + KickTicks
  /\ UNCHANGED <<hardware, flags, nest, ret, now, sched>>

-----------------------------------------------------------------------------
(***************************************************************************)
(* External: the main loop of sched.c.  With interrupts off it looks for   *)
(* woken tasks, and calls irq_wait until there are some.                   *)
(***************************************************************************)
LoopStart ==
  /\ Step("start", "check")
  /\ Enter
  /\ UNCHANGED <<hardware, flags, ret, locals, sched>>

TasksStart ==
  /\ requested
  /\ Step("check", "tasks")
  /\ Exit
  /\ requested' = FALSE /\ polled' = FALSE
  /\ UNCHANGED <<hardware, flags, ret, locals, timers, is_shutdown, abandoned, early>>

\* irq_wait opens the critical section it is called with and polls the timer,
irq_wait ==
  /\ ~requested
  /\ Step("check", "take")
  /\ Exit
  /\ ret' = "feed"
  /\ UNCHANGED <<hardware, flags, locals, sched>>

\* resets the task watchdog,
irq_wait_feed ==
  /\ Marked("feed", "block")
  /\ UNCHANGED <<hardware, flags, nest, ret, locals, sched>>

\* and sleeps until a notification or the timeout, masking again on return.  With
\* a section left open the scheduler cannot switch tasks, and there is no sleep.
irq_wait_wake ==
  /\ notified \/ lag >= WaitTicks \/ nest > 0
  /\ Marked("block", "check")
  /\ notified' = FALSE
  /\ Enter
  /\ UNCHANGED <<hardware, must_dispatch, overrun, ret, locals, sched>>

-----------------------------------------------------------------------------
(***************************************************************************)
(* One pass over the tasks: irq_poll once, commands before and after it.   *)
(***************************************************************************)
irq_poll ==
  /\ ~polled
  /\ Step("tasks", "take")
  /\ polled' = TRUE
  /\ ret' = "tasks"
  /\ UNCHANGED <<hardware, flags, nest, locals, timers, requested, is_shutdown,
                 abandoned, early>>

\* External: sched_add_timer, with interrupts saved; when the new deadline comes
\* before all the others it puts the placeholder ahead of it and kicks the timer.
First(d) == \A u \in Timers : Scheduled(u) => count + d < timers[u]

AddTimer(t, d) ==
  /\ ~Scheduled(t)
  /\ timers' = [u \in Timers |->
                  IF u = t \/ (u = "deleted" /\ First(d)) THEN count + d ELSE timers[u]]
  /\ Step("tasks", IF First(d) THEN "kick" ELSE "restore")
  /\ Enter
  /\ ret' = "restore"
  /\ UNCHANGED <<hardware, flags, locals, requested, polled, is_shutdown, abandoned, early>>

AddTimerEnd ==
  /\ Step("restore", "tasks")
  /\ Exit
  /\ UNCHANGED <<hardware, flags, ret, locals, sched>>

\* A reply or a second console pass asks for another pass over the tasks.
WakeTasks ==
  /\ ~requested
  /\ Step("tasks", "tasks")
  /\ requested' = TRUE
  /\ UNCHANGED <<hardware, flags, nest, ret, locals, timers, polled, is_shutdown,
                 abandoned, early>>

TasksEnd ==
  /\ polled
  /\ Step("tasks", "start")
  /\ UNCHANGED <<hardware, flags, nest, ret, locals, sched>>

-----------------------------------------------------------------------------
(***************************************************************************)
(* External: a command or a timer callback shuts the firmware down, from   *)
(* outside any critical section or, when sched_add_timer finds the deadline*)
(* past, from inside its irq_save.  It disables interrupts and jumps to the*)
(* handler, which disables them again, drops the user's timers, puts the   *)
(* placeholder at the head and kicks before any shutdown function runs.    *)
(* The handler enables once: where these calls nest, what it does not leave*)
(* is abandoned, the jump's own section and its caller's.                  *)
(***************************************************************************)
RaiseShutdown ==
  /\ pc \in {"tasks", "many", "next"} /\ ~is_shutdown
  /\ Step(pc, "kick")
  /\ abandoned' \in 0 .. 2
  /\ nest' = nest + abandoned' + 1
  /\ ret' = "clear"
  /\ is_shutdown' = TRUE /\ early' = FALSE
  /\ timers' = [t \in Timers |-> IF t \in UserTimers THEN Off ELSE timers["periodic"]]
  /\ UNCHANGED <<hardware, flags, locals, requested, polled>>

clear_active_irq ==
  /\ Step("clear", "end")
  /\ must_dispatch' = FALSE /\ overrun' = FALSE
  /\ UNCHANGED <<hardware, notified, nest, ret, locals, sched>>

\* External: the handler leaves its critical section, and the main loop starts over.
ShutdownEnd ==
  /\ Step("end", "start")
  /\ Exit
  /\ UNCHANGED <<hardware, flags, ret, locals, sched>>

-----------------------------------------------------------------------------
timer_dispatch == \/ DispatchNothing \/ DispatchTake
                  \/ \E t \in Timers : RunTimer(t) \/ DispatchReturn(t)
timer_set      == SetRead \/ SetInstall
Loop           == \/ LoopStart \/ TasksStart
                  \/ irq_wait \/ irq_wait_feed \/ irq_wait_wake
Tasks          == \/ irq_poll \/ AddTimerEnd \/ WakeTasks \/ TasksEnd
                  \/ \E t \in UserTimers, d \in UserDelays : AddTimer(t, d)
Shutdown       == RaiseShutdown \/ clear_active_irq \/ ShutdownEnd

Task == timer_dispatch \/ timer_set \/ timer_kick \/ Loop \/ Tasks \/ Shutdown

Next == Tick \/ Horizon \/ timer_irq_handler \/ Task

\* The hardware counts and interrupts by itself; the Klipper task has the
\* highest priority of its core and never stops between two blocking calls.
Fairness == WF_vars(Tick) /\ WF_vars(timer_irq_handler) /\ WF_vars(Task)

Spec     == Init /\ [][Next]_vars
FairSpec == Spec /\ Fairness

-----------------------------------------------------------------------------
\* Types; critical sections nest no deeper than the calls that open them.
TypeOK ==
  /\ count \in 0 .. MaxCount /\ alarm \in Nat
  /\ intr \in BOOLEAN /\ must_dispatch \in BOOLEAN /\ notified \in BOOLEAN
  /\ nest \in 0 .. 4 /\ abandoned \in 0 .. 2
  /\ overrun \in BOOLEAN /\ early \in BOOLEAN
  /\ pc \in {"start", "check", "take", "many", "next", "set", "arm", "kick", "feed",
             "block", "tasks", "restore", "clear", "end"}
  /\ ret \in {"feed", "tasks", "restore", "clear"}
  /\ now \in Nat /\ wake \in Nat
  /\ timers \in [Timers -> Nat \cup {Off}]
  /\ requested \in BOOLEAN /\ polled \in BOOLEAN /\ is_shutdown \in BOOLEAN
  /\ lag \in Nat

(***************************************************************************)
(* However the nested enters and exits of irq_wait, timer_set,             *)
(* sched_add_timer and a shutdown combine, the task comes to its sleep, its*)
(* commands and the start of its loop with no section open but those a     *)
(* shutdown left so, and to sched.c's test with exactly one more: the board*)
(* leaves none of its own open, and closes none of another's.              *)
(***************************************************************************)
MaskBalance == /\ pc \in {"block", "feed", "tasks", "start"} => nest = abandoned
               /\ pc = "check" => nest = abandoned + 1
               /\ abandoned > 0 => is_shutdown

(***************************************************************************)
(* The task is between taking the flag and arming the next alarm.          *)
(***************************************************************************)
Rearming == \/ pc \in {"many", "next"}
            \/ pc \in {"kick", "set", "arm"} /\ ret # "restore"

(***************************************************************************)
(* The alarm is one-shot and only a dispatch arms the next one, so timers  *)
(* must never be left with nothing to come: outside the re-arming code     *)
(* there is an alarm ahead, its interrupt, or the flag it set.  If this    *)
(* failed irq_wait would still feed the watchdog every 5 ms while no timer *)
(* ever ran again (timer.c:136-153, 190, 202-206).                         *)
(***************************************************************************)
WakeChain == Rearming \/ alarm > count \/ intr \/ must_dispatch

(***************************************************************************)
(* No alarm is armed at a count already passed, where it would never fire  *)
(* (timer.c:65-70): the minimum lead covers the time to install it.        *)
(***************************************************************************)
NoMissedAlarm == alarm # 0 => alarm > count

(***************************************************************************)
(* An interrupt between irq_wait's poll and its sleep is not lost: if the  *)
(* flag is up when the task sleeps, the notification that ends the sleep is*)
(* there (timer.c:94-97, 189-191).                                         *)
(***************************************************************************)
NoLostWakeup == pc = "block" /\ must_dispatch => notified

(***************************************************************************)
(* Each alarm is installed for the deadline it was asked for, in its own   *)
(* epoch, or for the minimum lead when that is late: no deadline slips by  *)
(* a whole 32-bit epoch (timer.c:51-58).                                   *)
(***************************************************************************)
EpochExact == [][SetInstall => alarm' = Larger(wake, now + MinAlarmTicks)]_vars

\* The deadlines whose timestamps Klipper may hold: less than half an epoch off.
Reach == { d \in 0 .. count + Half - 1 : count - d <= Half }

(***************************************************************************)
(* At every count the clock reaches, each of those timestamps stands for   *)
(* its own deadline, on both sides of a wrap: a late one is imminent,      *)
(* never one epoch away, a future one is kept (timer_math.h:13-16).        *)
(***************************************************************************)
AlarmInOwnEpoch ==
  \A d \in Reach :
    timer_alarm_count_for(count, UInt32(d)) = Larger(d, count + MinAlarmTicks)

(***************************************************************************)
(* How late a timer may be run.  Its alarm may have been replaced by a kick*)
(* or set for the minimum lead, and four stretches of the task may come in *)
(* between: up to timer_set, up to the end of irq_wait's poll, up to the   *)
(* next poll, and the dispatch.  A shutdown raised by the last timer of    *)
(* that dispatch throws all of it away, with the raised flag, and starts   *)
(* over from its own kick: three stretches, as timer_set is done with.     *)
(***************************************************************************)
Lead  == Larger(KickTicks, MinAlarmTicks)
Slack == (Lead + 4 * PassTicks) + (Lead + 3 * PassTicks)

Klippers == Timers \ {"deleted"}

Service == INSTANCE TimerService WITH
  Timers      <- Klippers,
  timers      <- [t \in Klippers |-> timers[t]],
  dispatching <- InDispatch,
  stray       <- overrun,
  masked      <- abandoned > 0

(***************************************************************************)
(* The bridge implements the timer service: timers run in order, before    *)
(* their time only on a flag raised in the midst of a dispatch, and the    *)
(* clock is never more than Slack ahead of a waiting timer, across wraps,  *)
(* kicks that replace an earlier alarm, and shutdowns, unless one of these *)
(* left interrupts masked.                                                 *)
(***************************************************************************)
ServiceSpec == Service!Spec

\* A raised flag is dispatched or, in a shutdown, replaced by a fresh kick.
FlagServed == must_dispatch ~> pc = "many" \/ pc = "clear"

(***************************************************************************)
(* Whatever happens, the timer dispatcher runs again and again for as long *)
(* as the clock does: the wake chain never dies (timer.c:135-153), unless a*)
(* shutdown left interrupts masked.                                        *)
(***************************************************************************)
DispatchGoesOn ==
  count < MaxCount - (Period + Slack) ~> pc = "many" \/ abandoned > 0

=============================================================================
