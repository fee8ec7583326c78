------------------------------ MODULE Console ------------------------------
(***************************************************************************)
(* The console of board/console.c: bytes between the UART or USB driver and*)
(* Klipper's generic serial buffers, moved by console_io_task, which runs  *)
(* in Klipper's task loop and nowhere else.                                *)
(*                                                                         *)
(* A command of the host is one byte and its reply ReplyLen bytes, numbered*)
(* on from those of the command before; the report of a shutdown is byte 0.*)
(* The generic serial buffers, the command dispatcher and the task loop are*)
(* Klipper's, outside this repository, and modelled from how console.c     *)
(* calls them.                                                             *)
(***************************************************************************)
EXTENDS Integers, FiniteSets, Sequences, Functions

CONSTANTS
  MessageMax,    \* MESSAGE_MAX, the most that one pass transmits
  ReplyLen,      \* bytes of a reply
  Window,        \* commands the host sends ahead of their replies
  PeriodWaits,   \* irq_waits between two wakes by the periodic timer
  MaxCommands,   \* bound on the commands of a run
  Transports     \* the builds' choice: "uart", whose write takes all, "usb"

ASSUME MessageMaxAssumption == MessageMax \in Nat \ {0}
ASSUME ReplyLenAssumption   == ReplyLen \in Nat \ {0}
ASSUME WindowAssumption     == Window \in Nat \ {0}
ASSUME PeriodWaitsAssumption == PeriodWaits \in Nat \ {0}
ASSUME MaxCommandsAssumption == MaxCommands \in Nat
ASSUME TransportsAssumption == Transports \subseteq {"uart", "usb"}

TaskList == {"console_io_task", "console_task"}
Report   == 0       \* the byte that a shutdown sends by itself

Reply(k)   == [i \in 1 .. ReplyLen |-> (k - 1) * ReplyLen + i]
LastByte(k) == k * ReplyLen

VARIABLES
  sent,          \* how many commands the host has sent
  driver_rx,     \* bytes received by the driver, not yet read
  receive_buf,   \* external: commands read, not yet dispatched
  transmit_buf,  \* external: replies waiting for serial_get_tx_byte
  wire,          \* what the transport has taken, in order
  dropped,       \* history: bytes drained to a write that came up short
  tx_pending,    \* console.c's flag
  requested,     \* external: tasks_status is TS_REQUESTED
  todo,          \* external: tasks this pass has still to run
  pc,            \* where the task is
  waits,         \* irq_waits since the periodic timer last woke the tasks
  rx_age,        \* irq_waits since the oldest unread byte came in
  is_shutdown,   \* external: sched_is_shutdown()
  transport      \* the transport this firmware was built for

host   == <<sent, driver_rx>>
output == <<transmit_buf, wire, dropped>>
sched  == <<requested, todo, pc, waits>>
mode   == <<is_shutdown, transport>>
vars   == <<host, receive_buf, output, tx_pending, sched, rx_age, mode>>

-----------------------------------------------------------------------------
\* Mutants: slips in console.c that the properties must tell from the code.

\* The test for a full chunk left out: the rest of a long reply has no pass.
finish_write_no_extra_pass(len) ==
  /\ tx_pending' = FALSE
  /\ UNCHANGED requested

\* The second pass marked pending, and the wake that would run it forgotten.
finish_write_without_wake(len) ==
  /\ tx_pending' = (len = MessageMax)
  /\ UNCHANGED requested

\* The extra pass asked for by every pass that finds output pending.
finish_write_for_ever(len) ==
  /\ tx_pending' = TRUE
  /\ requested' = TRUE

\* The whole chunk written again after a short write.
console_write_again(chunk) ==
  { SubSeq(chunk, 1, n) \o chunk : n \in 0 .. Len(chunk) }

\* The early return for "nothing to transmit" moved above the read.
console_read_if_pending ==
  /\ pc = "tasks" /\ "console_io_task" \in todo
  /\ todo' = todo \ {"console_io_task"}
  /\ IF tx_pending
     THEN pc' = "io" /\ receive_buf' = receive_buf \o driver_rx
                     /\ driver_rx' = <<>> /\ rx_age' = 0
                     /\ requested' = (requested \/ driver_rx # <<>>)
     ELSE UNCHANGED <<pc, receive_buf, driver_rx, rx_age, requested>>
  /\ UNCHANGED <<sent, output, tx_pending, waits, mode>>

\* Transmission stopped for as long as the firmware is shut down.
io_idle_in_shutdown ==
  /\ pc = "io" /\ (~tx_pending \/ is_shutdown)
  /\ pc' = "tasks"
  /\ UNCHANGED <<host, receive_buf, output, tx_pending, requested, todo,
                 waits, rx_age, mode>>

-----------------------------------------------------------------------------
\* State after console_setup, when the main loop starts.
Init ==
  /\ sent = 0 /\ driver_rx = <<>>
  /\ receive_buf = <<>> /\ transmit_buf = <<>> /\ wire = <<>> /\ dropped = {}
  /\ tx_pending = FALSE /\ requested = FALSE
  /\ todo = {} /\ pc = "check"
  /\ waits = 0 /\ rx_age = 0
  /\ is_shutdown = FALSE /\ transport \in Transports

\* Commands without a complete reply handed to the transport.
Outstanding ==
  Len(driver_rx) + Len(receive_buf)
    + Cardinality({ k \in 1 .. sent : LastByte(k) \in Range(transmit_buf) })

\* External: the host keeps at most Window commands unanswered.  The driver's
\* interrupt takes the byte at any moment; nothing tells the task about it.
HostSend ==
  /\ sent < MaxCommands
  /\ Outstanding < Window
  /\ sent' = sent + 1
  /\ driver_rx' = Append(driver_rx, sent')
  /\ UNCHANGED <<receive_buf, output, tx_pending, sched, rx_age,
                 mode>>

-----------------------------------------------------------------------------
(***************************************************************************)
(* External: the task loop.  Only requested tasks run; otherwise the task  *)
(* goes round irq_wait, whose timers include the periodic one.             *)
(***************************************************************************)
irq_wait ==
  /\ pc = "check" /\ ~requested
  /\ waits' = (waits + 1) % PeriodWaits
  /\ requested' = (waits' = 0)
  /\ rx_age' = IF driver_rx = <<>> THEN 0 ELSE rx_age + 1
  /\ UNCHANGED <<host, receive_buf, output, tx_pending, todo, pc,
                 mode>>

TasksStart ==
  /\ pc = "check" /\ requested
  /\ pc' = "tasks"
  /\ requested' = FALSE
  /\ todo' = TaskList
  /\ UNCHANGED <<host, receive_buf, output, tx_pending, waits,
                 rx_age, mode>>

TasksEnd ==
  /\ pc = "tasks" /\ todo = {}
  /\ pc' = "check"
  /\ UNCHANGED <<host, receive_buf, output, tx_pending, requested, todo,
                 waits, rx_age, mode>>

-----------------------------------------------------------------------------
\* serial_enable_tx_irq: called when a reply has been put in the buffer.
serial_enable_tx_irq ==
  /\ tx_pending' = TRUE
  /\ requested' = TRUE

\* console_io_task's first half: everything the driver has goes to the receiver,
\* and the end of a command wakes the tasks (external: serial_rx_byte).
console_read ==
  /\ pc = "tasks" /\ "console_io_task" \in todo
  /\ pc' = "io"
  /\ todo' = todo \ {"console_io_task"}
  /\ receive_buf' = receive_buf \o driver_rx
  /\ driver_rx' = <<>>
  /\ rx_age' = 0
  /\ requested' = (requested \/ driver_rx # <<>>)
  /\ UNCHANGED <<sent, output, tx_pending, waits, mode>>

\* What console_write_all may hand to the transport: all of the chunk, or, on a
\* USB link that stops taking bytes for 10 ms, the part before that.
console_write_all(chunk) ==
  IF transport = "uart" THEN {chunk}
  ELSE { SubSeq(chunk, 1, n) : n \in 0 .. Len(chunk) }

\* A full chunk may have left bytes behind and asks for another pass.
finish_write(len) ==
  IF len = MessageMax
  THEN serial_enable_tx_irq
  ELSE tx_pending' = FALSE /\ UNCHANGED requested

\* Its second half: nothing pending, or one chunk drained and written.
io_idle ==
  /\ pc = "io" /\ ~tx_pending
  /\ pc' = "tasks"
  /\ UNCHANGED <<host, receive_buf, output, tx_pending, requested, todo,
                 waits, rx_age, mode>>

io_transmit ==
  /\ pc = "io" /\ tx_pending
  /\ pc' = "tasks"
  /\ LET len   == IF Len(transmit_buf) < MessageMax
                  THEN Len(transmit_buf) ELSE MessageMax
         chunk == SubSeq(transmit_buf, 1, len)
     IN  /\ transmit_buf' = SubSeq(transmit_buf, len + 1, Len(transmit_buf))
         /\ \E out \in console_write_all(chunk) :
              /\ wire' = wire \o out
              /\ dropped' = dropped \cup (Range(chunk) \ Range(out))
         /\ finish_write(len)
  /\ UNCHANGED <<host, receive_buf, todo, waits, rx_age, mode>>

-----------------------------------------------------------------------------
(***************************************************************************)
(* External: console_task dispatches one command and replies; more input   *)
(* left over wakes the tasks again.                                        *)
(***************************************************************************)
console_task_idle ==
  /\ pc = "tasks" /\ "console_task" \in todo
  /\ receive_buf = <<>>
  /\ todo' = todo \ {"console_task"}
  /\ UNCHANGED <<host, receive_buf, output, tx_pending, requested,
                 pc, waits, rx_age, mode>>

console_task ==
  /\ pc = "tasks" /\ "console_task" \in todo
  /\ receive_buf # <<>>
  /\ todo' = todo \ {"console_task"}
  /\ receive_buf' = Tail(receive_buf)
  /\ transmit_buf' = transmit_buf \o Reply(Head(receive_buf))
  /\ serial_enable_tx_irq
  /\ UNCHANGED <<host, wire, dropped, pc, waits, rx_age, mode>>

\* console_shutdown does nothing, on purpose: output goes on in a shutdown.
console_shutdown == UNCHANGED tx_pending

\* External: a command shuts the firmware down and so leaves the pass half done.
\* The shutdown functions run; then the loop starts over with the report queued.
RaiseShutdown ==
  /\ pc = "tasks" /\ "console_task" \in todo
  /\ receive_buf # <<>> /\ ~is_shutdown
  /\ is_shutdown' = TRUE
  /\ console_shutdown
  /\ pc' = "report" /\ todo' = {}
  /\ UNCHANGED <<host, receive_buf, output, requested, waits,
                 rx_age, transport>>

SendReport ==
  /\ pc = "report"
  /\ transmit_buf' = Append(transmit_buf, Report)
  /\ serial_enable_tx_irq
  /\ pc' = "check"
  /\ UNCHANGED <<host, receive_buf, wire, dropped, todo, waits, rx_age, mode>>

Task == \/ irq_wait \/ TasksStart \/ TasksEnd
        \/ console_read \/ io_idle \/ io_transmit
        \/ console_task_idle \/ console_task
        \/ RaiseShutdown \/ SendReport

Next == HostSend \/ Task

Spec     == Init /\ [][Next]_vars
FairSpec == Spec /\ WF_vars(Task)

-----------------------------------------------------------------------------
(***************************************************************************)
(* The task never goes to sleep on output: when it has no task to run,     *)
(* nothing waits in the transmit buffer.  A reply of exactly a chunk, a    *)
(* reply of several, a report queued by a shutdown that cut a pass short   *)
(* must each have asked for the pass that drains them (console.c:116-150). *)
(***************************************************************************)
NoOutputAsleep == pc = "check" /\ ~requested => transmit_buf = <<>>

(***************************************************************************)
(* Every byte of a reply is, in order and once, on the wire, in the buffer *)
(* or among those dropped with a write that came up short; a UART drops    *)
(* none, and neither repeats any (console.c:57-77, 137-144).               *)
(***************************************************************************)
OutputFaithful ==
  LET out      == wire \o transmit_buf
      input    == receive_buf \o driver_rx
      answered == sent - Len(input)
  IN  /\ input = [i \in 1 .. Len(input) |-> answered + i]
      /\ (Range(out) \cup dropped) \ {Report} = 1 .. LastByte(answered)
      /\ Range(out) \cap dropped \subseteq {Report}
      /\ \A i, j \in 1 .. Len(out) :
           i < j /\ Report \notin {out[i], out[j]} => out[i] < out[j]
      /\ transport = "uart" => dropped = {}

(***************************************************************************)
(* A received byte waits for no longer than the periodic wake of the tasks,*)
(* whatever else the console does (console.c:123-132).                     *)
(***************************************************************************)
RxBounded == rx_age <= PeriodWaits

(***************************************************************************)
(* What docs/panda-breath-bringup.md:42 says of the console: "`irq_wait`   *)
(* <=5 ms, `console_io_task` polls UART every loop": a byte that is there  *)
(* when one irq_wait begins is read before the next one.                   *)
(***************************************************************************)
RxPolledEveryWait == rx_age <= 1

(***************************************************************************)
(* Every command is answered in full, before, during and after a shutdown  *)
(* that cuts a pass short, unless a write that came up short dropped the   *)
(* end of its answer (console.c:116-150).                                  *)
(***************************************************************************)
EveryCommandAnswered ==
  \A k \in 1 .. MaxCommands :
    sent = k ~> LastByte(k) \in Range(wire) \cup dropped

\* The transport stays alive in a shutdown until its reason has gone out
\* (console.c:157-158).
ReportDelivered == is_shutdown ~> Report \in Range(wire) \cup dropped

(***************************************************************************)
(* The extra pass after a full chunk is harmless (console.c:146-147): the  *)
(* passes end and the task comes to irq_wait, where alone the watchdog is  *)
(* fed (timer.c:190), again and again.                                     *)
(***************************************************************************)
WatchdogFed == []<>(pc = "check" /\ ~requested)

-----------------------------------------------------------------------------
\* Steps a pass takes, and what each thing in the buffers can cost: a byte to
\* transmit one more pass, a command one to be told of, one to dispatch it and its
\* reply.
PassSteps   == 5
ReplyWork   == PassSteps + PassSteps * ReplyLen
CommandWork == PassSteps + ReplyWork

StepsLeft ==
  LET before(task, n) == IF task \in todo THEN n ELSE 0
  IN  CASE pc = "check"  -> 0
        [] pc = "tasks"  -> 1 + before("console_io_task", 2) + before("console_task", 1)
        [] pc = "io"     -> 2 + before("console_task", 1)
        [] pc = "report" -> 2 * PassSteps + 1

\* What the task has yet to do before it waits, a shutdown and its report included.
Work ==
  StepsLeft + (IF requested THEN PassSteps ELSE 0) + (IF is_shutdown THEN 0 ELSE 2 * PassSteps)
    + PassSteps * Len(transmit_buf) + ReplyWork * Len(receive_buf)
    + CommandWork * Len(driver_rx)

(***************************************************************************)
(* How soon the task comes back to irq_wait: every step it takes until then*)
(* uses up work, and only a command of the host adds some, the same for    *)
(* each.  The wakes that console.c asks for, the extra pass after a full   *)
(* chunk among them, never keep the watchdog from being fed (timer.c:190). *)
(***************************************************************************)
WorkShrinks ==
  [][IF sent' # sent THEN Work' <= Work + CommandWork
     ELSE Work' < Work \/ (pc = "check" /\ ~requested)]_vars

=============================================================================
