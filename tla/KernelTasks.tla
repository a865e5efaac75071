---------------------------- MODULE KernelTasks ----------------------------
(***************************************************************************)
(* The tasks of the kernel and the interrupts between them: the message    *)
(* loops of the main task (src/main.cpp), of the terminal                  *)
(* (src/terminal.cpp) and of the AHCI driver (src/ata/ahci.cpp), and the   *)
(* handlers of the timer, xHCI and AHCI interrupts, over the task manager  *)
(* of module Scheduler.                                                    *)
(*                                                                         *)
(* A step of a task is what it does between two points at which an         *)
(* interrupt can come in; a stretch between cli and sti is one step.  A    *)
(* handler is entered when interrupts are enabled and ends before any task *)
(* goes on.  When a timer expires is left open here (module Timers says    *)
(* when): any timer that is set may expire at any tick.                    *)
(***************************************************************************)
EXTENDS Integers, SequencesExt, Counting

CONSTANTS
  kMaxLevel, kDefaultLevel,   \* as in module Scheduler
  MaxUsbEvents,               \* bound: events the xHCI controller ever reports
  MaxDiskInterrupts           \* bound: interrupts the AHCI controller ever raises

ASSUME LevelAssumption == kMaxLevel \in Nat /\ kDefaultLevel \in 0 .. kMaxLevel
ASSUME InputAssumption == MaxUsbEvents \in Nat /\ MaxDiskInterrupts \in Nat

MainId == 1
IdleId == 2
AhciId == 3
TerminalId == 4
MaxTasks == 4
TaskIds == 1 .. MaxTasks

\* The timers tasks set: the text cursor blinks, a Wait of the AHCI task ends.
Timers == {"cursor", "wait"}
Owner == [cursor |-> MainId, wait |-> AhciId]   \* Timer::task_id_

\* Message::type; the two kinds of kTimerTimeout are told apart by their value.
MessageTypes == {"kInterruptXHCI", "kKeyPush", "kLayer", "kLayerFinish",
                 "kInterruptAHCI"} \cup Timers

VARIABLES
  latestId, level, runningFlag, running, currentLevel, levelChanged, cpu,
                 \* as in module Scheduler
  msgs,          \* Task::msgs_ of each task
  pc,            \* where each task is in its function
  iflag,         \* RFLAGS.IF of the context that executes
  handler,       \* the timer interrupt in progress: what it still has to send
  timers,        \* how many timers of each kind are set
  usbEvents,     \* events in the event ring of the xHCI controller
  usbReported,   \* events reported so far
  usbIrq,        \* the xHCI interrupt waits to be taken
  diskIrqs,      \* AHCI interrupts taken so far
  pushAt,        \* length of the main queue when a push of the observer began
  torn           \* such a push was interrupted by another and went wrong

schedVars == <<latestId, level, runningFlag, running, currentLevel,
               levelChanged, cpu>>
inputVars == <<usbEvents, usbReported, usbIrq, diskIrqs>>
raceVars == <<pushAt, torn>>
vars == <<schedVars, msgs, pc, iflag, handler, timers, inputVars, pushAt, torn>>

\* The task manager.  Its bound on messages plays no part: only WakeupTask is
\* taken from there for SendMessage.
Sched == INSTANCE Scheduler WITH Msg <- MessageTypes, MaxMsgs <- 0

NoHandler == [active |-> FALSE, due |-> {}, switch |-> FALSE]

\* Task t executes, and no interrupt handler on top of it.
Runs(t) == cpu = t /\ ~handler.active

InterruptsOn == iflag /\ ~handler.active

----------------------------------------------------------------------------
(* Messages.                                                               *)

\* Mutant: the message is queued and nobody is woken.
SendWithoutWakeup(t, m) ==
  /\ msgs' = [msgs EXCEPT ![t] = Append(@, m)]
  /\ UNCHANGED schedVars

\* TaskManager::SendMessage and Task::SendMessage.
Send(t, m) ==
  /\ msgs' = [msgs EXCEPT ![t] = Append(@, m)]
  /\ Sched!WakeupTask(t, -1)
  /\ UNCHANGED <<latestId, cpu>>

Receive(t) == msgs' = [msgs EXCEPT ![t] = Tail(@)]

GoTo(t, label) == pc' = [pc EXCEPT ![t] = label]

\* Task::Sleep of the task that executes.  Whatever task comes next enables
\* interrupts: by sti after its own Sleep, by iret, or when it starts.
SleepMyself(t) == Sched!Sleep(t) /\ iflag' = TRUE

\* cli; ReceiveMessage finds nothing; Sleep; sti: the idle branch of every loop.
SleepWithoutMessage(t) ==
  /\ Runs(t) /\ msgs[t] = << >>
  /\ SleepMyself(t)
  /\ UNCHANGED <<pc, handler, timers, inputVars, raceVars>>

----------------------------------------------------------------------------
(* The main task.                                                          *)

\* main.cpp:181-188 create and wake the tasks of the AHCI driver and the terminal.
MainCreatesTask ==
  /\ Runs(MainId) /\ pc[MainId] = "create" /\ latestId < MaxTasks
  /\ Sched!NewTask
  /\ GoTo(MainId, "wake")
  /\ UNCHANGED <<iflag, handler, timers, inputVars, raceVars>>

MainWakesTask ==
  /\ Runs(MainId) /\ pc[MainId] = "wake"
  /\ Sched!Wakeup(latestId, -1)
  /\ GoTo(MainId, IF latestId < MaxTasks THEN "create" ELSE "loop")
  /\ UNCHANGED <<iflag, handler, timers, inputVars, raceVars>>

MainSleeps == pc[MainId] = "loop" /\ SleepWithoutMessage(MainId)

\* The branch of the switch a message takes.
BranchOf(m) == CASE m = "kInterruptXHCI" -> "xhci"
                 [] m = "cursor"         -> "cursor"
                 [] m = "kKeyPush"       -> "key"
                 [] m = "kLayer"         -> "layer"
                 [] OTHER                -> "loop"

MainReceives ==
  /\ Runs(MainId) /\ pc[MainId] = "loop" /\ msgs[MainId] # << >>
  /\ Receive(MainId)
  /\ GoTo(MainId, BranchOf(Head(msgs[MainId])))
  /\ UNCHANGED <<schedVars, iflag, handler, timers, inputVars, raceVars>>

\* Mutant: one event is processed for each message.
ProcessOneEvent ==
  /\ Runs(MainId) /\ pc[MainId] = "xhci"
  /\ usbEvents' = IF usbEvents > 0 THEN usbEvents - 1 ELSE 0
  /\ GoTo(MainId, "loop")
  /\ UNCHANGED <<schedVars, msgs, iflag, handler, timers, usbReported, usbIrq,
                 diskIrqs, raceVars>>

\* usb::xhci::ProcessEvents: one round of its loop, or its end.  An event is a
\* key press, which calls the keyboard observer, or something else.
ProcessEvents ==
  /\ Runs(MainId) /\ pc[MainId] = "xhci"
  /\ \/ /\ usbEvents > 0
        /\ usbEvents' = usbEvents - 1
        /\ \E next \in {"push", "xhci"} : GoTo(MainId, next)
     \/ /\ usbEvents = 0
        /\ GoTo(MainId, "loop")
        /\ UNCHANGED usbEvents
  /\ UNCHANGED <<schedVars, msgs, iflag, handler, timers, usbReported, usbIrq,
                 diskIrqs, raceVars>>

\* The observer pushes a kKeyPush to the main task's own queue, with interrupts
\* enabled: it finds the place after the last message ...
ObserverStarts ==
  /\ Runs(MainId) /\ pc[MainId] = "push"
  /\ pushAt' = Len(msgs[MainId])
  /\ GoTo(MainId, "pushing")
  /\ UNCHANGED <<schedVars, msgs, iflag, handler, timers, inputVars, torn>>

\* What can be in the queue if handlers have pushed to it in between, depending
\* on whether the message was written before or after theirs, and on whether
\* the number of messages was read before or after.  In the latter case the
\* last place holds what happened to be in memory there.
TornQueues ==
  LET q      == msgs[MainId]
      base   == SubSeq(q, 1, pushAt)
      later  == SubSeq(q, pushAt + 1, Len(q))
      mixed  == {<<"kKeyPush">> \o Tail(later), later}
  IN  {Append(base, Head(l)) : l \in mixed}
        \cup UNION {{base \o l \o <<m>> : m \in MessageTypes} : l \in mixed}

\* ... then writes the message there and counts it.
ObserverPushes ==
  /\ Runs(MainId) /\ pc[MainId] = "pushing"
  /\ \/ /\ Send(MainId, "kKeyPush")
        /\ UNCHANGED torn
     \/ /\ Len(msgs[MainId]) > pushAt
        /\ \E q \in TornQueues : msgs' = [msgs EXCEPT ![MainId] = q]
        /\ torn' = TRUE
        /\ UNCHANGED schedVars
  /\ pushAt' = 0
  /\ GoTo(MainId, "xhci")
  /\ UNCHANGED <<iflag, handler, timers, inputVars>>

\* Mutant: the cursor timer is not set again.
CursorStops ==
  /\ Runs(MainId) /\ pc[MainId] = "cursor"
  /\ GoTo(MainId, "loop")
  /\ UNCHANGED <<schedVars, msgs, iflag, handler, timers, inputVars, raceVars>>

\* Mutant: a blink that came late is made up for by a second one.
MainBlinksTwice ==
  /\ Runs(MainId) /\ pc[MainId] = "cursor"
  /\ timers' = [timers EXCEPT !["cursor"] = @ + 2]
  /\ GoTo(MainId, "loop")
  /\ UNCHANGED <<schedVars, msgs, iflag, handler, inputVars, raceVars>>

\* The text cursor blinks: its timer is set again, half a second later.
MainBlinks ==
  /\ Runs(MainId) /\ pc[MainId] = "cursor"
  /\ timers' = [timers EXCEPT !["cursor"] = @ + 1]
  /\ GoTo(MainId, "loop")
  /\ UNCHANGED <<schedVars, msgs, iflag, handler, inputVars, raceVars>>

\* A key goes to the text window, to the terminal if its window is the active
\* one and it has entered itself in layer_task_map, or nowhere.
MainDispatchesKey ==
  /\ Runs(MainId) /\ pc[MainId] = "key"
  /\ \/ UNCHANGED <<schedVars, msgs>>
     \/ pc[TerminalId] # "start" /\ Send(TerminalId, "kKeyPush")
  /\ GoTo(MainId, "loop")
  /\ UNCHANGED <<iflag, handler, timers, inputVars, raceVars>>

\* Mutant: the terminal is not told.
MainDrawsSilently ==
  /\ Runs(MainId) /\ pc[MainId] = "layer"
  /\ GoTo(MainId, "loop")
  /\ UNCHANGED <<schedVars, msgs, iflag, handler, timers, inputVars, raceVars>>

\* The window of the terminal is drawn and the terminal told so.
MainDrawsLayer ==
  /\ Runs(MainId) /\ pc[MainId] = "layer"
  /\ Send(TerminalId, "kLayerFinish")
  /\ GoTo(MainId, "loop")
  /\ UNCHANGED <<iflag, handler, timers, inputVars, raceVars>>

MainStep == \/ MainCreatesTask \/ MainWakesTask \/ MainReceives \/ ProcessEvents
            \/ ObserverStarts \/ ObserverPushes \/ MainBlinks
            \/ MainDispatchesKey \/ MainDrawsLayer

----------------------------------------------------------------------------
(* The terminal.                                                           *)

\* It makes its window, all with interrupts disabled.
TerminalStarts ==
  /\ Runs(TerminalId) /\ pc[TerminalId] = "start"
  /\ GoTo(TerminalId, "loop")
  /\ UNCHANGED <<schedVars, msgs, iflag, handler, timers, inputVars, raceVars>>

TerminalSleeps == pc[TerminalId] = "loop" /\ SleepWithoutMessage(TerminalId)

\* A key changes the text; the main task is asked to draw the area.  Interrupts
\* are disabled from the cli before ReceiveMessage to the sti after SendMessage.
TerminalTakesKey ==
  /\ Runs(TerminalId) /\ pc[TerminalId] = "loop" /\ msgs[TerminalId] # << >>
  /\ Head(msgs[TerminalId]) = "kKeyPush"
  /\ msgs' = [msgs EXCEPT ![TerminalId] = Tail(@), ![MainId] = Append(@, "kLayer")]
  /\ Sched!WakeupTask(MainId, -1)
  /\ iflag' = TRUE
  /\ UNCHANGED <<latestId, cpu, pc, handler, timers, inputVars, raceVars>>

\* Any other message is dropped, and the loop goes on without an sti.
TerminalDropsMessage ==
  /\ Runs(TerminalId) /\ pc[TerminalId] = "loop" /\ msgs[TerminalId] # << >>
  /\ Head(msgs[TerminalId]) # "kKeyPush"
  /\ Receive(TerminalId)
  /\ iflag' = FALSE
  /\ UNCHANGED <<schedVars, pc, handler, timers, inputVars, raceVars>>

TerminalStep == TerminalStarts \/ TerminalSleeps \/ TerminalTakesKey
                \/ TerminalDropsMessage

----------------------------------------------------------------------------
(* The AHCI task.                                                          *)

\* AHCIController::Initialize calls Wait for some of the ports it sets up: the
\* timer is set with interrupts disabled, which are then enabled again.
WaitSetsTimer ==
  /\ Runs(AhciId) /\ pc[AhciId] = "initialize"
  /\ timers' = [timers EXCEPT !["wait"] = @ + 1]
  /\ GoTo(AhciId, "waitSleep")
  /\ UNCHANGED <<schedVars, msgs, iflag, handler, inputVars, raceVars>>

\* Mutant: Wait goes on to receive without sleeping first.
WaitPolls ==
  /\ Runs(AhciId) /\ pc[AhciId] = "waitSleep"
  /\ GoTo(AhciId, "waitReceive")
  /\ UNCHANGED <<schedVars, msgs, iflag, handler, timers, inputVars, raceVars>>

\* Wait: Sleep, which returns when a message has woken the task.
WaitSleeps ==
  /\ Runs(AhciId) /\ pc[AhciId] = "waitSleep"
  /\ SleepMyself(AhciId)
  /\ GoTo(AhciId, "waitReceive")
  /\ UNCHANGED <<handler, timers, inputVars, raceVars>>

\* Wait: the message is read without a test that there is one.
WaitReceives ==
  /\ Runs(AhciId) /\ pc[AhciId] = "waitReceive" /\ msgs[AhciId] # << >>
  /\ Receive(AhciId)
  /\ GoTo(AhciId, IF Head(msgs[AhciId]) = "wait" THEN "initialize" ELSE "waitSleep")
  /\ UNCHANGED <<schedVars, iflag, handler, timers, inputVars, raceVars>>

\* The last port is set up; the controller may interrupt from now on.
AhciInitialized ==
  /\ Runs(AhciId) /\ pc[AhciId] = "initialize"
  /\ GoTo(AhciId, "loop")
  /\ UNCHANGED <<schedVars, msgs, iflag, handler, timers, inputVars, raceVars>>

AhciSleeps == pc[AhciId] = "loop" /\ SleepWithoutMessage(AhciId)

\* kInterruptAHCI is handled by InterruptMessage, anything else logged.
AhciReceives ==
  /\ Runs(AhciId) /\ pc[AhciId] = "loop" /\ msgs[AhciId] # << >>
  /\ Receive(AhciId)
  /\ UNCHANGED <<schedVars, pc, iflag, handler, timers, inputVars, raceVars>>

AhciStep == WaitSetsTimer \/ WaitSleeps \/ WaitReceives \/ AhciInitialized
            \/ AhciSleeps \/ AhciReceives

----------------------------------------------------------------------------
(* The devices and their interrupt handlers.                               *)

\* The xHCI controller puts an event into its event ring and asks to interrupt.
UsbReports ==
  /\ usbReported < MaxUsbEvents
  /\ usbReported' = usbReported + 1
  /\ usbEvents' = usbEvents + 1
  /\ usbIrq' = TRUE
  /\ UNCHANGED <<schedVars, msgs, pc, iflag, handler, timers, diskIrqs, raceVars>>

XhciInterrupt ==
  /\ InterruptsOn /\ usbIrq
  /\ usbIrq' = FALSE
  /\ Send(MainId, "kInterruptXHCI")
  /\ UNCHANGED <<pc, iflag, handler, timers, usbEvents, usbReported, diskIrqs,
                 raceVars>>

AhciInterrupt ==
  /\ InterruptsOn /\ pc[AhciId] = "loop" /\ diskIrqs < MaxDiskInterrupts
  /\ diskIrqs' = diskIrqs + 1
  /\ Send(AhciId, "kInterruptAHCI")
  /\ UNCHANGED <<pc, iflag, handler, timers, usbEvents, usbReported, usbIrq,
                 raceVars>>

\* TimerOnInterrupt begins: a tick at which the timers in due expire, and the
\* task timer too if switch.
TimerTick(due, switch) ==
  /\ InterruptsOn
  /\ due # {} \/ switch
  /\ \A x \in due : timers[x] > 0
  /\ timers' = [x \in Timers |-> IF x \in due THEN timers[x] - 1 ELSE timers[x]]
  /\ handler' = [active |-> TRUE, due |-> due, switch |-> switch]
  /\ UNCHANGED <<schedVars, msgs, pc, iflag, inputVars, raceVars>>

\* TimerManager::Tick sends kTimerTimeout to the owner of a timer.
TimerSends(x) ==
  /\ handler.active /\ x \in handler.due
  /\ Send(Owner[x], x)
  /\ handler' = [handler EXCEPT !.due = @ \ {x}]
  /\ UNCHANGED <<pc, iflag, timers, inputVars, raceVars>>

\* The handler ends, with a switch to the next task if the task timer expired.
TimerEnds ==
  /\ handler.active /\ handler.due = {}
  /\ IF handler.switch THEN Sched!SwitchTask ELSE UNCHANGED schedVars
  /\ handler' = NoHandler
  /\ UNCHANGED <<msgs, pc, iflag, timers, inputVars, raceVars>>

----------------------------------------------------------------------------
\* InitializeTask has returned: the main task runs, the cursor timer is set.
Init ==
  /\ Sched!Init
  /\ pc = [t \in TaskIds |-> CASE t = MainId     -> "create"
                               [] t = TerminalId -> "start"
                               [] t = AhciId     -> "initialize"
                               [] OTHER          -> "hlt"]
  /\ iflag = TRUE
  /\ handler = NoHandler
  /\ timers = [cursor |-> 1, wait |-> 0]
  /\ usbEvents = 0 /\ usbReported = 0 /\ usbIrq = FALSE
  /\ diskIrqs = 0
  /\ pushAt = 0 /\ torn = FALSE

Next ==
  \/ MainStep \/ MainSleeps \/ TerminalStep \/ AhciStep
  \/ UsbReports \/ XhciInterrupt \/ AhciInterrupt
  \/ \E due \in SUBSET Timers, switch \in BOOLEAN : TimerTick(due, switch)
  \/ \E x \in Timers : TimerSends(x)
  \/ TimerEnds

\* A task that gets the processor again and again gets on, whatever interrupts
\* it; a handler runs to its end; the timer ticks, so that a timer that is set
\* and the task timer expire.  The main task, whose only regular work is the
\* cursor every half a second, comes to sleep if it is about to again and again.
Fairness ==
  /\ SF_vars(MainStep) /\ SF_vars(MainSleeps)
  /\ SF_vars(TerminalStep) /\ SF_vars(AhciStep)
  /\ WF_vars(TimerEnds)
  /\ \A x \in Timers :
       /\ WF_vars(TimerSends(x))
       /\ SF_vars(\E due \in SUBSET Timers, switch \in BOOLEAN :
                    x \in due /\ TimerTick(due, switch))
  /\ SF_vars(\E due \in SUBSET Timers : TimerTick(due, TRUE))
  /\ SF_vars(XhciInterrupt)

Spec == Init /\ [][Next]_vars /\ Fairness

----------------------------------------------------------------------------
(* What must hold.                                                         *)

TypeOK ==
  /\ Sched!TypeOK
  /\ msgs \in [TaskIds -> Seq(MessageTypes)]
  /\ pc \in [TaskIds -> {"create", "wake", "loop", "xhci", "push", "pushing", "cursor",
                         "key", "layer", "start", "initialize", "waitSleep",
                         "waitReceive", "hlt"}]
  /\ iflag \in BOOLEAN
  /\ handler \in [active : BOOLEAN, due : SUBSET Timers, switch : BOOLEAN]
  /\ timers \in [Timers -> Nat]
  /\ usbEvents \in 0 .. usbReported /\ usbReported \in 0 .. MaxUsbEvents
  /\ usbIrq \in BOOLEAN /\ diskIrqs \in 0 .. MaxDiskInterrupts
  /\ pushAt \in Nat /\ torn \in BOOLEAN

\* No lost wakeup: a task that sleeps in its message loop has no message.  (The
\* loops look at the queue and go to sleep with interrupts disabled.)  The types are
\* checked with it.
NoLostWakeup ==
  /\ TypeOK
  /\ \A t \in {MainId, TerminalId, AhciId} :
       pc[t] = "loop" /\ ~runningFlag[t] => msgs[t] = << >>

\* The cursor timer is set, or has expired and its message is on the way, or is
\* about to be set again: exactly one of these, as long as no push was torn.
CursorTimerOnce ==
  ~torn => timers["cursor"]
           + (IF "cursor" \in handler.due THEN 1 ELSE 0)
           + CountIn(msgs[MainId], {"cursor"})
           + (IF pc[MainId] = "cursor" THEN 1 ELSE 0) = 1

\* Wait reads a message without testing that there is one: when Sleep has
\* returned to it, there is.
WaitFindsMessage ==
  cpu = AhciId /\ pc[AhciId] = "waitReceive" => msgs[AhciId] # << >>

\* An event in the event ring is announced to the main task: by an interrupt to
\* come, by a message in the queue, or by the loop that is taking events out.
\* Not even a torn push may lose it.
NoUsbEventForgotten ==
  usbEvents > 0 => \/ usbIrq
                   \/ "kInterruptXHCI" \in ToSet(msgs[MainId])
                   \/ pc[MainId] \in {"xhci", "push", "pushing"}

\* The terminal is told for each key it got that its window has been drawn.
KeysAreAnswered ==
  "kKeyPush" \in ToSet(msgs[TerminalId]) ~> "kLayerFinish" \in ToSet(msgs[TerminalId])

\* The text cursor goes on blinking, if no push is ever torn.
CursorBlinks == []<>(pc[MainId] = "cursor") \/ <>torn

\* Wait comes to an end (ahci.cpp:129-148: it sets a timer, sleeps, and goes on
\* sleeping until the kTimerTimeout message).
WaitEnds == pc[AhciId] = "waitReceive" ~> pc[AhciId] # "waitReceive"

============================================================================
