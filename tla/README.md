# Formal models of midaos

midaos is a small x86-64 kernel for one processor: it is booted by a UEFI loader, sets up the
hardware, and then runs tasks with priorities that talk to each other, and hear of interrupts, by
messages. This directory holds TLA+ models of its logic, the configurations TLC checks them with,
and TLAPS proofs about them.

    tlc -config MCScheduler.cfg MCScheduler     # a run
    tlapm SchedulerProofs.tla                   # proofs

`PROJECT.json` maps every definition to the lines it models and lists runs, mutants, findings,
hazards and theorems.

## 1. The system

| Component (src/) | State | Operations | Who calls it, what is hard |
|---|---|---|---|
| Task manager: `task.*`, `asmfunc.asm` | tasks (level, running flag, message queue), a run queue per level, current level, `level_changed_` | NewTask, SwitchTask, Sleep, Wakeup, SendMessage, ReceiveMessage, change of level | Every task and every interrupt handler. The queues, the flags and the current level are redundant and must agree. |
| Timer manager: `timer.*` | tick, priority queue of timers | Tick, AddTimer | The timer interrupt; tasks that set timers. Late tasks, timers already due, the timer that must set itself again. |
| Message loops and handlers: `main.cpp`, `terminal.cpp`, `ata/ahci.cpp`, `keyboard.cpp`, `interrupt/interrupt.cpp` | where each task is, what waits in its queue, the interrupt flag | one iteration of each loop, Wait, the keyboard observer, the handlers | Interrupts come in between any two steps with interrupts enabled: lost wakeups, forgotten events, torn queues. |
| AHCI driver: `ata/*` | GHC, IS and the ports' registers, two levels of interrupt queues, commands waiting for completion | the set-up of controller and ports, IDENTIFY, the handler, the emptying of the queues | Registers change while set-up and handler run; the queues are emptied with interrupts enabled; disks share a buffer. |
| xHCI driver: `usb/xhci/*` | the controller's registers, phase of each port, the port being addressed, slots | start of the controller, ResetPort, EnableSlot, AddressDevice, ..., one handler per event | Asynchronous protocol with firmware, controller and devices: order of events, unplugging, failed commands, slots running out. |
| xHCI rings: `usb/xhci/ring.*`, `device.cpp`, `usb/arraymap.hpp` | command, transfer and event rings with cycle bits, the maps from a completion to its transfer | Push, Pop, ControlIn/Out, NormalIn/Out, OnTransferEventReceived | Driver and controller use a ring at the same time and neither is told where the other is. |
| USB devices and class drivers: `usb/device.cpp`, `usb/classdriver/*`, `usb/memory.*` | phase of each device and class driver, the last report, the memory pool | the set-up of a device, its reports, AllocMem | Phases that go on only by completions; what was held down in the last report; a pool that is never given back. |
| Frame allocator and heap: `memory_manager.*`, `newlib_support.c` | bitmap of frames, range, program break | set-up from the memory map, Allocate, Free, sbrk | Memory maps in any order and with gaps; ends of the search. |
| Layers and windows: `layer.*`, `window.*`, `mouse.cpp` | stack of layers, active layer, dragged layer | Draw, Move, UpDown, Activate, FindLayerByPosition, mouse events | Index arithmetic in the stack; tasks of two levels, and an interrupt handler, drawing in the middle of each other's drawing. |
| Terminal, console: `terminal.*`, `console.*` | line buffer, cursor, history | keys, scrolling | Edges of the line and of the history. |
| PCI: `pci/*` | list of devices | scan, FindDevice, base addresses, capabilities, MSI | Sequential; which functions are looked at depends on other functions. |
| Boot: `main.cpp`, `acpi/*`, `apic/apictimer.cpp` | ACPI tables, power management timer, local APIC timer | set-up in order, the wait, the calibration | A timer that wraps; everything that can be missing. |
| I/O APIC, paging, segments, serial port, fonts | registers, tables | set-up | Sequential, once. |

**How they interact.** A hardware interrupt runs a handler with interrupts disabled. The handler
sends a message (`TaskManager::SendMessage`), which puts the receiver into a run queue. The timer
interrupt also ticks the timer manager, which sends `kTimerTimeout` messages and, every
`kTaskTimerPeriod` ticks, calls `SwitchTask`. The main task (level 3) takes xHCI messages to
`usb::xhci::ProcessEvents`, which runs the port and device state machines and ends in the keyboard
and mouse observers; the keyboard observer sends a message to the main task itself, which sends it
on to the terminal (level 1), which asks the main task to draw its window and is told when that is
done. The AHCI task (level 1) sets the disks up and completes their commands. Whoever logs draws the console,
the AHCI task and the AHCI handler too. Before all that the main task
boots: memory, PCI, ACPI, timer, xHCI controller, and only then its message loop.

**What makes each component correct**, in a sentence:

- task manager: the redundant pieces of state agree, and the processor always goes to a ready task of
  the highest level, in turn;
- timers: every timer expires once and on time, none is left behind in the queue, and the periodic ones never die;
- message loops: no message, timeout or USB event is lost or left to a task that sleeps;
- AHCI: a port is set up while it stands still and gets a command only when it runs, and a disk's answer
  reaches the command it completes;
- xHCI start: the controller is not reset while it runs, not written to while it is not ready, and runs only
  with everything it needs;
- rings: what is pushed is taken once, in order and whole, and a completion finds its own transfer;
- class drivers: a key that is pressed is told once;
- boot: it ends in a running system or in exit for a reason, and the ticks have the length they should have;
- pool: areas are apart, aligned and within their boundary;
- USB: one port at a time has the default address, ports and slots belong together, and every device is
  configured in the end;
- frames: only available memory is handed out, once, and the search misses nothing;
- layers: every cell of the screen shows the highest layer that is there, the mouse stays on top with the
  active window directly below it;
- terminal: the row of the cursor shows the line that Enter would execute, and what has changed is drawn.

## 2. The modules

| Module | Models | Abstracted |
|---|---|---|
| `Scheduler` | `TaskManager` and `Task`, one action per operation | register contents |
| `PriorityScheduler` | what the task manager promises: a ready set and levels, no queues | order within a level |
| `KernelTasks` | the loops and handlers over `Scheduler` (INSTANCE), a step being what runs between two points where an interrupt can come in | when a timer expires (that is `Timers`), contents of messages |
| `Timers` | `TimerManager` and its clients | the heap inside `std::priority_queue` |
| `AhciStart` | the set-up of the AHCI controller and its ports up to the first command, with devices that come up meanwhile | timing of the resets |
| `AhciInterrupts` | IS, PxIS, the handler, its queues, the task that empties them, completions | frame information structures |
| `AhciCommand` | the free slot, the physical region descriptors of a command, the length of its table | the other fields of header and table |
| `UsbPorts` | port phases, slots, devices, HID driver, with controller, devices and users as environment | rings, descriptors, contexts |
| `Rings` | one ring of TRBs and the event ring, as functions of their records | the other fields of a TRB |
| `RingQueue` | the rings under every use that keeps within their room | |
| `TrbQueue` | what a ring promises: a queue | |
| `UsbTransfers` | control and interrupt transfers of a keyboard over `Rings`: its set-up phases, both maps, its reports | bytes of descriptors and reports |
| `UsbMemory` | `AllocMem` | contents |
| `Pci` | functions, `FindDevice`, base addresses, capabilities, `ConfigureMSI` | the pair of I/O ports |
| `PciScan` | `ScanAllBus` | |
| `Acpi` | validity of the tables, the search for FADT and MADT | addresses |
| `XhcStart` | the start of the xHCI controller, register by register, over `Pci` and `UsbMemory`, with controller and firmware | time limits of the hardware |
| `Boot` | the whole boot: `Frames`, `Acpi`, `XhcStart` and the calibration of the timer | I/O APIC, graphics |
| `Frames` | bitmap, set-up from the memory map, heap, search frame by frame | bits in words: the bitmap is the set of frames whose bit is set |
| `Layers` | stack of layers, drawing through the back buffer, active layer, mouse, with the main loop, the terminal and the logging of the AHCI task and the AHCI handler as its clients | one dimension of the screen, pixels; the contents of a window are either the present ones or old |
| `Terminal` | `InputKey`, `Print`, `ExecuteLine`, history, cells of the window, the area to be drawn | pixels; what a command prints is one of a set of outputs |
| `Counting` | how many elements of a queue are of a kind, for invariants | |
| `QueueLemmas`, `SchedulerProofs`, `KernelProofs` (with `Timers`), `AhciProofs`, `UsbProofs` (`UsbPorts`, `UsbTransfers`), `BootProofs`, `RingProofs`, `ScreenProofs` (`Layers`, `Terminal`) | proofs | |

How state and actions correspond to the code:

- **Scheduler.** `running`, `currentLevel`, `levelChanged` are `running_`, `current_level_`,
  `level_changed_`; `level`, `runningFlag`, `msgs` are the members of each `Task`; `cpu` is the task
  whose registers the processor holds, which the code has only implicitly. `SwitchTo` is the private
  part of `SwitchTask`, `Erase` is `std::remove` + `erase`. Because all
  callers run with interrupts disabled, an operation is one step; the exceptions are named below.
- **KernelTasks.** `pc` says where each task is; a stretch between `cli` and `sti` is one action, and a
  label stands between any two places where an interrupt may come in. `handler` is the timer handler in
  progress. The keyboard observer pushes to the main queue with interrupts enabled (`keyboard.cpp:66`):
  `ObserverStarts` and `ObserverPushes` are the two halves of that push, and if another push came in
  between, `TornQueues` gives the outcomes the code can produce.
- **Timers.** `Tick`, with the handler, is `TimerOnInterrupt`. `Before` is the turned-around `operator<`: a timer may
  be on top only if it is before all others, and the loop of `Tick` ends at the first on top that is not due (`Due`); equal
  timeouts leave the priority queue in any order (`PopOrders`). `timerQueue` is the queue `timers_`. `Blink` is the handler of the cursor message in the main loop. `sent`, `blinks`,
  `lastSwitch` and the fields `id` and `at` are history.
- **AhciStart.** `task.step` is where the task is in `AHCIController::Initialize`, `task.port` which turn of a loop
  over `port_`. One action per stretch between two waits; the waits of `Wait` themselves are taken to end (run
  `kernel_wait` shows that they need not). PxCMD.CR is not a variable of its own: a port runs when ST is set.
  `Connects` is a device that comes up, `dirty` a command table in frames that held something before: they are not
  cleared, and the upper half of the buffer's address stays what it was if the driver takes the controller for a
  32-bit one (`ahci.cpp:77` reads S64A while `ghc` is not yet set; what it finds there is left open).
- **AhciInterrupts.** `isr` is where the handler is: it reads PxIS bit by bit, clears connection changes through
  PxSERR, writes the rest back at the end and enables the controller's interrupts again; the disks go on meanwhile.
  `task` is where the loops that empty the queues are. `port_` is packed and indexed by port number, as in the code;
  behind its end the task is `undefined`. `dev_info_temp` is the one static buffer all disks are identified through.
- **UsbPorts.** `phase` and `addressing` are `port_config_phase` and `addressing_port`; one action per event
  of `ProcessEvent`, which ends in the function the event handler calls (`ResetPort`, `EnableSlot`,
  `AddressDevice`, ...). Commands and events are queues. Device 0 exists because `AllocDevice(0)` is
  possible when there are no slots left.
- **Rings.** A ring has each TRB in two halves, of which the second brings the cycle bit (`low`, `high`, `bit`);
  `step` is how far a push has come, `write` and `cycle` are the driver's, `deq` and `ccs` the controller's. Neither
  reads the other's. `seen` is history: what was taken last.
- **UsbTransfers.** `todo` is what the driver has yet to do for the event it handles, so that the controller can act
  between any two TRBs and doorbells. `setupMap` and `dev.waiters` are the two `ArrayMap`s, which drop what does not
  fit. `dev.init` and `hid.init` are `initialize_phase_`. An event holds the place of a TRB and not the TRB; the
  driver reads memory again. `ConfiguresDriver` is one turn of the loop of `Device::OnEndpointsConfigured`, which
  sends one transfer for each endpoint number before any is answered. `keyboard` is the environment and (`pressed`, `told`) history.
- **Frames.** One action per turn of a loop: `ReadDescriptor` is one turn of the loop over the memory map,
  `FrameTaken`, `FrameFree`, `NoEnoughMemory` and `Found` are the ways a turn of the search can go.
- **Boot**, **XhcStart.** `at` is the main task's place in the code. `xhc` are the controller's registers; `disturbed`
  remembers that it was reset while it ran or written to while it was not ready. `machine` is what stands in the PCI
  configuration space, in the ACPI tables and in the controller's capabilities. `timer` and `current_count` are the two
  hardware timers, which go on at every read.
- **Layers.** `desk` holds what the layer manager, the windows and the buffers hold. The main task draws with
  interrupts enabled, and the AHCI handler draws too: what it queues it logs (`ata/port.hpp:46`) at a level that is
  shown (`logger.cpp:32-36`), and `Console::PutString` ends in `Draw` (`console.cpp:24`). So each call is split where
  the handler can come in with a different effect. A `Draw` goes on layer by layer (`draw`, `DrawsOne`) and copies at
  the end (`CopiesArea`); `stage` and `job` are where the main task is between the calls of `Move` (`BeginMove`,
  `Moved`), `MoveRelative` (`Drags`) and `Activate` (`Deactivates`, `Activates`, `Erases`, `Inserts`: the handler may
  find the layer erased and not yet inserted). `HandlerLogs` may come between any two of these steps; it is one step, as
  nothing interrupts it. The start of the terminal runs through the same steps with interrupts disabled, from
  `TerminalStarts` to `TerminalReady`, so `HandlerLogs` is not enabled there. Before the AHCI task has set the controller
  up there are no such interrupts, and it starts after the main task has come to its loop, so the start of the layers is not
  interrupted. The keyboard handler logs as well, but no entry of the I/O APIC leads to it. `LoopTop` is the drawing of the
  main window at the head of the main loop. The AHCI task logs at a lower level: `LogStarts`, `LogDraws` and
  `LogCopies` are the iterations of `LayerManager::Draw` in it, between which the main task, the terminal and the handler
  may draw, and the iterator becomes an index (the vector, of capacity eight, is not reallocated when the sixth layer comes).
  The drawing of one layer and the copying to the screen are taken as one step each: cell by cell, what the handler draws
  is drawn before or after the task's writing of that cell. The handler finds the vector before or after an `erase` or `insert`
  and not in the middle of one, and what two `PutString`s that interrupt each other do to the text of the console is left out.
  `raced` and `mouseSeen` are history. There is a mouse: the model begins after `InitializeMouse`.
- **Terminal.** `window` is the cursor and what stands in each cell, with one column more than `kColumns`, which
  only the cursor reaches; `Printing` and `Writing` are the loops of `Print` and `WriteString`, turn by turn; `linebuf` is `linebuf_` up to `linebuf_index_`. `dirty` is what has been
  written and not been part of an area `InputKey` has returned. `erased` is history.

## 3. The runs

| Run | Instance | Shows |
|---|---|---|
| `scheduler` | 3 levels, 4 tasks, 1 message | agreement of queues and flags, the task on the processor, order, refinement of `PriorityScheduler`, every top task runs |
| `kernel_tasks` | the four tasks, 2 USB events, 1 disk interrupt | no lost wakeup, one cursor timer, `Wait` never reads an empty queue, no USB event forgotten |
| `kernel_liveness` | 1 USB event, 1 disk interrupt | keys are answered, the cursor goes on |
| `kernel_wait` (violation) | no input | `Wait` need not end |
| `timers` | slice 2, cursor 3, 7 ticks, 6 timers | once and on time, with nothing that is due left in the queue; slices of one length; the cursor's phase |
| `ahci` | 5 controllers of 2 or 3 ports | ports are set up standing still, commands wait for completions, queues agree, disks are identified but for the cases named |
| `usb_ports` | 3 ports, 2 slots, 1 supported device, 1 unplug, 1 failure | one port at a time, it moves on, slots and ports, one report, every device configured |
| `usb_unplug` (violation) | 3 ports, 1 unplug | a waiting port is forgotten |
| `usb_transfers` | rings of 6 TRBs, 3 events, maps of 2 and 4, 2 keys, 3 changes, 1 failure | rings are queues, completions find their transfers, a key is told once, and in the end |
| `boot` | 10 frames, 5 memory maps, 5 machines | frames and pool memory are apart, the search is complete, the controller is programmed, ticks are right, the boot ends |
| `layers` | 5 cells, 6 layers that overlap, 3 mouse interrupts, 1 key on its way, 1 line logged by the AHCI task, any number by the handler | the screen shows the stack, wherever the handler draws in between; the active layer is below the mouse |
| `terminal` | 3 rows of 4 columns, 2 lines of history, 4 outputs, one of which scrolls twice | the row shows the line; the echo is complete |

**Why the bounds are enough.** Three levels give a lowest, a middle and a highest one, and four tasks put
two clients beside the main and the idle task, so that a task leaves the middle of a queue, the end, or
empties its level while another level fills. Two USB events are one in the ring while another is
reported; one disk interrupt wakes the AHCI task while its timer is set. Seven ticks hold two blinks
of the cursor and three time slices, and six timers leave three beyond the ones that are always there, so
that several expire at one tick. The controllers of `ahci` have two disks with an empty port between, a disk beside
another device, a gap with the only disk below, at or above it (so that an index is another port's or behind the
end), staggered spin-up, a single slot, and port multipliers with and without another mode than AHCI. Three ports
and two slots let one port be addressed while two wait and let the slots run out; two endpoints are the
smallest number at which the class driver is told twice. Six TRBs are as few as the longest burst of the set-up needs
(the control ring begins anew twice, the interrupt ring for ever); three events make the event ring wrap, too; with
one key a report, the second key is the roll-over. The boot has ten frames for a gap, reserved descriptors and two
blocks; its timers count to 32, so that the wait of 10 with reads up to 2 apart begins, ends and is missed on either
side of the overflow. The machines have the xHC on bus 0, behind a bridge on the bus of a second host bridge, and as
a function the kernel does not find; no, 2, 31 and 33 scratchpad buffers (with 31 the last has no
page, with 33 the command ring has no room either); a pool that begins at 64, or just below a page; and tables that
are valid, invalid, or doubled. `kMemoryPoolSize`, the sizes of rings and devices and `kDeviceSize` are the code's.
Three mouse interrupts press on a window, drag it and release it, or press on it, release it and press on
another one; the handler draws as often as it likes, since a second drawing in the same place changes nothing more. On five cells each window is partly covered by another and by the edge of the screen. Three rows let the prompt be
in a first, a middle and the last row, and four columns let a line be empty, in between and full; a second entry in
the history is what `pop_back` must not touch. All bounds are CONSTANTS.

**Fairness.** `Scheduler`: weak fairness of `SwitchTask`, because the task timer sets itself again at each
expiry (`timer.cpp:38`, theorem `TimeSliceAlwaysEnds`). `KernelTasks`: a task that gets the processor again and
again gets on (strong, as interrupts disable its steps in between); handlers run to their end; the timer ticks;
a USB interrupt that waits is taken. `AhciStart`: the task gets the processor again and again (strong, as the
handler disables its steps), the handler is entered and runs, the reset completes, disks answer; no device has to
come up in time. `UsbPorts`: the main task comes to every event (shown by
`NoUsbEventForgotten`), the controller executes commands and completes control transfers; nobody has to
plug or press anything. `UsbTransfers`: the main task comes to every event, the controller goes on at each endpoint,
a keyboard that has been asked reports a change. `Boot`: the main task runs, the firmware yields and the controller
halts, resets and gets ready when asked; and (strong) a read of the power management timer falls at last between
the end of the wait and the overflow, which an end just below the overflow would otherwise escape for ever. `Timers`,
`Layers` and `Terminal` have no fairness and no liveness property (that a key is echoed in the end is `KeysAreAnswered`).

**Deadlock** is checked in the scheduler and kernel runs, where the timer always ticks, and in `layers` and
`terminal`, where a cursor blinks or a key can be pressed. It is not checked where
the system or the model may stop: `Timers` stops at `MaxTick`, `AhciStart` when the disks have answered or a wait for a
register never ends, `UsbPorts` and `UsbTransfers` when there is nothing to do and their bounds are used up, `Boot`
when the kernel exits.

**Liveness conditions.** `KeysAreAnswered` is unconditional; `CursorBlinks` excepts a torn push.
`DisksIdentified` excepts races (a report while registers are cleared, `port.cpp:262`, or while the queues are
emptied, `ahci.cpp:126`), ports whose index is not their number, dirty command tables, and with several disks the
identity of another one. `KeysAreTold` excepts failed transfers, a roll-over and devices without a known interface.
`XhcRuns` names the reasons for an exit and the machines without a controller that can be found.
`EveryDeviceConfigured` excepts unplugging, failing devices and
slots that have run out.

**Exceptions in the properties** name what the code really does, and TLC violates the property without each.
`ScreenShowsLayers` excepts the mouse until it is first moved (`mouse.cpp:102-103` draws it before it is in the
stack), what the terminal has asked for and the main task has not drawn yet, and the area of the console during
a drawing by the AHCI task or after the stack has changed under one: `layer.cpp:80` then passes over a layer,
whose window is overwritten by what lies below it until it is drawn again. `ActiveOnTop` lets one window be above
the terminal when it starts. `PromptThenLine` and `EchoComplete` except lines whose prompt was erased
(`terminal.cpp:72` looks at the column and not at the line): `HistoryUpDown` then redraws from column 1 and leaves
a stale cursor in column 0, and a line one longer than fits puts the cursor behind the last column when it is
recalled.

## 4. Where code and comments disagree

1. **`Wait` need not end** (`ata/ahci.cpp:129-148`, run `kernel_wait`). It sets a timer, enables interrupts and
   then sleeps. If the task loses the processor between `sti` and `Sleep` until the timer has expired, its
   message comes while it is still running, and nobody wakes it after `Sleep`.
2. **A port that waits to be addressed can be forgotten** (`usb/xhci/xhci.cpp:260-268`, run `usb_unplug`). After
   a port is addressed only the first waiting port is tried; if its device is gone, `ResetPort` does nothing
   and the others keep waiting although no port is being addressed.

Beside these, the models show behaviour of which no comment or test says that it is otherwise, so that there is no
claim to refute. It stands as an exception in the property named:

- AHCI handler and set-up wait for PxIS and IS to become clear (`ata/port.cpp:263`, `ata/ahci.cpp:88`, `113-114`),
  which only they themselves clear: a report in between keeps them there for ever (`DisksIdentified`, race);
- all disks share one IDENTIFY buffer (`ata/SATAController.cpp:51`), `port_` is indexed by port number
  (`ata/ahci.cpp:123`), command tables are not cleared (`DisksIdentified`);
- SPM is tested where SAM is meant, so that AHCI mode may stay off (`ata/ahci.cpp:70`, `AhciIsProgrammed`);
- the functions 1 to 7 of a device are looked for when it has a single function, and not when it has several
  (`pci/pci.cpp:36`, `XhcRuns`: the controller of the hidden machine is not found);
- with 31 scratchpad buffers the last one is the null pointer and the boot goes on (`usb/xhci/xhci.cpp:383-388`);
- after a report with too many keys, keys still held are told again (`EachPressToldOnce`).

## 5. The proofs

All proofs hold for every value of the constants that satisfies the named assumptions. Each component has an inductive
invariant, whose parts are named below.

**Scheduler** (`LevelAssumption`, `BoundAssumption`). The inductive invariant `IInv` is `TypeOK`,
`QueuesMatchFlags`, `CurrentIsOnCpu`, `HigherLevelIsNoticed` and `IdleIsReady`. None is inductive alone:
that the front of the current queue is the task on the processor needs the queues to hold each task once,
`SwitchTo` finds a queue that is not empty only because the idle task is always in one, and that no higher
level goes unnoticed rests on the flag and the queues agreeing. `QueueLemmas` states what `Append`, a push to the front and
`Tail` do to membership, order and injectivity, and to the number of elements of a kind; what `Erase` does is in
`SchedulerProofs`. From `IInv` follow the action properties `SwitchRespectsLevels` and `WaitingKeepsOrder`, and the
refinement `SchedulerImplementsPromise`: each action is a `Reschedule`, `Block` or `Ready` of `PriorityScheduler`, or
changes nothing there. `WaitingKeepsOrder` rests on two facts. Of two tasks only one is in front of the other, because no
task is in two queues or twice in one (`OneIsAhead`); and a step other than a switch at most puts one task into a queue it
was not in (`OrderKept`, with the `AheadAfter...` lemmas). In a switch the task that is queued again falls behind the rest
of its queue, and then the processor goes to another task.

**KernelTasks** (`LevelAssumption`, `InputAssumption`). `KernelProofs` instantiates `SchedulerProofs`, so that each operation
of the task manager keeps `IInv`, whichever loop or handler calls it. `KernelInv` adds the four invariants of the run and
three parts: `CreationState` (a task that is not started yet has not run and nobody sends it anything), `HandlerState` and
`WaitState` (a message that wakes the AHCI task from `Wait` is in its queue). `NoLostWakeup` holds because a task that finds
its queue empty goes to sleep in the same step, with interrupts disabled, and whoever sends wakes. `WaitFindsMessage`
needs `WaitState`: only a message wakes that task. `NoUsbEventForgotten` holds even after a torn push.

**Timers** (`PeriodAssumption`, `TimerBoundAssumption`; the second part of `KernelProofs`). `TimerInv` adds to the invariants that the queue is
finite (so that the order in which timers leave it exists), that timers were added in the past, that the tick stays within
its bound and that the bottom timer is never due. `ExpiresOnTime` follows because a timer in the queue was
either added at the present tick or is not yet due (`NothingOverdue`, which is a part of
the property), and this in turn because the loop of `Tick`, which looks at the top of the queue only, takes out all that are
due (`DueFacts`): that is where the order of `operator<` is needed. `ExpiresOnce` is about the numbers of timers: each that has been given out is that of
one timer, either in the queue or expired (`OnceInv`); one call of `Tick` moves all that are due from the one to the other.
`CursorKeepsTime` follows from `CursorInv`: the cursor has one timer or one message that waits, and its timeout is the next
multiple of half a second that has not been handled, however late the main task is, because the next timeout is counted
from the last one and not from the tick.

**UsbPorts** (`UsbAssumption`). `UsbInv` says which phases a port can be in when it is the one that is being addressed and
when it is not (`OnePort`), what the controller reports of it (`PortState`), how many commands and completions are on
their way in each phase (`InFlightState`), and what a slot's device, its port and its class driver have to do with each other
(`EnableState`, `AddressState`, `DeviceState`, `OneSlotEach`, `TransferState`, `ReportState`). A completion names a slot
and no port; that it is taken for the right one is what `EnableState` and `AddressState` are needed for.
`AddressedPortMoves` and `OneReport` count what is in the two rings with the operators of `Counting`.

**AHCI** (`ControllersAssumption`). `AhciInv` is about every controller, with any ports implemented and any device at each.
`TaskPlace` keeps the loops within their vectors, `Quiet` says that nothing is sent, queued or handled before the interrupts
are enabled, and `Programmed` how far the registers of which ports are at each step; `AhciIsProgrammed` follows.
`AnswersCounted` counts the completions on their way from the disk to PxIS, to the port's queue and to the task, with what the
handler has queued but not cleared counted once (`Seen`): they are at most the commands that wait, and so
`CommandIsWaiting`. `Announced` says what the handler has left for the task and how much of it the task has been through
(`Done`), and so `QueuesAgree` unless there was a race.

**Commands** (no assumption but that there is at least one sector). `TableCoversBuffer`: the descriptors cover the buffer without a
gap and not a byte more, for every number of sectors. `TableFitsFrames`: they fit the two frames that are asked
for up to 8064 sectors, and not beyond; the code does not test it, and sends only commands of one sector. These are
facts about operators, not properties of a run.

**Frames** (`FramesAssumption`). `FramesInv` adds `MapIsMarked` (below `available_end` every frame is marked or
available, which is why the gaps have to be marked before each descriptor), `PhasesOK` and `SearchOK`, the
invariant of the two loops of `Allocate`: the frames looked at are free, and no block could begin at a frame
that has been passed. From the last, `FailsOnlyWhenFull` follows when the end of the range is reached.
`FramesAssumption` says that descriptors lie within `kFrameCount`; the code does not test it.

**Rings** (`SizeAssumption`, `NoLinks`: callers push no links). `RingInv` says that the cycle bits show how far the
driver has come, that the controller is in the same lap or in the one before and further on, that no more TRBs are
on their way than fit, and that each of these has both its halves. That is what makes it safe to read a TRB as
soon as its cycle bit turns, though neither side reads the other's index. `RingIsQueue` concludes that the ring
implements `TrbQueue`; `EventRingIsQueue` is the same for the event ring, whose reader tells the writer. The theorems
are about `RingQueue`, where no more is pushed than there is room for. That `UsbTransfers` keeps to this is
proved in `UsbProofs`.

**UsbTransfers** (`TransferAssumption`, `TransferSizes`; the second part of `UsbProofs`). Nobody looks whether a transfer
ring or `setup_stage_map_` is full, and a stage is read again, through the place its event names, when it has been completed.
So everything rests on how much can be under way, and `TransferSizes` says how large the rings and the map must be: two TRBs
and one entry for each endpoint number, and four TRBs (30 TRBs, 16 entries and 15 numbers in the code). `TransfersInv`
says that there are a place `pc` where the driver is, a number `times` of turns that the loop over `class_drivers_` still
takes, and an end, the rest of the handler, that fit everything else (`InvAt`); an event whose handler goes on counts as
handled (`Unhandled`). Its parts:
- `TodoOK`, `PushedOK`: what is left of the handler, and which stages of its transfer have been pushed, and where.
- `StagesOK`: the stages on their way follow one another as a controller expects them.
- `TicketsOK`: a stage that interrupts, from the time it is pushed until its event has been handled, keeps its place.
  `Ahead` is the number of TRBs that can be pushed before that place is written again, and it is larger than what the
  driver is going to push (`Pushes`), turns to come included. Its setup stage is just before it, and the map leads there.
- `AnswersOK`: one answer for each place at most, to the request of the setup stage before it.
- `MapOK`, `RoomOK`: the map and the ring have room for what is still to come. `WhileInitializing` and
  `WhileConfiguring` say why: the device's own requests are sent one at a time, and nothing is under way when
  the command is sent, so that the transfers of the loop find ring and map empty.
- `ReportInv`: there is one TRB that asks for a report, or one report, never two. `KeysInv`: what has been pressed and not told
  is in the next report or in the one that is waiting.

Each kind of step of a ring (a push begins, copies, a TRB is taken) moves these parts in a way of its own (the
lemmas `...Move`), and the actions are put together from them. `CompletionsAlwaysOwn` follows from `TicketsOK` and
`AnswersOK`, `EachPressAlwaysToldOnce` from `KeysInv`. `TransferRingsUsedWell` shows that each step is a step of `RingQueue` at each
ring, or none; with `RingIsQueue` it gives `RingsAlwaysQueues`.
The loop over `class_drivers_` is an action of one turn, as in the code; unrolled with `FoldLeft` and
`FlattenSeq`, what it leaves to do could only have been described by induction.

**Boot** (`FramesAssumption`, `ClockAssumption`, `MachinesAssumption`). `BootProofs` is about the whole boot and
what comes after it. `BootImplementsFrames`: every step of the boot is a step of `Frames` or changes nothing there,
and so the theorems about frames hold in it (`BootKeepsFrames`).

*The pool.* `PoolOK`: what has been handed out lies between the base and `alloc_ptr` and fits what was asked for. It
holds because `AllocMem` only moves upwards, and because of each pair of alignment and boundary the drivers ask for
(`Shapes`) the boundary is a multiple of the alignment: moving an area behind a boundary does not spoil its
alignment. Where `memory_pool` lies does not matter to it.

*The controller.* `XhcInv` says, for each place of the driver, what has been written and that it stays so.
`OwnerOK`: the firmware owns the controller together with the driver only in `wait_owned`, and not at all from
`halt` on, which is what makes it impossible that it starts the controller between the halt and the reset.
`ReadyOK`: the controller is in a reset or not ready only where the driver waits for the end of it. `RegistersOK`:
the pointers in the registers are those the pool has given, none of them null; `MessageIsOn`: neither `ConfigureMSI`
nor `SwitchEhci2Xhci` undoes what has been written. The event ring's table must not have been asked for before,
because the driver tests the pointer to the table and not the one to the ring. `XhcIsProgrammed` follows.

*The ticks.* `ClockInv` says how long the wait has lasted at each count, before and after the overflow.

`MachinesAssumption` says what a machine is: the functions have the types of the registers, its controller has the
MSI capability (which the code does not test, `pci.cpp:151`), and the scan returns functions of the machine. The
scan is the constant `Scan` of `Boot`, which `MCBoot.cfg` gives the value `ScanAllBus`: that operator is RECURSIVE,
and nothing can be proved in a module that reaches one. TLC evaluates the assumption for the machines of the run.
`ClockAssumption` says that a period of the power management timer is longer than the wait, and than two reads; the
code relies on both.

**Layers** (`LayersAssumption`, no assumption about where windows are or how wide they are). Two properties of the run,
one invariant, `LayersInv`. `ScreenShowsLayers` speaks of the screen only; the buffer behind it must be right as well, because
`Draw(id)` copies an area after it has drawn only the layers from `id` on: what is below was drawn earlier, perhaps by
somebody else. And the
handler may draw between any two steps. So `LayersInv` says of each cell that is not in `Stale` that both buffers show the
highest layer (`Fresh`), and of the cells that a `Draw` in progress is to repaint that the back buffer is right wherever
the layer to be seen has already been drawn (`DrawOK`). `StackOK` and `ActiveAt` are `ActiveOnTop` in the form the steps
preserve, for each place the main task can be at: with the layer to be raised in the stack, erased from it, or inserted;
`UpDown(GetHeight(mouse) - 1)` puts a layer at the place of the mouse minus one only because the mouse is the last and the
layer below it, and this is what `StackOK` gives. `JobOK` ties `job` to the place. The argument about drawing has three
parts. *A layer changes*: if two desks differ in one layer only, a cell that this layer covers in neither shows what it
did (`Kept`), and the others are then `Stale`. *It is drawn*: one turn of the loop draws what is right, or what a later
turn draws over (`DrawOK`), and the copy at its end brings the repainted cells from the back buffer to the screen. *Somebody
else draws*: the handler's drawing, as a whole, leaves each cell `Fresh` or `Kept` (`ConsoleDrawn`), whatever place the
task it interrupts is at, because it draws the console and everything above it that is in the stack at that moment; what the
interrupted loop draws later is above it. `Move` draws the old area with the whole stack, and the new one from the layer on;
`Activate` does not draw the whole stack at all, and need not, since a layer that goes up uncovers nothing. `LogOK` is the
invariant of the loop of `Draw` in the AHCI task: as long as the stack has not changed under it, the back buffer is right
wherever the layer to be seen has been passed.

**Terminal** (`TerminalAssumption`: commands print whole lines; `kLineMax` is larger than `kColumns`). `TerminalInv` says that
the cells below the row of the cursor are blank, that the cursor is shown once and where `cursor_` says
(`CursorShown`), that the line stands behind the prompt (`LineIsShown`) and the cursor behind the line
(`LineAtCursor`), and that every line of the history was short enough to have been typed (`Lines`), without which a recalled line
could leave the window. `Clean` and `RestIsBlank` are the invariant of the loop of `Print`: nothing is at or behind the
place where the next character goes, which is why nothing is ever printed over something else, even when a line
scrolls the window in the middle of an output. Both properties follow. That these hold when the prompt has been erased is part of `TerminalInv`: from
there on the column and the length of the line are different things, and only the first is bounded.

**Only model-checked.** All liveness (`EveryTopTaskRuns`, `KeysAreAnswered`, `CursorBlinks`, `DisksIdentified`,
`EveryDeviceConfigured`, `KeysAreTold`, `XhcRuns`), which is out of the prover's reach like ENABLED, and what the recursive scan of
`PciScan` finds, as induction over data is out of its reach too. Every invariant of a passing run, and every action property, is proved.

## 6. What the models leave out

- `Task::Sleep` called with interrupts enabled (`ata/ahci.cpp:138, 146`): the interrupt that comes in the middle of
  `TaskManager::Sleep` itself. `Scheduler` takes each operation as one step.
- The heap is used by handlers and tasks without a lock (`std::deque` in `SendMessage`).
- The pair of ports through which the PCI configuration space is read: `Pci` takes an access as one step. The tasks do not
  meet there, as the main task is through with its accesses before it first gives the processor to one of a lower level.
- The middle of an `erase` or `insert` in the vector of layers, when the AHCI handler or, in a drawing of its own, the AHCI task reads
  it; and the text of the console when one `PutString` interrupts another.
- A machine without an AHCI controller: the null pointer of `ata/ahci.cpp:168` is used. An xHCI controller without the
  MSI capability. The results of `memory_manager->Allocate` at `ata/ahci.cpp:42` and `46` are not tested; there is
  memory in `AhciStart`.
- The waits of `Wait` during the set-up are taken to end. READ_DMA_EXT, which nothing sends.
- The fields of slot and endpoint contexts; malformed descriptors; the contents of mouse reports.
- `sbrk`, which moves one pointer up.
- Memory ordering and caches: the kernel runs on one processor.
- A machine without an xHCI controller, which has neither keyboard nor mouse: `GetHeight` of layer 0 is then -1, and the
  terminal is hidden when it is activated. The text and the scrolling of the console. `Terminal::BlinkCursor`, for
  which nothing sends a message.
- Register layouts, descriptors, pixels, fonts and logging.
- I/O APIC, local APIC set-up other than the timer, paging, segments and IDT: straight lines with no state that later
  steps find wrong.

## 7. Plan

Done: the task manager and its promise, message loops, timers, AHCI set-up, commands and interrupts, USB ports, rings
and transfers, the start of the xHCI controller, PCI, ACPI, the boot, frames, layers, terminal.

Left, the most important first:

1. **Interruptible Sleep**: `TaskManager::Sleep` in steps with the timer handler in between.
2. Mouse reports, and the contexts of slots and endpoints.
