---------------------------- MODULE KernelProofs ----------------------------
(***************************************************************************)
(* Theorems about the tasks of the kernel and about the timer manager.     *)
(*                                                                         *)
(* Module KernelTasks, for every number of levels, and of events and       *)
(* interrupts of the devices: its invariants hold.  The task manager's     *)
(* part is that of module SchedulerProofs, which is instantiated: each of  *)
(* its operations keeps its inductive invariant, whoever calls it.         *)
(*                                                                         *)
(* Module Timers, for every length of the time slice, every number of      *)
(* ticks and of timers: a timer expires once, neither early nor late, the  *)
(* time slices are of one length, and the cursor keeps its rhythm.         *)
(***************************************************************************)
EXTENDS Timers, KernelTasks, QueueLemmas

----------------------------------------------------------------------------
(* The tasks of the kernel.                                                *)

USE LevelAssumption, InputAssumption

SP == INSTANCE SchedulerProofs WITH Msg <- MessageTypes, MaxMsgs <- 0

----------------------------------------------------------------------------
(* The inductive invariant.                                                *)

\* The task that is to be created or woken next, and those after it, have not run,
\* and nobody sends them anything.
NotStarted(t) == t > latestId \/ (t = latestId /\ pc[MainId] = "wake")

CreationState ==
  /\ pc[MainId] \notin {"create", "wake"} => latestId = MaxTasks
  /\ pc[MainId] = "wake" => latestId > IdleId
  /\ NotStarted(AhciId) => /\ ~runningFlag[AhciId] /\ pc[AhciId] = "initialize"
                           /\ timers["wait"] = 0 /\ "wait" \notin handler.due
  /\ NotStarted(TerminalId) => ~runningFlag[TerminalId] /\ pc[TerminalId] = "start"

HandlerState == ~handler.active => handler.due = {}

\* When a message has woken the AHCI task from Wait, the message is there.
WaitState == pc[AhciId] = "waitReceive" /\ runningFlag[AhciId] => msgs[AhciId] # << >>

KernelInv == /\ SP!IInv /\ TypeOK
             /\ CreationState /\ HandlerState /\ WaitState
             /\ NoLostWakeup /\ CursorTimerOnce /\ NoUsbEventForgotten

----------------------------------------------------------------------------
(* The task manager.                                                       *)

\* The assumptions of module Scheduler hold of the kernel's tasks.
LEMMA SchedulerAssumptions == SP!LevelAssumption /\ SP!BoundAssumption
BY DEF SP!LevelAssumption, SP!BoundAssumption, MaxTasks

\* The two instances of module Scheduler, the one of the model and the one the proofs
\* about it are instantiated with, are of the same operators.
LEMMA SameScheduler ==
  /\ \A sleep : Sched!SwitchTo(sleep) <=> SP!SwitchTo(sleep)
  /\ Sched!SwitchTask <=> SP!SwitchTask
  /\ \A t : Sched!Sleep(t) <=> SP!Sleep(t)
  /\ Sched!NewTask <=> SP!NewTask
  /\ \A t, l : Sched!WakeupTask(t, l) <=> SP!WakeupTask(t, l)
  /\ Sched!Init <=> SP!Init
<1>1. \A s, t : Sched!Erase(s, t) = SP!Erase(s, t)
  BY DEF Sched!Erase, SP!Erase, Sched!ToSet, SP!ToSet, Sched!RemoveAt, SP!RemoveAt
<1>2. \A q : Sched!HighestLevel(q) = SP!HighestLevel(q)
  BY DEF Sched!HighestLevel, SP!HighestLevel, Sched!Max, SP!Max, Sched!Levels, SP!Levels
<1>3. Sched!CurrentTask = SP!CurrentTask
  BY DEF Sched!CurrentTask, SP!CurrentTask
<1>4. \A q, l, t : Sched!Enqueue(q, l, t) = SP!Enqueue(q, l, t)
  BY DEF Sched!Enqueue, SP!Enqueue
<1>5. \A sleep : Sched!SwitchTo(sleep) <=> SP!SwitchTo(sleep)
  BY <1>2, <1>3 DEF Sched!SwitchTo, SP!SwitchTo, Sched!Requeued, SP!Requeued
<1>6. Sched!SwitchTask <=> SP!SwitchTask
  BY <1>5 DEF Sched!SwitchTask, SP!SwitchTask
<1>7. \A t : Sched!Sleep(t) <=> SP!Sleep(t)
  BY <1>1, <1>3, <1>5 DEF Sched!Sleep, SP!Sleep
<1>8. Sched!NewTask <=> SP!NewTask
  BY DEF Sched!NewTask, SP!NewTask, Sched!queueVars, SP!queueVars
<1>9. ASSUME NEW t, NEW l PROVE Sched!StartRunning(t, l) <=> SP!StartRunning(t, l)
  <2>1. CASE l < 0
    BY <1>4, <2>1 DEF Sched!StartRunning, SP!StartRunning
  <2>2. CASE ~(l < 0)
    BY <1>4, <2>2 DEF Sched!StartRunning, SP!StartRunning
  <2> QED BY <2>1, <2>2
<1>10. ASSUME NEW t, NEW l PROVE Sched!ChangeLevelRunning(t, l) <=> SP!ChangeLevelRunning(t, l)
  <2>1. Sched!Erase(running[level[t]], t) = SP!Erase(running[level[t]], t)
    BY <1>1
  <2>2. \A q : Sched!Enqueue(q, l, t) = SP!Enqueue(q, l, t)
    BY <1>4
  <2> QED
    BY <1>3, <2>1, <2>2, Zenon DEF Sched!ChangeLevelRunning, SP!ChangeLevelRunning,
                                   Sched!queueVars, SP!queueVars
<1>11. \A t, l : Sched!WakeupTask(t, l) <=> SP!WakeupTask(t, l)
  BY <1>9, <1>10 DEF Sched!WakeupTask, SP!WakeupTask
<1>12. Sched!Init <=> SP!Init
  BY <1>4 DEF Sched!Init, SP!Init, Sched!TaskIds, SP!TaskIds, Sched!MainId, SP!MainId,
              Sched!IdleId, SP!IdleId, Sched!Levels, SP!Levels
<1> QED
  BY <1>5, <1>6, <1>7, <1>8, <1>11, <1>12

\* What the invariant of the task manager says of the variables of this module.
LEMMA SchedulerTypes ==
  ASSUME SP!IInv
  PROVE  /\ latestId \in 2 .. 4 /\ cpu \in 1 .. latestId
         /\ runningFlag \in [TaskIds -> BOOLEAN] /\ level \in [TaskIds -> 0 .. kMaxLevel]
         /\ msgs \in [TaskIds -> Seq(MessageTypes)]
         /\ runningFlag[cpu]
         /\ SP!CurrentTask = cpu
<1>1. SP!TypeOK /\ SP!QueuesMatchFlags /\ SP!CurrentIsOnCpu
  BY DEF SP!IInv
<1>2. /\ latestId \in 2 .. 4 /\ cpu \in 1 .. latestId
      /\ runningFlag \in [TaskIds -> BOOLEAN] /\ level \in [TaskIds -> 0 .. kMaxLevel]
      /\ msgs \in [TaskIds -> Seq(MessageTypes)]
  BY <1>1 DEF SP!TypeOK, SP!Levels, SP!TaskIds, SP!Tasks, MaxTasks, TaskIds
<1>3. currentLevel \in SP!Levels /\ running[currentLevel] \in Seq(SP!Tasks)
  BY <1>1 DEF SP!TypeOK
<1>4. running[currentLevel] # << >> /\ Head(running[currentLevel]) = cpu
  BY <1>1 DEF SP!CurrentIsOnCpu, SP!CurrentTask
<1>5. cpu \in SP!ToSet(running[currentLevel])
  <2>1. cpu \in ToSet(running[currentLevel])
    BY <1>3, <1>4, HeadInSet
  <2> QED BY <2>1 DEF ToSet, SP!ToSet
<1>6. runningFlag[cpu]
  BY <1>1, <1>3, <1>5 DEF SP!QueuesMatchFlags
<1> QED
  BY <1>1, <1>2, <1>6 DEF SP!CurrentIsOnCpu

\* Only messages have changed.
LEMMA QueuesUntouched ==
  ASSUME SP!IInv, UNCHANGED schedVars, msgs' \in [TaskIds -> Seq(MessageTypes)]
  PROVE  SP!IInv'
<1>1. msgs' \in [SP!TaskIds -> SP!Seq(MessageTypes)]
  BY DEF SP!TaskIds, MaxTasks, TaskIds
<1> QED
  BY <1>1 DEF schedVars, SP!IInv, SP!TypeOK, SP!QueuesMatchFlags, SP!CurrentIsOnCpu,
              SP!HigherLevelIsNoticed, SP!IdleIsReady, SP!Tasks, SP!CurrentTask

\* A task that is not the idle task is woken at its own level.
LEMMA TaskWoken ==
  ASSUME SP!IInv, NEW t \in {MainId, AhciId, TerminalId}, t <= latestId,
         Sched!WakeupTask(t, -1), UNCHANGED <<latestId, cpu>>,
         msgs' \in [TaskIds -> Seq(MessageTypes)]
  PROVE  SP!IInv' /\ runningFlag' = [runningFlag EXCEPT ![t] = TRUE]
<1>1. /\ t \in SP!Clients /\ -1 \in -1 .. kMaxLevel
      /\ msgs' \in [SP!TaskIds -> Seq(MessageTypes)]
  <2>1. t \in SP!Clients
    BY SchedulerTypes DEF SP!Clients, SP!Tasks, SP!IdleId, MainId, AhciId, TerminalId
  <2>2. -1 \in -1 .. kMaxLevel
    OBVIOUS
  <2>3. msgs' \in [SP!TaskIds -> Seq(MessageTypes)]
    BY DEF SP!TaskIds, MaxTasks, TaskIds
  <2> QED BY <2>1, <2>2, <2>3
<1>2. SP!WakeupTask(t, -1)
  BY SameScheduler
<1>3. CASE runningFlag[t]
  <2>1. SP!ChangeLevelRunning(t, -1)
    BY <1>2, <1>3 DEF SP!WakeupTask
  <2>2. SP!IInv'
    BY <1>1, <1>3, <2>1, SP!ChangeLevelRunningIInv, SchedulerAssumptions
  <2>3. runningFlag' = runningFlag
    BY <2>1 DEF SP!ChangeLevelRunning, SP!queueVars
  <2>4. runningFlag \in [TaskIds -> BOOLEAN] /\ t \in TaskIds
    BY SchedulerTypes DEF MainId, AhciId, TerminalId, TaskIds, MaxTasks
  <2> QED BY <1>3, <2>2, <2>3, <2>4
<1>4. CASE ~runningFlag[t]
  <2>1. SP!StartRunning(t, -1)
    BY <1>2, <1>4 DEF SP!WakeupTask
  <2>2. SP!IInv'
    BY <1>1, <1>4, <2>1, SP!StartRunningIInv, SchedulerAssumptions
  <2> QED BY <2>1, <2>2 DEF SP!StartRunning
<1> QED
  BY <1>3, <1>4

\* The task on the processor goes to sleep.
LEMMA TaskSleeps ==
  ASSUME SP!IInv, NEW t \in {MainId, AhciId, TerminalId}, cpu = t, Sched!Sleep(t)
  PROVE  /\ SP!IInv' /\ runningFlag' = [runningFlag EXCEPT ![t] = FALSE]
         /\ UNCHANGED <<latestId, msgs>>
<1>1. t \in SP!Clients
  BY SchedulerTypes DEF SP!Clients, SP!Tasks, SP!IdleId, MainId, AhciId, TerminalId
<1>2. SP!Sleep(t)
  BY SameScheduler
<1> QED
  BY <1>1, <1>2, SP!SleepIInv, SchedulerAssumptions DEF SP!Sleep

\* The processor is given to the next task.
LEMMA TaskSwitched ==
  ASSUME SP!IInv, Sched!SwitchTask
  PROVE  SP!IInv' /\ UNCHANGED <<latestId, runningFlag, msgs>>
<1>1. SP!SwitchTask
  BY SameScheduler
<1>2. SP!Next
  BY <1>1 DEF SP!Next
<1> QED
  BY <1>1, <1>2, SP!NextIInv, SchedulerAssumptions DEF SP!SwitchTask

\* A task is created.
LEMMA TaskCreated ==
  ASSUME SP!IInv, Sched!NewTask
  PROVE  SP!IInv' /\ latestId' = latestId + 1 /\ UNCHANGED <<runningFlag, msgs, cpu>>
<1>1. SP!NewTask
  BY SameScheduler
<1>2. SP!Next
  BY <1>1 DEF SP!Next
<1> QED
  BY <1>1, <1>2, SP!NextIInv, SchedulerAssumptions DEF SP!NewTask, SP!queueVars

----------------------------------------------------------------------------
(* What each kind of step does.                                            *)

USE DEF MainId, AhciId, TerminalId, IdleId, MaxTasks, TaskIds

\* The types of the task manager's variables are part of its invariant.
LEMMA SchedulerTypeOK == SP!IInv => Sched!TypeOK
BY DEF SP!IInv, SP!TypeOK, Sched!TypeOK, SP!Levels, Sched!Levels, SP!TaskIds, Sched!TaskIds,
       SP!Tasks, Sched!Tasks

\* The type invariant has the task manager's part from there.
LEMMA TypesOfKernel ==
  ASSUME KernelInv
  PROVE  /\ latestId \in 2 .. 4 /\ cpu \in 1 .. 4 /\ cpu <= latestId
         /\ runningFlag \in [1 .. 4 -> BOOLEAN] /\ runningFlag[cpu]
         /\ msgs \in [1 .. 4 -> Seq(MessageTypes)]
         /\ pc \in [1 .. 4 -> {"create", "wake", "loop", "xhci", "push", "pushing", "cursor",
                         "key", "layer", "start", "initialize", "waitSleep",
                         "waitReceive", "hlt"}]
         /\ iflag \in BOOLEAN
         /\ handler \in [active : BOOLEAN, due : SUBSET Timers, switch : BOOLEAN]
         /\ timers \in [Timers -> Nat]
         /\ usbEvents \in Nat /\ usbReported \in 0 .. MaxUsbEvents /\ usbEvents <= usbReported
         /\ usbIrq \in BOOLEAN /\ diskIrqs \in 0 .. MaxDiskInterrupts
         /\ pushAt \in Nat /\ torn \in BOOLEAN
<1>1. SP!IInv /\ TypeOK
  BY DEF KernelInv
<1> QED
  BY <1>1, SchedulerTypes DEF TypeOK

\* A step that leaves the task manager and the messages alone.
LEMMA QuietStep ==
  ASSUME KernelInv, UNCHANGED <<schedVars, msgs>>
  PROVE  /\ SP!IInv' /\ Sched!TypeOK'
         /\ UNCHANGED <<latestId, runningFlag, cpu, msgs>>
<1>1. SP!IInv' /\ UNCHANGED <<latestId, runningFlag, cpu, msgs>>
  BY QueuesUntouched, TypesOfKernel DEF KernelInv, schedVars
<1>2. Sched!TypeOK'
  BY <1>1, SchedulerTypeOK, PTL
<1> QED
  BY <1>1, <1>2

\* ProcessEvents takes an event out of the ring, or finds none and ends.
LEMMA ProcessEventsKeeps == ASSUME KernelInv, ProcessEvents PROVE KernelInv'
<1>1. SP!IInv' /\ Sched!TypeOK' /\ UNCHANGED <<latestId, runningFlag, cpu, msgs>>
  BY QuietStep DEF ProcessEvents
<1>2. TypeOK'
  BY SMTT(40), <1>1, TypesOfKernel DEF ProcessEvents, GoTo, TypeOK, raceVars
<1>3. CreationState' /\ HandlerState' /\ WaitState'
  BY SMTT(40), <1>1, TypesOfKernel
     DEF KernelInv, ProcessEvents, GoTo, CreationState, NotStarted, HandlerState, WaitState
<1>4. NoLostWakeup'
  BY <1>1, <1>2, TypesOfKernel DEF KernelInv, ProcessEvents, Runs, GoTo, NoLostWakeup
<1>5. CursorTimerOnce'
  BY <1>1, TypesOfKernel DEF KernelInv, ProcessEvents, GoTo, raceVars, CursorTimerOnce
<1>6. NoUsbEventForgotten'
  BY <1>1, TypesOfKernel DEF KernelInv, ProcessEvents, GoTo, NoUsbEventForgotten
<1> QED
  BY <1>1, <1>2, <1>3, <1>4, <1>5, <1>6 DEF KernelInv

\* Where interrupt handlers and the observer put messages, and what becomes of the count
\* of cursor messages and of the announcement of USB events.
LEMMA QueueGrows ==
  ASSUME NEW q \in Seq(MessageTypes), NEW m \in MessageTypes
  PROVE  /\ Append(q, m) \in Seq(MessageTypes) /\ Append(q, m) # << >>
         /\ CountIn(q, {"cursor"}) \in Nat
         /\ CountIn(Append(q, m), {"cursor"})
              = CountIn(q, {"cursor"}) + (IF m = "cursor" THEN 1 ELSE 0)
         /\ ToSet(Append(q, m)) = ToSet(q) \cup {m}
<1>1. /\ Append(q, m) \in Seq(MessageTypes) /\ Append(q, m) # << >>
      /\ ToSet(Append(q, m)) = ToSet(q) \cup {m}
  BY AppendToQueue
<1>2. /\ CountIn(q, {"cursor"}) \in Nat
      /\ CountIn(Append(q, m), {"cursor"})
           = IF m \in {"cursor"} THEN CountIn(q, {"cursor"}) + 1 ELSE CountIn(q, {"cursor"})
  BY CountAppend
<1> QED
  BY <1>1, <1>2

\* The same for a message that is received.
LEMMA QueueShrinks ==
  ASSUME NEW q \in Seq(MessageTypes), q # << >>
  PROVE  /\ Head(q) \in MessageTypes /\ Tail(q) \in Seq(MessageTypes)
         /\ CountIn(Tail(q), {"cursor"}) \in Nat
         /\ CountIn(q, {"cursor"})
              = CountIn(Tail(q), {"cursor"}) + (IF Head(q) = "cursor" THEN 1 ELSE 0)
         /\ "kInterruptXHCI" \in ToSet(q)
              => Head(q) = "kInterruptXHCI" \/ "kInterruptXHCI" \in ToSet(Tail(q))
<1>1. Head(q) \in MessageTypes
  BY HeadInSet
<1>2. /\ Tail(q) \in Seq(MessageTypes) /\ CountIn(Tail(q), {"cursor"}) \in Nat
      /\ CountIn(q, {"cursor"})
           = IF Head(q) \in {"cursor"} THEN CountIn(Tail(q), {"cursor"}) + 1
             ELSE CountIn(Tail(q), {"cursor"})
  BY CountTail
<1>3. /\ CountIn(q, {"kInterruptXHCI"})
           = IF Head(q) \in {"kInterruptXHCI"} THEN CountIn(Tail(q), {"kInterruptXHCI"}) + 1
             ELSE CountIn(Tail(q), {"kInterruptXHCI"})
  BY CountTail
<1>4. CountIn(q, {"kInterruptXHCI"}) = 0 <=> ToSet(q) \cap {"kInterruptXHCI"} = {}
  BY CountType
<1>5. CountIn(Tail(q), {"kInterruptXHCI"}) = 0 <=> ToSet(Tail(q)) \cap {"kInterruptXHCI"} = {}
  BY <1>2, CountType
<1>6. "kInterruptXHCI" \in ToSet(q)
        => Head(q) = "kInterruptXHCI" \/ "kInterruptXHCI" \in ToSet(Tail(q))
  BY <1>3, <1>4, <1>5
<1> QED
  BY <1>1, <1>2, <1>6

\* A message is sent to a task that has been created: it is woken, and the message is in
\* its queue.
LEMMA SendStep ==
  ASSUME KernelInv, NEW t \in {MainId, AhciId, TerminalId}, t <= latestId,
         NEW m \in MessageTypes, Send(t, m)
  PROVE  /\ SP!IInv' /\ Sched!TypeOK' /\ UNCHANGED <<latestId, cpu>>
         /\ runningFlag' = [runningFlag EXCEPT ![t] = TRUE]
         /\ msgs' \in [1 .. 4 -> Seq(MessageTypes)] /\ msgs'[t] # << >>
         /\ \A u \in 1 .. 4 : u # t => msgs'[u] = msgs[u]
         /\ CountIn(msgs[MainId], {"cursor"}) \in Nat
         /\ CountIn(msgs'[MainId], {"cursor"})
              = CountIn(msgs[MainId], {"cursor"})
                + (IF t = MainId /\ m = "cursor" THEN 1 ELSE 0)
         /\ ToSet(msgs'[MainId])
              = ToSet(msgs[MainId]) \cup (IF t = MainId THEN {m} ELSE {})
<1>1. /\ msgs \in [1 .. 4 -> Seq(MessageTypes)] /\ t \in 1 .. 4
      /\ msgs' = [msgs EXCEPT ![t] = Append(@, m)] /\ Sched!WakeupTask(t, -1)
      /\ UNCHANGED <<latestId, cpu>>
  BY TypesOfKernel DEF Send
<1>2. Append(msgs[t], m) \in Seq(MessageTypes) /\ Append(msgs[t], m) # << >>
  BY <1>1, QueueGrows
<1>3. /\ CountIn(msgs[1], {"cursor"}) \in Nat
      /\ CountIn(Append(msgs[1], m), {"cursor"})
           = CountIn(msgs[1], {"cursor"}) + (IF m = "cursor" THEN 1 ELSE 0)
      /\ ToSet(Append(msgs[1], m)) = ToSet(msgs[1]) \cup {m}
  BY <1>1, QueueGrows
<1>4. /\ msgs' \in [1 .. 4 -> Seq(MessageTypes)] /\ msgs'[t] # << >>
      /\ \A u \in 1 .. 4 : u # t => msgs'[u] = msgs[u]
      /\ msgs'[1] = IF t = 1 THEN Append(msgs[1], m) ELSE msgs[1]
  BY <1>1, <1>2
<1>5. SP!IInv' /\ runningFlag' = [runningFlag EXCEPT ![t] = TRUE]
  BY <1>1, <1>4, TaskWoken DEF KernelInv
<1>6. Sched!TypeOK'
  BY <1>5, SchedulerTypeOK, PTL
<1> QED
  BY <1>1, <1>3, <1>4, <1>5, <1>6

\* The task on the processor receives its oldest message.
LEMMA ReceiveStep ==
  ASSUME KernelInv, NEW t \in 1 .. 4, cpu = t, msgs[t] # << >>, Receive(t),
         UNCHANGED schedVars
  PROVE  /\ SP!IInv' /\ Sched!TypeOK' /\ UNCHANGED <<latestId, runningFlag, cpu>>
         /\ msgs' \in [1 .. 4 -> Seq(MessageTypes)]
         /\ \A u \in 1 .. 4 : u # t => msgs'[u] = msgs[u]
         /\ Head(msgs[t]) \in MessageTypes /\ runningFlag[t]
         /\ msgs'[t] = Tail(msgs[t])
<1>1. /\ msgs \in [1 .. 4 -> Seq(MessageTypes)] /\ runningFlag[t]
      /\ msgs' = [msgs EXCEPT ![t] = Tail(@)]
  BY TypesOfKernel DEF Receive
<1>2. Head(msgs[t]) \in MessageTypes /\ Tail(msgs[t]) \in Seq(MessageTypes)
  BY <1>1, QueueShrinks
<1>3. /\ msgs' \in [1 .. 4 -> Seq(MessageTypes)]
      /\ \A u \in 1 .. 4 : u # t => msgs'[u] = msgs[u]
      /\ msgs'[t] = Tail(msgs[t])
  BY <1>1, <1>2
<1>4. SP!IInv' /\ UNCHANGED <<latestId, runningFlag, cpu>>
  BY <1>3, QueuesUntouched DEF KernelInv, schedVars
<1>5. Sched!TypeOK'
  BY <1>4, SchedulerTypeOK, PTL
<1> QED
  BY <1>1, <1>2, <1>3, <1>4, <1>5

\* A task that finds no message goes to sleep, as does Wait.
LEMMA SleepStep ==
  ASSUME KernelInv, NEW t \in {MainId, AhciId, TerminalId}, cpu = t, Sched!Sleep(t)
  PROVE  /\ SP!IInv' /\ Sched!TypeOK' /\ UNCHANGED <<latestId, msgs>>
         /\ runningFlag' = [runningFlag EXCEPT ![t] = FALSE]
<1>1. /\ SP!IInv' /\ UNCHANGED <<latestId, msgs>>
      /\ runningFlag' = [runningFlag EXCEPT ![t] = FALSE]
  BY TaskSleeps DEF KernelInv
<1>2. Sched!TypeOK'
  BY <1>1, SchedulerTypeOK, PTL
<1> QED
  BY <1>1, <1>2

----------------------------------------------------------------------------
(* Every step keeps the invariant.                                         *)


\* A task is created; it does not run before it is woken.
LEMMA MainCreatesTaskKeeps == ASSUME KernelInv, MainCreatesTask PROVE KernelInv'
<1>1. /\ SP!IInv' /\ Sched!TypeOK' /\ latestId' = latestId + 1
      /\ UNCHANGED <<runningFlag, cpu, msgs>>
  <2>1. SP!IInv' /\ latestId' = latestId + 1 /\ UNCHANGED <<runningFlag, cpu, msgs>>
    BY TaskCreated DEF KernelInv, MainCreatesTask
  <2>2. Sched!TypeOK'
    BY <2>1, SchedulerTypeOK, PTL
  <2> QED BY <2>1, <2>2
<1>2. TypeOK'
  BY SMTT(40), <1>1, TypesOfKernel DEF MainCreatesTask, Runs, GoTo, inputVars, raceVars, TypeOK
<1>3. CreationState' /\ HandlerState' /\ WaitState'
  BY <1>1, TypesOfKernel
    
        DEF KernelInv, MainCreatesTask, Runs, GoTo, inputVars, raceVars, CreationState,
            NotStarted, HandlerState, WaitState
<1>4. NoLostWakeup'
  BY <1>1, <1>2, TypesOfKernel
     DEF KernelInv, MainCreatesTask, Runs, GoTo, inputVars, raceVars, NoLostWakeup
<1>5. CursorTimerOnce'
  BY <1>1, TypesOfKernel
     DEF KernelInv, MainCreatesTask, Runs, GoTo, inputVars, raceVars, CursorTimerOnce
<1>6. NoUsbEventForgotten'
  BY <1>1, TypesOfKernel
     DEF KernelInv, MainCreatesTask, Runs, GoTo, inputVars, raceVars, NoUsbEventForgotten
<1> QED
  BY <1>1, <1>2, <1>3, <1>4, <1>5, <1>6 DEF KernelInv

\* The task that was created last is woken.
LEMMA MainWakesTaskKeeps == ASSUME KernelInv, MainWakesTask PROVE KernelInv'
<1>1. /\ SP!IInv' /\ Sched!TypeOK' /\ latestId \in {3, 4}
      /\ runningFlag' = [runningFlag EXCEPT ![latestId] = TRUE]
      /\ UNCHANGED <<latestId, cpu, msgs>>
  <2>1. latestId \in {3, 4} /\ msgs \in [1 .. 4 -> Seq(MessageTypes)]
    BY TypesOfKernel DEF KernelInv, CreationState, MainWakesTask
  <2>2. Sched!WakeupTask(latestId, -1) /\ UNCHANGED <<latestId, cpu, msgs>>
    BY DEF MainWakesTask, Sched!Wakeup
  <2>3. SP!IInv' /\ runningFlag' = [runningFlag EXCEPT ![latestId] = TRUE]
    BY <2>1, <2>2, TaskWoken DEF KernelInv
  <2>4. Sched!TypeOK'
    BY <2>3, SchedulerTypeOK, PTL
  <2> QED BY <2>1, <2>2, <2>3, <2>4
<1>2. TypeOK'
  BY SMTT(40), <1>1, TypesOfKernel DEF MainWakesTask, Runs, GoTo, inputVars, raceVars, TypeOK
<1>3. CreationState' /\ HandlerState' /\ WaitState'
  BY SMTT(40), <1>1, TypesOfKernel
    
        DEF KernelInv, MainWakesTask, Runs, GoTo, inputVars, raceVars, CreationState,
            NotStarted, HandlerState, WaitState
<1>4. NoLostWakeup'
  BY SMTT(40), <1>1, <1>2, TypesOfKernel
     DEF KernelInv, MainWakesTask, Runs, GoTo, inputVars, raceVars, NoLostWakeup
<1>5. CursorTimerOnce'
  BY <1>1, TypesOfKernel
     DEF KernelInv, MainWakesTask, Runs, GoTo, inputVars, raceVars, CursorTimerOnce
<1>6. NoUsbEventForgotten'
  BY <1>1, TypesOfKernel
     DEF KernelInv, MainWakesTask, Runs, GoTo, inputVars, raceVars, NoUsbEventForgotten
<1> QED
  BY <1>1, <1>2, <1>3, <1>4, <1>5, <1>6 DEF KernelInv

\* The main task receives a message and takes the branch for it.
LEMMA MainReceivesKeeps == ASSUME KernelInv, MainReceives PROVE KernelInv'
<1>1. /\ SP!IInv' /\ Sched!TypeOK' /\ UNCHANGED <<latestId, runningFlag, cpu>>
      /\ msgs' \in [1 .. 4 -> Seq(MessageTypes)]
      /\ \A u \in 1 .. 4 : u # 1 => msgs'[u] = msgs[u]
      /\ Head(msgs[1]) \in MessageTypes /\ runningFlag[1]
      /\ msgs'[1] = Tail(msgs[1])
  BY ReceiveStep DEF MainReceives, Runs
<1>2. /\ CountIn(msgs'[1], {"cursor"}) \in Nat
      /\ CountIn(msgs[1], {"cursor"})
           = CountIn(msgs'[1], {"cursor"}) + (IF Head(msgs[1]) = "cursor" THEN 1 ELSE 0)
      /\ "kInterruptXHCI" \in ToSet(msgs[1])
           => Head(msgs[1]) = "kInterruptXHCI" \/ "kInterruptXHCI" \in ToSet(msgs'[1])
  BY <1>1, TypesOfKernel, QueueShrinks DEF MainReceives
<1>3. /\ pc[1] = "loop" /\ pc' = [pc EXCEPT ![1] = BranchOf(Head(msgs[1]))]
      /\ UNCHANGED <<iflag, handler, timers, inputVars, raceVars>>
  BY DEF MainReceives, GoTo
<1>4. /\ BranchOf(Head(msgs[1])) \in {"xhci", "cursor", "key", "layer", "loop"}
      /\ BranchOf(Head(msgs[1])) = "cursor" <=> Head(msgs[1]) = "cursor"
      /\ Head(msgs[1]) = "kInterruptXHCI" => BranchOf(Head(msgs[1])) = "xhci"
  BY DEF BranchOf
<1>5. /\ pc' \in [1 .. 4 -> {"create", "wake", "loop", "xhci", "push", "pushing", "cursor",
                         "key", "layer", "start", "initialize", "waitSleep",
                         "waitReceive", "hlt"}]
      /\ pc'[1] = BranchOf(Head(msgs[1])) /\ \A u \in 1 .. 4 : u # 1 => pc'[u] = pc[u]
      /\ pc'[1] \notin {"create", "wake"}
  BY <1>3, <1>4, TypesOfKernel
<1>6. TypeOK'
  BY SMTT(40), <1>1, <1>2, <1>3, <1>4, <1>5, TypesOfKernel DEF inputVars, raceVars, TypeOK
<1>7. CreationState' /\ HandlerState' /\ WaitState'
  BY SMTT(40), <1>1, <1>2, <1>3, <1>4, <1>5, TypesOfKernel
     DEF KernelInv, inputVars, raceVars, CreationState, NotStarted, HandlerState, WaitState
<1>8. NoLostWakeup'
  BY SMTT(40), <1>1, <1>2, <1>3, <1>4, <1>5, <1>6, TypesOfKernel
     DEF KernelInv, inputVars, raceVars, NoLostWakeup
<1>9. CursorTimerOnce'
  <2>1. /\ UNCHANGED <<torn, timers, handler>> /\ pc[1] # "cursor"
        /\ pc'[1] = "cursor" <=> Head(msgs[1]) = "cursor"
    BY <1>3, <1>4, <1>5 DEF raceVars
  <2>2. timers["cursor"] \in Nat /\ CursorTimerOnce
    BY TypesOfKernel DEF KernelInv, Timers
  <2> QED BY <1>2, <2>1, <2>2 DEF CursorTimerOnce
<1>10. NoUsbEventForgotten'
  BY <1>1, <1>2, <1>3, <1>4, <1>5, TypesOfKernel
     DEF KernelInv, inputVars, raceVars, NoUsbEventForgotten
<1> QED
  BY <1>1, <1>6, <1>7, <1>8, <1>9, <1>10 DEF KernelInv

\* The observer notes how long the queue is.
LEMMA ObserverStartsKeeps == ASSUME KernelInv, ObserverStarts PROVE KernelInv'
<1>1. SP!IInv' /\ Sched!TypeOK' /\ UNCHANGED <<latestId, runningFlag, cpu, msgs>>
  BY QuietStep DEF ObserverStarts
<1>2. TypeOK'
  BY <1>1, TypesOfKernel DEF ObserverStarts, Runs, GoTo, inputVars, TypeOK
<1>3. CreationState' /\ HandlerState' /\ WaitState'
  BY <1>1, TypesOfKernel
    
        DEF KernelInv, ObserverStarts, Runs, GoTo, inputVars, CreationState, NotStarted,
            HandlerState, WaitState
<1>4. NoLostWakeup'
  BY <1>1, <1>2, TypesOfKernel
     DEF KernelInv, ObserverStarts, Runs, GoTo, inputVars, NoLostWakeup
<1>5. CursorTimerOnce'
  BY <1>1, TypesOfKernel
     DEF KernelInv, ObserverStarts, Runs, GoTo, inputVars, CursorTimerOnce
<1>6. NoUsbEventForgotten'
  BY <1>1, TypesOfKernel
     DEF KernelInv, ObserverStarts, Runs, GoTo, inputVars, NoUsbEventForgotten
<1> QED
  BY <1>1, <1>2, <1>3, <1>4, <1>5, <1>6 DEF KernelInv

\* The cursor timer is set again.
LEMMA MainBlinksKeeps == ASSUME KernelInv, MainBlinks PROVE KernelInv'
<1>1. SP!IInv' /\ Sched!TypeOK' /\ UNCHANGED <<latestId, runningFlag, cpu, msgs>>
  BY QuietStep DEF MainBlinks
<1>2. /\ timers' \in [Timers -> Nat] /\ timers'["cursor"] = timers["cursor"] + 1
      /\ timers["cursor"] \in Nat /\ timers'["wait"] = timers["wait"]
  BY TypesOfKernel DEF MainBlinks, Timers
<1>3. TypeOK'
  BY <1>1, <1>2, TypesOfKernel DEF MainBlinks, Runs, GoTo, inputVars, raceVars, TypeOK
<1>4. CreationState' /\ HandlerState' /\ WaitState'
  BY <1>1, <1>2, TypesOfKernel
    
        DEF KernelInv, MainBlinks, Runs, GoTo, inputVars, raceVars, CreationState,
            NotStarted, HandlerState, WaitState
<1>5. NoLostWakeup'
  BY <1>1, <1>2, <1>3, TypesOfKernel
     DEF KernelInv, MainBlinks, Runs, GoTo, inputVars, raceVars, NoLostWakeup
<1>6. CursorTimerOnce'
  <2>1. UNCHANGED <<torn, handler>> /\ pc[1] = "cursor" /\ pc'[1] = "loop"
    BY TypesOfKernel DEF MainBlinks, GoTo, raceVars
  <2>2. CountIn(msgs[1], {"cursor"}) \in Nat /\ CursorTimerOnce
    BY TypesOfKernel, CountType DEF KernelInv
  <2>3. CountIn(msgs'[1], {"cursor"}) = CountIn(msgs[1], {"cursor"})
    BY <1>1
  <2> QED BY <1>2, <2>1, <2>2, <2>3 DEF CursorTimerOnce
<1>7. NoUsbEventForgotten'
  BY <1>1, <1>2, TypesOfKernel
     DEF KernelInv, MainBlinks, Runs, GoTo, inputVars, raceVars, NoUsbEventForgotten
<1> QED
  BY <1>1, <1>3, <1>4, <1>5, <1>6, <1>7 DEF KernelInv

\* The count of cursor timers, messages and blinks in progress is as it was.
LEMMA CursorUndisturbed ==
  ASSUME KernelInv, UNCHANGED <<torn, timers, handler>>,
         CountIn(msgs'[MainId], {"cursor"}) = CountIn(msgs[MainId], {"cursor"}),
         pc'[MainId] = "cursor" <=> pc[MainId] = "cursor"
  PROVE  CursorTimerOnce'
BY DEF KernelInv, CursorTimerOnce

\* The main task goes to sleep when it has no message.
LEMMA MainSleepsKeeps == ASSUME KernelInv, MainSleeps PROVE KernelInv'
<1>1. /\ SP!IInv' /\ Sched!TypeOK' /\ UNCHANGED <<latestId, msgs>>
      /\ runningFlag' = [runningFlag EXCEPT ![1] = FALSE] /\ msgs[1] = << >>
  BY SleepStep DEF MainSleeps, SleepWithoutMessage, SleepMyself, Runs
<1>2. TypeOK'
  BY <1>1, TypesOfKernel
     DEF MainSleeps, SleepWithoutMessage, SleepMyself, Runs, inputVars, raceVars, TypeOK
<1>3. CreationState' /\ HandlerState' /\ WaitState'
  BY <1>1, TypesOfKernel
    
        DEF KernelInv, MainSleeps, SleepWithoutMessage, SleepMyself, Runs, inputVars,
            raceVars, CreationState, NotStarted, HandlerState, WaitState
<1>4. NoLostWakeup'
  BY <1>1, <1>2, TypesOfKernel
     DEF KernelInv, MainSleeps, SleepWithoutMessage, SleepMyself, Runs, inputVars,
         raceVars, NoLostWakeup
<1>5. CursorTimerOnce'
  BY <1>1, CursorUndisturbed, TypesOfKernel
     DEF MainSleeps, SleepWithoutMessage, SleepMyself, Runs, inputVars, raceVars
<1>6. NoUsbEventForgotten'
  BY <1>1, TypesOfKernel
     DEF KernelInv, MainSleeps, SleepWithoutMessage, SleepMyself, Runs, inputVars,
         raceVars, NoUsbEventForgotten
<1> QED
  BY <1>1, <1>2, <1>3, <1>4, <1>5, <1>6 DEF KernelInv

\* So does the terminal.
LEMMA TerminalSleepsKeeps == ASSUME KernelInv, TerminalSleeps PROVE KernelInv'
<1>1. /\ SP!IInv' /\ Sched!TypeOK' /\ UNCHANGED <<latestId, msgs>>
      /\ runningFlag' = [runningFlag EXCEPT ![4] = FALSE] /\ msgs[4] = << >>
  BY SleepStep DEF TerminalSleeps, SleepWithoutMessage, SleepMyself, Runs
<1>2. TypeOK'
  BY <1>1, TypesOfKernel
     DEF TerminalSleeps, SleepWithoutMessage, SleepMyself, Runs, inputVars, raceVars,
         TypeOK
<1>3. CreationState' /\ HandlerState' /\ WaitState'
  BY <1>1, TypesOfKernel
    
        DEF KernelInv, TerminalSleeps, SleepWithoutMessage, SleepMyself, Runs, inputVars,
            raceVars, CreationState, NotStarted, HandlerState, WaitState
<1>4. NoLostWakeup'
  BY <1>1, <1>2, TypesOfKernel
     DEF KernelInv, TerminalSleeps, SleepWithoutMessage, SleepMyself, Runs, inputVars,
         raceVars, NoLostWakeup
<1>5. CursorTimerOnce'
  BY <1>1, CursorUndisturbed, TypesOfKernel
     DEF TerminalSleeps, SleepWithoutMessage, SleepMyself, Runs, inputVars, raceVars
<1>6. NoUsbEventForgotten'
  BY <1>1, TypesOfKernel
     DEF KernelInv, TerminalSleeps, SleepWithoutMessage, SleepMyself, Runs, inputVars,
         raceVars, NoUsbEventForgotten
<1> QED
  BY <1>1, <1>2, <1>3, <1>4, <1>5, <1>6 DEF KernelInv

\* So does the AHCI task.
LEMMA AhciSleepsKeeps == ASSUME KernelInv, AhciSleeps PROVE KernelInv'
<1>1. /\ SP!IInv' /\ Sched!TypeOK' /\ UNCHANGED <<latestId, msgs>>
      /\ runningFlag' = [runningFlag EXCEPT ![3] = FALSE] /\ msgs[3] = << >>
  BY SleepStep DEF AhciSleeps, SleepWithoutMessage, SleepMyself, Runs
<1>2. TypeOK'
  BY <1>1, TypesOfKernel
     DEF AhciSleeps, SleepWithoutMessage, SleepMyself, Runs, inputVars, raceVars, TypeOK
<1>3. CreationState' /\ HandlerState' /\ WaitState'
  BY <1>1, TypesOfKernel
    
        DEF KernelInv, AhciSleeps, SleepWithoutMessage, SleepMyself, Runs, inputVars,
            raceVars, CreationState, NotStarted, HandlerState, WaitState
<1>4. NoLostWakeup'
  BY <1>1, <1>2, TypesOfKernel
     DEF KernelInv, AhciSleeps, SleepWithoutMessage, SleepMyself, Runs, inputVars,
         raceVars, NoLostWakeup
<1>5. CursorTimerOnce'
  BY <1>1, CursorUndisturbed, TypesOfKernel
     DEF AhciSleeps, SleepWithoutMessage, SleepMyself, Runs, inputVars, raceVars
<1>6. NoUsbEventForgotten'
  BY <1>1, TypesOfKernel
     DEF KernelInv, AhciSleeps, SleepWithoutMessage, SleepMyself, Runs, inputVars,
         raceVars, NoUsbEventForgotten
<1> QED
  BY <1>1, <1>2, <1>3, <1>4, <1>5, <1>6 DEF KernelInv

\* The window is drawn and the terminal told so.
LEMMA MainDrawsLayerKeeps == ASSUME KernelInv, MainDrawsLayer PROVE KernelInv'
<1>1. latestId = 4
  BY DEF KernelInv, CreationState, MainDrawsLayer
<1>2. /\ SP!IInv' /\ Sched!TypeOK' /\ UNCHANGED <<latestId, cpu>>
      /\ runningFlag' = [runningFlag EXCEPT ![4] = TRUE]
      /\ msgs' \in [1 .. 4 -> Seq(MessageTypes)] /\ msgs'[4] # << >>
      /\ \A u \in 1 .. 4 : u # 4 => msgs'[u] = msgs[u]
      /\ CountIn(msgs'[1], {"cursor"}) = CountIn(msgs[1], {"cursor"})
      /\ ToSet(msgs'[1]) = ToSet(msgs[1])
  BY <1>1, SendStep DEF MainDrawsLayer, MessageTypes
<1>3. TypeOK'
  BY <1>1, <1>2, TypesOfKernel DEF MainDrawsLayer, Runs, GoTo, inputVars, raceVars, TypeOK
<1>4. CreationState' /\ HandlerState' /\ WaitState'
  BY <1>1, <1>2, TypesOfKernel
    
        DEF KernelInv, MainDrawsLayer, Runs, GoTo, inputVars, raceVars, CreationState,
            NotStarted, HandlerState, WaitState
<1>5. NoLostWakeup'
  BY <1>1, <1>2, <1>3, TypesOfKernel
     DEF KernelInv, MainDrawsLayer, Runs, GoTo, inputVars, raceVars, NoLostWakeup
<1>6. CursorTimerOnce'
  BY <1>2, CursorUndisturbed, TypesOfKernel
     DEF MainDrawsLayer, Runs, GoTo, inputVars, raceVars
<1>7. NoUsbEventForgotten'
  BY <1>1, <1>2, TypesOfKernel
     DEF KernelInv, MainDrawsLayer, Runs, GoTo, inputVars, raceVars, NoUsbEventForgotten
<1> QED
  BY <1>1, <1>2, <1>3, <1>4, <1>5, <1>6, <1>7 DEF KernelInv

\* A key is passed on to the terminal, or not.
LEMMA MainDispatchesKeyKeeps == ASSUME KernelInv, MainDispatchesKey PROVE KernelInv'
<1>1. latestId = 4 /\ pc[1] = "key" /\ runningFlag[1]
  BY TypesOfKernel DEF KernelInv, CreationState, MainDispatchesKey, Runs
<1>2. /\ SP!IInv' /\ Sched!TypeOK' /\ UNCHANGED <<latestId, cpu>>
      /\ runningFlag' \in [1 .. 4 -> BOOLEAN] /\ \A u \in 1 .. 3 : runningFlag'[u] = runningFlag[u]
      /\ msgs' \in [1 .. 4 -> Seq(MessageTypes)]
      /\ \A u \in 1 .. 3 : msgs'[u] = msgs[u]
      /\ runningFlag'[4] \/ (~runningFlag[4] /\ msgs'[4] = msgs[4])
      /\ ~runningFlag[4] /\ runningFlag'[4] => pc[4] # "start"
  <2>1. CASE UNCHANGED <<schedVars, msgs>>
    BY <2>1, QuietStep, TypesOfKernel
  <2>2. CASE pc[4] # "start" /\ Send(TerminalId, "kKeyPush")
    <3>1. "kKeyPush" \in MessageTypes
      BY DEF MessageTypes
    <3>2. /\ SP!IInv' /\ Sched!TypeOK' /\ UNCHANGED <<latestId, cpu>>
          /\ runningFlag' = [runningFlag EXCEPT ![4] = TRUE]
          /\ msgs' \in [1 .. 4 -> Seq(MessageTypes)]
          /\ \A u \in 1 .. 4 : u # 4 => msgs'[u] = msgs[u]
      BY <1>1, <2>2, <3>1, SendStep
    <3> QED BY <2>2, <3>2, TypesOfKernel
  <2> QED BY <2>1, <2>2 DEF MainDispatchesKey
<1>3. pc' = [pc EXCEPT ![1] = "loop"] /\ UNCHANGED <<iflag, handler, timers, inputVars, raceVars>>
  BY DEF MainDispatchesKey, GoTo
<1>4. TypeOK'
  BY SMTT(40), <1>2, <1>3, TypesOfKernel DEF TypeOK, inputVars, raceVars
<1>5. CreationState' /\ HandlerState' /\ WaitState'
  BY SMTT(40), <1>1, <1>2, <1>3, TypesOfKernel
     DEF KernelInv, CreationState, NotStarted, HandlerState, WaitState
<1>6. NoLostWakeup'
  BY <1>1, <1>2, <1>3, <1>4, TypesOfKernel DEF KernelInv, NoLostWakeup
<1>7. CursorTimerOnce'
  BY <1>1, <1>2, <1>3, CursorUndisturbed, TypesOfKernel DEF raceVars
<1>8. NoUsbEventForgotten'
  BY <1>1, <1>2, <1>3, TypesOfKernel DEF KernelInv, NoUsbEventForgotten, inputVars
<1> QED
  BY <1>2, <1>4, <1>5, <1>6, <1>7, <1>8 DEF KernelInv

\* The terminal has made its window.
LEMMA TerminalStartsKeeps == ASSUME KernelInv, TerminalStarts PROVE KernelInv'
<1>1. SP!IInv' /\ Sched!TypeOK' /\ UNCHANGED <<latestId, runningFlag, cpu, msgs>>
  BY QuietStep DEF TerminalStarts
<1>2. TypeOK'
  BY <1>1, TypesOfKernel DEF TerminalStarts, Runs, GoTo, inputVars, raceVars, TypeOK
<1>3. CreationState' /\ HandlerState' /\ WaitState'
  BY <1>1, TypesOfKernel
    
        DEF KernelInv, TerminalStarts, Runs, GoTo, inputVars, raceVars, CreationState,
            NotStarted, HandlerState, WaitState
<1>4. NoLostWakeup'
  BY <1>1, <1>2, TypesOfKernel
     DEF KernelInv, TerminalStarts, Runs, GoTo, inputVars, raceVars, NoLostWakeup
<1>5. CursorTimerOnce'
  BY <1>1, TypesOfKernel
     DEF KernelInv, TerminalStarts, Runs, GoTo, inputVars, raceVars, CursorTimerOnce
<1>6. NoUsbEventForgotten'
  BY <1>1, TypesOfKernel
     DEF KernelInv, TerminalStarts, Runs, GoTo, inputVars, raceVars, NoUsbEventForgotten
<1> QED
  BY <1>1, <1>2, <1>3, <1>4, <1>5, <1>6 DEF KernelInv

\* The AHCI driver is initialized.
LEMMA AhciInitializedKeeps == ASSUME KernelInv, AhciInitialized PROVE KernelInv'
<1>1. SP!IInv' /\ Sched!TypeOK' /\ UNCHANGED <<latestId, runningFlag, cpu, msgs>>
  BY QuietStep DEF AhciInitialized
<1>2. TypeOK'
  BY <1>1, TypesOfKernel DEF AhciInitialized, Runs, GoTo, inputVars, raceVars, TypeOK
<1>3. CreationState' /\ HandlerState' /\ WaitState'
  BY <1>1, TypesOfKernel
    
        DEF KernelInv, AhciInitialized, Runs, GoTo, inputVars, raceVars, CreationState,
            NotStarted, HandlerState, WaitState
<1>4. NoLostWakeup'
  BY <1>1, <1>2, TypesOfKernel
     DEF KernelInv, AhciInitialized, Runs, GoTo, inputVars, raceVars, NoLostWakeup
<1>5. CursorTimerOnce'
  BY <1>1, TypesOfKernel
     DEF KernelInv, AhciInitialized, Runs, GoTo, inputVars, raceVars, CursorTimerOnce
<1>6. NoUsbEventForgotten'
  BY <1>1, TypesOfKernel
     DEF KernelInv, AhciInitialized, Runs, GoTo, inputVars, raceVars, NoUsbEventForgotten
<1> QED
  BY <1>1, <1>2, <1>3, <1>4, <1>5, <1>6 DEF KernelInv

\* Wait sets a timer.
LEMMA WaitSetsTimerKeeps == ASSUME KernelInv, WaitSetsTimer PROVE KernelInv'
<1>1. SP!IInv' /\ Sched!TypeOK' /\ UNCHANGED <<latestId, runningFlag, cpu, msgs>>
  BY QuietStep DEF WaitSetsTimer
<1>2. /\ timers' \in [Timers -> Nat] /\ timers'["cursor"] = timers["cursor"]
  BY SMTT(40), TypesOfKernel DEF WaitSetsTimer, Timers
<1>3. TypeOK'
  BY SMTT(40), <1>1, <1>2, TypesOfKernel DEF WaitSetsTimer, Runs, GoTo, inputVars, raceVars, TypeOK
<1>4. CreationState' /\ HandlerState' /\ WaitState'
  BY <1>1, <1>2, TypesOfKernel
    
        DEF KernelInv, WaitSetsTimer, Runs, GoTo, inputVars, raceVars, CreationState,
            NotStarted, HandlerState, WaitState
<1>5. NoLostWakeup'
  BY <1>1, <1>2, <1>3, TypesOfKernel
     DEF KernelInv, WaitSetsTimer, Runs, GoTo, inputVars, raceVars, NoLostWakeup
<1>6. CursorTimerOnce'
  BY <1>1, <1>2, TypesOfKernel DEF KernelInv, WaitSetsTimer, GoTo, raceVars, CursorTimerOnce
<1>7. NoUsbEventForgotten'
  BY <1>1, <1>2, TypesOfKernel
     DEF KernelInv, WaitSetsTimer, Runs, GoTo, inputVars, raceVars, NoUsbEventForgotten
<1> QED
  BY <1>1, <1>3, <1>4, <1>5, <1>6, <1>7 DEF KernelInv

\* Wait goes to sleep.
LEMMA WaitSleepsKeeps == ASSUME KernelInv, WaitSleeps PROVE KernelInv'
<1>1. /\ SP!IInv' /\ Sched!TypeOK' /\ UNCHANGED <<latestId, msgs>>
      /\ runningFlag' = [runningFlag EXCEPT ![3] = FALSE]
  BY SleepStep DEF WaitSleeps, SleepMyself, Runs
<1>2. TypeOK'
  BY <1>1, TypesOfKernel
     DEF WaitSleeps, SleepMyself, Runs, GoTo, inputVars, raceVars, TypeOK
<1>3. CreationState' /\ HandlerState' /\ WaitState'
  BY <1>1, TypesOfKernel
    
        DEF KernelInv, WaitSleeps, SleepMyself, Runs, GoTo, inputVars, raceVars,
            CreationState, NotStarted, HandlerState, WaitState
<1>4. NoLostWakeup'
  BY <1>1, <1>2, TypesOfKernel
     DEF KernelInv, WaitSleeps, SleepMyself, Runs, GoTo, inputVars, raceVars, NoLostWakeup
<1>5. CursorTimerOnce'
  BY <1>1, CursorUndisturbed, TypesOfKernel
     DEF WaitSleeps, SleepMyself, Runs, GoTo, inputVars, raceVars
<1>6. NoUsbEventForgotten'
  BY <1>1, TypesOfKernel
     DEF KernelInv, WaitSleeps, SleepMyself, Runs, GoTo, inputVars, raceVars,
         NoUsbEventForgotten
<1> QED
  BY <1>1, <1>2, <1>3, <1>4, <1>5, <1>6 DEF KernelInv

\* The terminal drops a message it does not know.
LEMMA TerminalDropsMessageKeeps == ASSUME KernelInv, TerminalDropsMessage PROVE KernelInv'
<1>1. /\ SP!IInv' /\ Sched!TypeOK' /\ UNCHANGED <<latestId, runningFlag, cpu>>
      /\ msgs' \in [1 .. 4 -> Seq(MessageTypes)]
      /\ \A u \in 1 .. 4 : u # 4 => msgs'[u] = msgs[u]
      /\ runningFlag[4]
  <2>1. cpu = 4 /\ msgs[4] # << >> /\ Receive(4) /\ UNCHANGED schedVars
    BY DEF TerminalDropsMessage, Runs
  <2> QED BY <2>1, ReceiveStep
<1>2. TypeOK'
  <2>1. iflag' \in BOOLEAN /\ UNCHANGED <<pc, handler, timers, inputVars, raceVars>>
    BY DEF TerminalDropsMessage
  <2> QED BY <1>1, <2>1, TypesOfKernel DEF TypeOK, inputVars, raceVars
<1>3. CreationState' /\ HandlerState' /\ WaitState'
  BY SMTT(40), <1>1, TypesOfKernel
    
        DEF KernelInv, TerminalDropsMessage, Runs, GoTo, inputVars, raceVars,
            CreationState, NotStarted, HandlerState, WaitState
<1>4. NoLostWakeup'
  BY SMTT(40), <1>1, <1>2, TypesOfKernel
     DEF KernelInv, TerminalDropsMessage, Runs, GoTo, inputVars, raceVars, NoLostWakeup
<1>5. CursorTimerOnce'
  BY <1>1, CursorUndisturbed, TypesOfKernel
     DEF TerminalDropsMessage, Runs, GoTo, inputVars, raceVars
<1>6. NoUsbEventForgotten'
  BY <1>1, TypesOfKernel
     DEF KernelInv, TerminalDropsMessage, Runs, GoTo, inputVars, raceVars,
         NoUsbEventForgotten
<1> QED
  BY <1>1, <1>2, <1>3, <1>4, <1>5, <1>6 DEF KernelInv

\* Wait receives the message that woke it.
LEMMA WaitReceivesKeeps == ASSUME KernelInv, WaitReceives PROVE KernelInv'
<1>1. /\ SP!IInv' /\ Sched!TypeOK' /\ UNCHANGED <<latestId, runningFlag, cpu>>
      /\ msgs' \in [1 .. 4 -> Seq(MessageTypes)]
      /\ \A u \in 1 .. 4 : u # 3 => msgs'[u] = msgs[u]
      /\ runningFlag[3]
  <2>1. cpu = 3 /\ msgs[3] # << >> /\ Receive(3) /\ UNCHANGED schedVars
    BY DEF WaitReceives, Runs
  <2> QED BY <2>1, ReceiveStep
<1>2. TypeOK'
  BY SMTT(40), <1>1, TypesOfKernel DEF WaitReceives, Runs, GoTo, inputVars, raceVars, TypeOK
<1>3. CreationState' /\ HandlerState' /\ WaitState'
  BY SMTT(40), <1>1, TypesOfKernel
    
        DEF KernelInv, WaitReceives, Runs, GoTo, inputVars, raceVars, CreationState,
            NotStarted, HandlerState, WaitState
<1>4. NoLostWakeup'
  BY SMTT(40), <1>1, <1>2, TypesOfKernel
     DEF KernelInv, WaitReceives, Runs, GoTo, inputVars, raceVars, NoLostWakeup
<1>5. CursorTimerOnce'
  BY <1>1, CursorUndisturbed, TypesOfKernel
     DEF WaitReceives, Runs, GoTo, inputVars, raceVars
<1>6. NoUsbEventForgotten'
  BY <1>1, TypesOfKernel
     DEF KernelInv, WaitReceives, Runs, GoTo, inputVars, raceVars, NoUsbEventForgotten
<1> QED
  BY <1>1, <1>2, <1>3, <1>4, <1>5, <1>6 DEF KernelInv

\* The AHCI task receives a message.
LEMMA AhciReceivesKeeps == ASSUME KernelInv, AhciReceives PROVE KernelInv'
<1>1. /\ SP!IInv' /\ Sched!TypeOK' /\ UNCHANGED <<latestId, runningFlag, cpu>>
      /\ msgs' \in [1 .. 4 -> Seq(MessageTypes)]
      /\ \A u \in 1 .. 4 : u # 3 => msgs'[u] = msgs[u]
      /\ runningFlag[3]
  <2>1. cpu = 3 /\ msgs[3] # << >> /\ Receive(3) /\ UNCHANGED schedVars
    BY DEF AhciReceives, Runs
  <2> QED BY <2>1, ReceiveStep
<1>2. TypeOK'
  BY <1>1, TypesOfKernel DEF AhciReceives, Runs, GoTo, inputVars, raceVars, TypeOK
<1>3. CreationState' /\ HandlerState' /\ WaitState'
  BY <1>1, TypesOfKernel
    
        DEF KernelInv, AhciReceives, Runs, GoTo, inputVars, raceVars, CreationState,
            NotStarted, HandlerState, WaitState
<1>4. NoLostWakeup'
  BY SMTT(40), <1>1, <1>2, TypesOfKernel
     DEF KernelInv, AhciReceives, Runs, GoTo, inputVars, raceVars, NoLostWakeup
<1>5. CursorTimerOnce'
  BY <1>1, CursorUndisturbed, TypesOfKernel
     DEF AhciReceives, Runs, GoTo, inputVars, raceVars
<1>6. NoUsbEventForgotten'
  BY <1>1, TypesOfKernel
     DEF KernelInv, AhciReceives, Runs, GoTo, inputVars, raceVars, NoUsbEventForgotten
<1> QED
  BY <1>1, <1>2, <1>3, <1>4, <1>5, <1>6 DEF KernelInv

\* The controller reports an event and asks for an interrupt.
LEMMA UsbReportsKeeps == ASSUME KernelInv, UsbReports PROVE KernelInv'
<1>1. SP!IInv' /\ Sched!TypeOK' /\ UNCHANGED <<latestId, runningFlag, cpu, msgs>>
  BY QuietStep DEF UsbReports
<1>2. /\ usbReported' \in 0 .. MaxUsbEvents /\ usbEvents' \in 0 .. usbReported'
      /\ usbIrq' = TRUE /\ usbIrq' \in BOOLEAN
      /\ UNCHANGED <<pc, iflag, handler, timers, diskIrqs, raceVars>>
  BY SMTT(40), TypesOfKernel DEF UsbReports
<1>3. TypeOK'
  BY <1>1, <1>2, TypesOfKernel DEF raceVars, TypeOK
<1>4. CreationState' /\ HandlerState' /\ WaitState'
  BY <1>1, <1>2, TypesOfKernel
     DEF KernelInv, raceVars, CreationState, NotStarted, HandlerState, WaitState
<1>5. NoLostWakeup'
  BY <1>1, <1>2, <1>3, TypesOfKernel DEF KernelInv, raceVars, NoLostWakeup
<1>6. CursorTimerOnce'
  BY <1>1, <1>2, CursorUndisturbed, TypesOfKernel DEF raceVars
<1>7. NoUsbEventForgotten'
  BY <1>1, <1>2, TypesOfKernel DEF KernelInv, raceVars, NoUsbEventForgotten
<1> QED
  BY <1>1, <1>3, <1>4, <1>5, <1>6, <1>7 DEF KernelInv

\* The interrupt of the xHCI controller tells the main task of its events.
LEMMA XhciInterruptKeeps == ASSUME KernelInv, XhciInterrupt PROVE KernelInv'
<1>1. /\ SP!IInv' /\ Sched!TypeOK' /\ UNCHANGED <<latestId, cpu>>
      /\ runningFlag' = [runningFlag EXCEPT ![1] = TRUE]
      /\ msgs' \in [1 .. 4 -> Seq(MessageTypes)] /\ msgs'[1] # << >>
      /\ \A u \in 1 .. 4 : u # 1 => msgs'[u] = msgs[u]
      /\ CountIn(msgs'[1], {"cursor"}) = CountIn(msgs[1], {"cursor"})
      /\ ToSet(msgs'[1]) = ToSet(msgs[1]) \cup {"kInterruptXHCI"}
  <2>1. "kInterruptXHCI" \in MessageTypes /\ "kInterruptXHCI" # "cursor"
    BY DEF MessageTypes
  <2>2. MainId <= latestId /\ Send(MainId, "kInterruptXHCI")
    BY TypesOfKernel DEF XhciInterrupt
  <2> QED BY SMTT(40), <2>1, <2>2, SendStep
<1>2. usbIrq' \in BOOLEAN /\ usbEvents \in 0 .. usbReported
  <2>1. usbIrq' \in BOOLEAN
    BY DEF XhciInterrupt
  <2> QED BY <2>1, TypesOfKernel
<1>3. runningFlag'[1] /\ \A u \in 1 .. 4 : u # 1 => runningFlag'[u] = runningFlag[u]
  BY <1>1, TypesOfKernel
<1>4. TypeOK'
  BY <1>1, <1>2, <1>3, TypesOfKernel DEF XhciInterrupt, raceVars, TypeOK
<1>5. CreationState' /\ HandlerState' /\ WaitState'
  BY SMTT(40), <1>1, <1>2, <1>3, TypesOfKernel
    
        DEF KernelInv, XhciInterrupt, raceVars, CreationState, NotStarted, HandlerState,
            WaitState
<1>6. NoLostWakeup'
  BY SMTT(40), <1>1, <1>2, <1>3, <1>4, TypesOfKernel
     DEF KernelInv, XhciInterrupt, raceVars, NoLostWakeup
<1>7. CursorTimerOnce'
  BY <1>1, CursorUndisturbed, TypesOfKernel DEF XhciInterrupt, raceVars
<1>8. NoUsbEventForgotten'
  BY <1>1, <1>2, <1>3, TypesOfKernel
     DEF KernelInv, XhciInterrupt, raceVars, NoUsbEventForgotten
<1> QED
  BY <1>1, <1>4, <1>5, <1>6, <1>7, <1>8 DEF KernelInv

\* The interrupt of the AHCI controller goes to its task, which is in its loop.
LEMMA AhciInterruptKeeps == ASSUME KernelInv, AhciInterrupt PROVE KernelInv'
<1>1. 3 <= latestId
  BY TypesOfKernel DEF KernelInv, CreationState, NotStarted, AhciInterrupt
<1>2. /\ SP!IInv' /\ Sched!TypeOK' /\ UNCHANGED <<latestId, cpu>>
      /\ runningFlag' = [runningFlag EXCEPT ![3] = TRUE]
      /\ msgs' \in [1 .. 4 -> Seq(MessageTypes)] /\ msgs'[3] # << >>
      /\ \A u \in 1 .. 4 : u # 3 => msgs'[u] = msgs[u]
      /\ CountIn(msgs'[1], {"cursor"}) = CountIn(msgs[1], {"cursor"})
      /\ ToSet(msgs'[1]) = ToSet(msgs[1])
  BY <1>1, SendStep DEF AhciInterrupt, MessageTypes
<1>3. diskIrqs' \in 0 .. MaxDiskInterrupts /\ usbEvents \in 0 .. usbReported
  BY TypesOfKernel DEF AhciInterrupt
<1>4. runningFlag'[3] /\ \A u \in 1 .. 4 : u # 3 => runningFlag'[u] = runningFlag[u]
  BY <1>2, TypesOfKernel
<1>5. TypeOK'
  BY <1>1, <1>2, <1>3, <1>4, TypesOfKernel DEF AhciInterrupt, inputVars, raceVars, TypeOK
<1>6. CreationState' /\ HandlerState' /\ WaitState'
  BY <1>1, <1>2, <1>3, <1>4, TypesOfKernel
    
        DEF KernelInv, AhciInterrupt, inputVars, raceVars, CreationState, NotStarted,
            HandlerState, WaitState
<1>7. NoLostWakeup'
  BY SMTT(40), <1>1, <1>2, <1>3, <1>4, <1>5, TypesOfKernel
     DEF KernelInv, AhciInterrupt, inputVars, raceVars, NoLostWakeup
<1>8. CursorTimerOnce'
  BY <1>2, CursorUndisturbed, TypesOfKernel DEF AhciInterrupt, inputVars, raceVars
<1>9. NoUsbEventForgotten'
  BY <1>1, <1>2, <1>3, <1>4, TypesOfKernel
     DEF KernelInv, AhciInterrupt, inputVars, raceVars, NoUsbEventForgotten
<1> QED
  BY <1>1, <1>2, <1>3, <1>4, <1>5, <1>6, <1>7, <1>8, <1>9 DEF KernelInv

\* The timers in due expire.
LEMMA TimerTickKeeps ==
  ASSUME KernelInv, NEW due \in SUBSET Timers, NEW switch \in BOOLEAN, TimerTick(due, switch)
  PROVE  KernelInv'
<1>1. SP!IInv' /\ Sched!TypeOK' /\ UNCHANGED <<latestId, runningFlag, cpu, msgs>>
  BY QuietStep DEF TimerTick
<1>2. /\ timers' \in [Timers -> Nat]
      /\ \A x \in Timers : /\ timers[x] \in Nat
                           /\ timers'[x] = IF x \in due THEN timers[x] - 1 ELSE timers[x]
      /\ \A x \in due : timers[x] > 0
  <2>1. /\ timers' = [x \in Timers |-> IF x \in due THEN timers[x] - 1 ELSE timers[x]]
        /\ \A x \in due : timers[x] > 0
    BY DEF TimerTick
  <2>2. timers \in [Timers -> Nat]
    BY TypesOfKernel
  <2>3. \A x \in Timers : /\ timers[x] \in Nat
                          /\ (IF x \in due THEN timers[x] - 1 ELSE timers[x]) \in Nat
    BY <2>1, <2>2
  <2> QED BY <2>1, <2>3
<1>3. /\ ~handler.active /\ handler.due = {} /\ handler'.active /\ handler'.due = due
      /\ handler' \in [active : BOOLEAN, due : SUBSET Timers, switch : BOOLEAN]
      /\ UNCHANGED <<pc, iflag, inputVars, raceVars>>
  BY DEF TimerTick, InterruptsOn, KernelInv, HandlerState
<1>4. "cursor" \in Timers /\ "wait" \in Timers
  BY DEF Timers
<1>5. TypeOK'
  BY SMTT(40), <1>1, <1>2, <1>3, <1>4, TypesOfKernel DEF inputVars, raceVars, TypeOK
<1>6. CreationState' /\ HandlerState' /\ WaitState'
  BY SMTT(40), <1>1, <1>2, <1>3, <1>4, TypesOfKernel
     DEF KernelInv, inputVars, raceVars, CreationState, NotStarted, HandlerState, WaitState
<1>7. NoLostWakeup'
  BY <1>1, <1>2, <1>3, <1>4, <1>5, TypesOfKernel
     DEF KernelInv, inputVars, raceVars, NoLostWakeup
<1>8. CursorTimerOnce'
  <2>1. torn' = torn /\ UNCHANGED <<msgs, pc>>
    BY <1>1, <1>3 DEF raceVars
  <2>2. CountIn(msgs[1], {"cursor"}) \in Nat /\ CursorTimerOnce
    BY TypesOfKernel, CountType DEF KernelInv
  <2> QED BY <1>2, <1>3, <1>4, <2>1, <2>2 DEF CursorTimerOnce
<1>9. NoUsbEventForgotten'
  BY <1>1, <1>2, <1>3, <1>4, TypesOfKernel
     DEF KernelInv, inputVars, raceVars, NoUsbEventForgotten
<1> QED
  BY <1>1, <1>5, <1>6, <1>7, <1>8, <1>9 DEF KernelInv

\* The handler sends the message of a timer that has expired.
LEMMA TimerSendsKeeps == ASSUME KernelInv, NEW x \in Timers, TimerSends(x) PROVE KernelInv'
<1>1. x \in {"cursor", "wait"} /\ x \in MessageTypes /\ x \in handler.due /\ handler.active
  BY DEF Timers, MessageTypes, TimerSends
<1>2. /\ Owner[x] = IF x = "cursor" THEN 1 ELSE 3
      /\ Owner[x] \in {MainId, AhciId} /\ Owner[x] <= latestId
  <2>1. Owner[x] = IF x = "cursor" THEN 1 ELSE 3
    BY <1>1 DEF Owner
  <2>2. x = "wait" => 3 <= latestId
    BY <1>1, TypesOfKernel DEF KernelInv, CreationState, NotStarted
  <2> QED BY <1>1, <2>1, <2>2, TypesOfKernel
<1>3. /\ SP!IInv' /\ Sched!TypeOK' /\ UNCHANGED <<latestId, cpu>>
      /\ runningFlag' = [runningFlag EXCEPT ![Owner[x]] = TRUE]
      /\ msgs' \in [1 .. 4 -> Seq(MessageTypes)] /\ msgs'[Owner[x]] # << >>
      /\ \A u \in 1 .. 4 : u # Owner[x] => msgs'[u] = msgs[u]
      /\ CountIn(msgs[MainId], {"cursor"}) \in Nat
      /\ CountIn(msgs'[MainId], {"cursor"})
           = CountIn(msgs[MainId], {"cursor"})
             + (IF Owner[x] = MainId /\ x = "cursor" THEN 1 ELSE 0)
      /\ ToSet(msgs'[MainId])
           = ToSet(msgs[MainId]) \cup (IF Owner[x] = MainId THEN {x} ELSE {})
  <2>1. Owner[x] \in {MainId, AhciId, TerminalId} /\ Send(Owner[x], x)
    BY <1>2 DEF TimerSends
  <2> QED BY <1>1, <1>2, <2>1, SendStep
<1>4. /\ runningFlag' \in [1 .. 4 -> BOOLEAN]
      /\ runningFlag'[Owner[x]]
      /\ \A u \in 1 .. 4 : u # Owner[x] => runningFlag'[u] = runningFlag[u]
  <2>1. Owner[x] \in 1 .. 4 /\ runningFlag \in [1 .. 4 -> BOOLEAN]
    BY <1>2, TypesOfKernel
  <2> QED BY <1>3, <2>1
<1>5. /\ handler' \in [active : BOOLEAN, due : SUBSET Timers, switch : BOOLEAN]
      /\ handler'.active /\ handler'.due = handler.due \ {x}
      /\ UNCHANGED <<pc, iflag, timers, inputVars, raceVars>>
  BY <1>1, TypesOfKernel DEF TimerSends
<1>6. TypeOK'
  BY SMTT(40), <1>3, <1>5, TypesOfKernel DEF TypeOK, inputVars, raceVars
<1>7. CreationState' /\ HandlerState' /\ WaitState'
  <2>1. HandlerState' /\ WaitState'
    <3>1. CASE Owner[x] = 3
      BY <1>3, <1>5, <3>1 DEF HandlerState, WaitState
    <3>2. CASE Owner[x] # 3
      BY <1>3, <1>4, <1>5, <3>2 DEF KernelInv, HandlerState, WaitState
    <3> QED BY <3>1, <3>2
  <2>2. Owner[x] = 3 => ~NotStarted(3)
    BY <1>1, <1>2, TypesOfKernel DEF KernelInv, CreationState
  <2>3. \A u \in {3, 4} : NotStarted(u)' => NotStarted(u) /\ runningFlag'[u] = runningFlag[u]
    <3>1. ASSUME NEW u \in {3, 4}, NotStarted(u)' PROVE NotStarted(u)
      BY <1>3, <1>5, <3>1 DEF NotStarted
    <3>2. ASSUME NEW u \in {3, 4}, NotStarted(u) PROVE u # Owner[x] /\ u \in 1 .. 4
      BY <1>2, <2>2, <3>2
    <3> QED BY <1>4, <3>1, <3>2
  <2>4. "wait" \in handler'.due => "wait" \in handler.due
    BY <1>5
  <2>5. CreationState /\ UNCHANGED <<pc, timers, latestId>>
    BY <1>3, <1>5 DEF KernelInv
  <2>6. CreationState'
    BY <2>3, <2>4, <2>5 DEF CreationState
  <2> QED BY <2>1, <2>6
<1>8. NoLostWakeup'
  BY SMTT(40), <1>1, <1>2, <1>3, <1>4, <1>5, <1>6, TypesOfKernel DEF KernelInv, NoLostWakeup
<1>9. CursorTimerOnce'
  <2>1. UNCHANGED <<torn, timers, pc>> /\ CursorTimerOnce /\ timers["cursor"] \in Nat
    BY <1>5, TypesOfKernel DEF raceVars, KernelInv, Timers
  <2>2. CASE x = "cursor"
    BY <1>1, <1>2, <1>3, <1>5, <2>1, <2>2 DEF CursorTimerOnce
  <2>3. CASE x # "cursor"
    BY <1>1, <1>2, <1>3, <1>5, <2>1, <2>3 DEF CursorTimerOnce
  <2> QED BY <2>2, <2>3
<1>10. NoUsbEventForgotten'
  BY <1>3, <1>5, TypesOfKernel DEF KernelInv, NoUsbEventForgotten, inputVars
<1> QED
  BY <1>3, <1>6, <1>7, <1>8, <1>9, <1>10 DEF KernelInv

\* The handler ends, with a switch of the task or without.
LEMMA TimerEndsKeeps == ASSUME KernelInv, TimerEnds PROVE KernelInv'
<1>1. SP!IInv' /\ Sched!TypeOK' /\ UNCHANGED <<latestId, runningFlag, msgs>>
  <2>1. CASE handler.switch
    <3>1. SP!IInv' /\ UNCHANGED <<latestId, runningFlag, msgs>>
      BY <2>1, TaskSwitched DEF KernelInv, TimerEnds
    <3>2. Sched!TypeOK'
      BY <3>1, SchedulerTypeOK, PTL
    <3> QED BY <3>1, <3>2
  <2>2. CASE ~handler.switch
    BY <2>2, QuietStep DEF TimerEnds
  <2> QED BY <2>1, <2>2
<1>2. /\ handler.due = {} /\ handler'.due = {} /\ ~handler'.active
      /\ handler' \in [active : BOOLEAN, due : SUBSET Timers, switch : BOOLEAN]
      /\ UNCHANGED <<pc, iflag, timers, inputVars, raceVars>>
  BY DEF TimerEnds, NoHandler
<1>3. TypeOK'
  BY <1>1, <1>2, TypesOfKernel DEF inputVars, raceVars, TypeOK
<1>4. CreationState' /\ HandlerState' /\ WaitState'
  BY <1>1, <1>2, TypesOfKernel
     DEF KernelInv, inputVars, raceVars, CreationState, NotStarted, HandlerState, WaitState
<1>5. NoLostWakeup'
  BY <1>1, <1>2, <1>3, TypesOfKernel DEF KernelInv, inputVars, raceVars, NoLostWakeup
<1>6. CursorTimerOnce'
  BY <1>1, <1>2, TypesOfKernel DEF KernelInv, inputVars, raceVars, CursorTimerOnce
<1>7. NoUsbEventForgotten'
  BY <1>1, <1>2, TypesOfKernel DEF KernelInv, inputVars, raceVars, NoUsbEventForgotten
<1> QED
  BY <1>1, <1>3, <1>4, <1>5, <1>6, <1>7 DEF KernelInv

\* Whatever an interrupted push leaves in the queue, it is a queue of messages.
LEMMA TornQueuesType ==
  ASSUME msgs \in [1 .. 4 -> Seq(MessageTypes)], pushAt \in Nat, Len(msgs[MainId]) > pushAt
  PROVE  TornQueues \subseteq Seq(MessageTypes)
<1> DEFINE q     == msgs[1]
           base  == SubSeq(q, 1, pushAt)
           later == SubSeq(q, pushAt + 1, Len(q))
           mixed == {<<"kKeyPush">> \o Tail(later), later}
<1>1. q \in Seq(MessageTypes) /\ Len(q) \in Nat /\ pushAt < Len(q)
  BY LenProperties
<1>2. base \in Seq(MessageTypes)
  BY <1>1, StretchOfQueue
<1>3. later \in Seq(MessageTypes) /\ Len(later) = Len(q) - pushAt
  <2> DEFINE a == pushAt + 1
             b == Len(q)
  <2>1. a \in Nat /\ b \in Nat /\ 1 <= a /\ b <= Len(q) /\ a <= b + 1 /\ b - a + 1 = Len(q) - pushAt
    BY <1>1
  <2> HIDE DEF a, b, q
  <2>2. SubSeq(q, a, b) \in Seq(MessageTypes) /\ Len(SubSeq(q, a, b)) = b - a + 1
    BY <1>1, <2>1, StretchOfQueue
  <2> QED BY <2>1, <2>2 DEF a, b
<1>4. later # << >>
  <2> HIDE DEF later, q
  <2> QED BY <1>1, <1>3, EmptySeq
<1>5. <<"kKeyPush">> \o Tail(later) \in Seq(MessageTypes) /\ <<"kKeyPush">> \o Tail(later) # << >>
  <2>1. Tail(later) \in Seq(MessageTypes)
    BY <1>3, <1>4, QueueShrinks
  <2>2. "kKeyPush" \in MessageTypes
    BY DEF MessageTypes
  <2> HIDE DEF later
  <2> QED BY <2>1, <2>2, PushFrontOfQueue
<1> DEFINE A == {Append(base, Head(l)) : l \in mixed}
           B == UNION {{base \o l \o <<m>> : m \in MessageTypes} : l \in mixed}
<1>6. TornQueues = A \cup B
  BY DEF TornQueues
<1> HIDE DEF q, base, later, A, B
<1>7. \A l \in mixed : l \in Seq(MessageTypes) /\ Head(l) \in MessageTypes
  BY <1>3, <1>4, <1>5, HeadInSet
<1> HIDE DEF mixed
<1>8. \A l \in mixed : Append(base, Head(l)) \in Seq(MessageTypes)
  BY <1>2, <1>7, AppendProperties
<1>9. \A l \in mixed, m \in MessageTypes : base \o l \o <<m>> \in Seq(MessageTypes)
  BY <1>2, <1>7, ConcatProperties
<1>10. A \subseteq Seq(MessageTypes)
  BY <1>8 DEF A
<1>11. B \subseteq Seq(MessageTypes)
  <2>1. \A l \in mixed : {base \o l \o <<m>> : m \in MessageTypes} \subseteq Seq(MessageTypes)
    BY <1>9
  <2> QED BY <2>1 DEF B
<1> QED
  BY <1>6, <1>10, <1>11

\* The observer's push, torn or not.
LEMMA ObserverPushesKeeps == ASSUME KernelInv, ObserverPushes PROVE KernelInv'
<1>1. /\ pc[1] = "pushing" /\ runningFlag[1] /\ msgs[1] \in Seq(MessageTypes)
      /\ pc' = [pc EXCEPT ![1] = "xhci"] /\ pushAt' = 0
      /\ UNCHANGED <<iflag, handler, timers, inputVars>>
  BY TypesOfKernel DEF ObserverPushes, Runs, GoTo
<1>2. /\ SP!IInv' /\ Sched!TypeOK' /\ UNCHANGED <<latestId, cpu>>
      /\ runningFlag' = [runningFlag EXCEPT ![1] = TRUE]
      /\ msgs' \in [1 .. 4 -> Seq(MessageTypes)]
      /\ \A u \in 1 .. 4 : u # 1 => msgs'[u] = msgs[u]
      /\ torn' \in BOOLEAN
      /\ \/ torn'
         \/ torn' = torn /\ CountIn(msgs'[1], {"cursor"}) = CountIn(msgs[1], {"cursor"})
  <2>1. CASE Send(MainId, "kKeyPush") /\ UNCHANGED torn
    <3>1. "kKeyPush" \in MessageTypes /\ "kKeyPush" # "cursor"
      BY DEF MessageTypes
    <3>2. MainId <= latestId
      BY TypesOfKernel
    <3> QED BY SMTT(40), <2>1, <3>1, <3>2, SendStep, TypesOfKernel
  <2>2. CASE /\ Len(msgs[MainId]) > pushAt
             /\ \E q \in TornQueues : msgs' = [msgs EXCEPT ![MainId] = q]
             /\ torn' = TRUE
             /\ UNCHANGED schedVars
    <3>1. PICK q \in TornQueues : msgs' = [msgs EXCEPT ![1] = q]
      BY <2>2
    <3>2. q \in Seq(MessageTypes)
      BY <2>2, TornQueuesType, TypesOfKernel
    <3>3. msgs' \in [1 .. 4 -> Seq(MessageTypes)] /\ \A u \in 1 .. 4 : u # 1 => msgs'[u] = msgs[u]
      BY <3>1, <3>2, TypesOfKernel
    <3>4. SP!IInv' /\ UNCHANGED <<latestId, cpu, runningFlag>>
      BY <2>2, <3>3, QueuesUntouched DEF KernelInv, schedVars
    <3>5. Sched!TypeOK'
      BY <3>4, SchedulerTypeOK, PTL
    <3>6. runningFlag' = [runningFlag EXCEPT ![1] = TRUE]
      BY <1>1, <3>4, TypesOfKernel
    <3> QED BY <2>2, <3>3, <3>4, <3>5, <3>6
  <2> QED BY <2>1, <2>2 DEF ObserverPushes
<1>3. TypeOK'
  BY SMTT(40), <1>1, <1>2, TypesOfKernel DEF TypeOK, inputVars
<1>4. CreationState' /\ HandlerState' /\ WaitState'
  BY SMTT(40), <1>1, <1>2, TypesOfKernel
     DEF KernelInv, CreationState, NotStarted, HandlerState, WaitState
<1>5. NoLostWakeup'
  BY <1>1, <1>2, <1>3, TypesOfKernel DEF KernelInv, NoLostWakeup
<1>6. CursorTimerOnce'
  <2>1. CASE torn'
    BY <2>1 DEF CursorTimerOnce
  <2>2. CASE torn' = torn /\ CountIn(msgs'[1], {"cursor"}) = CountIn(msgs[1], {"cursor"})
    BY <1>1, <2>2, CursorUndisturbed, TypesOfKernel
  <2> QED BY <1>2, <2>1, <2>2
<1>7. NoUsbEventForgotten'
  BY <1>1, TypesOfKernel DEF NoUsbEventForgotten
<1> QED
  BY <1>2, <1>3, <1>4, <1>5, <1>6, <1>7 DEF KernelInv

\* The terminal takes a key and asks the main task to draw.
LEMMA TerminalTakesKeyKeeps == ASSUME KernelInv, TerminalTakesKey PROVE KernelInv'
<1>1. /\ runningFlag[4] /\ msgs[4] # << >> /\ cpu = 4
      /\ msgs \in [1 .. 4 -> Seq(MessageTypes)]
      /\ msgs' = [msgs EXCEPT ![4] = Tail(@), ![1] = Append(@, "kLayer")]
      /\ Sched!WakeupTask(MainId, -1) /\ iflag' \in BOOLEAN
      /\ UNCHANGED <<latestId, cpu, pc, handler, timers, inputVars, raceVars>>
  BY TypesOfKernel DEF TerminalTakesKey, Runs
<1>2. Tail(msgs[4]) \in Seq(MessageTypes)
  BY <1>1, QueueShrinks
<1>3. "kLayer" \in MessageTypes /\ "kLayer" # "cursor"
  BY DEF MessageTypes
<1>4. /\ Append(msgs[1], "kLayer") \in Seq(MessageTypes)
      /\ CountIn(Append(msgs[1], "kLayer"), {"cursor"}) = CountIn(msgs[1], {"cursor"})
      /\ ToSet(Append(msgs[1], "kLayer")) = ToSet(msgs[1]) \cup {"kLayer"}
  <2>1. msgs[1] \in Seq(MessageTypes)
    BY <1>1
  <2>2. /\ Append(msgs[1], "kLayer") \in Seq(MessageTypes)
        /\ CountIn(msgs[1], {"cursor"}) \in Nat
        /\ CountIn(Append(msgs[1], "kLayer"), {"cursor"})
             = CountIn(msgs[1], {"cursor"}) + (IF "kLayer" = "cursor" THEN 1 ELSE 0)
        /\ ToSet(Append(msgs[1], "kLayer")) = ToSet(msgs[1]) \cup {"kLayer"}
    BY <1>3, <2>1, QueueGrows
  <2> QED BY <2>2
<1>5. /\ msgs' \in [1 .. 4 -> Seq(MessageTypes)]
      /\ msgs'[1] = Append(msgs[1], "kLayer") /\ msgs'[3] = msgs[3]
  <2> DEFINE a == Tail(msgs[4])
             b == Append(msgs[1], "kLayer")
  <2>1. msgs' = [msgs EXCEPT ![4] = a, ![1] = b]
    BY <1>1
  <2>2. a \in Seq(MessageTypes) /\ b \in Seq(MessageTypes)
    BY <1>2, <1>4
  <2>3. msgs \in [1 .. 4 -> Seq(MessageTypes)]
    BY <1>1
  <2> HIDE DEF a, b
  <2>4. msgs' \in [1 .. 4 -> Seq(MessageTypes)] /\ msgs'[1] = b /\ msgs'[3] = msgs[3]
    <3>2. msgs'[1] = b
      BY <2>1, <2>3
    <3>3. msgs'[2] = msgs[2] /\ msgs'[3] = msgs[3]
      BY <2>1, <2>3
    <3>4. msgs'[4] = a
      BY <2>1, <2>3
    <3>5. msgs' = [u \in 1 .. 4 |-> msgs'[u]]
      BY <2>1, <2>3
    <3>6. \A u \in 1 .. 4 : msgs'[u] \in Seq(MessageTypes)
      BY <2>2, <2>3, <3>2, <3>3, <3>4
    <3> QED BY <3>2, <3>3, <3>5, <3>6
  <2> QED BY <2>4 DEF b
<1>6. SP!IInv' /\ runningFlag' = [runningFlag EXCEPT ![1] = TRUE]
  <2>1. MainId <= latestId
    BY TypesOfKernel
  <2> QED BY <1>1, <1>5, <2>1, TaskWoken DEF KernelInv
<1>7. Sched!TypeOK'
  BY <1>6, SchedulerTypeOK, PTL
<1>8. runningFlag'[1] /\ runningFlag'[3] = runningFlag[3] /\ runningFlag'[4]
  BY <1>1, <1>6, TypesOfKernel
<1>9. TypeOK'
  <2>1. iflag' \in BOOLEAN /\ UNCHANGED <<pc, handler, timers, inputVars, raceVars>>
    BY <1>1
  <2>2. msgs' \in [1 .. 4 -> Seq(MessageTypes)]
    BY <1>5
  <2> QED BY <1>7, <2>1, <2>2, TypesOfKernel DEF TypeOK, inputVars, raceVars
<1>10. CreationState' /\ HandlerState' /\ WaitState'
  BY <1>1, <1>5, <1>8, TypesOfKernel
     DEF KernelInv, CreationState, NotStarted, HandlerState, WaitState
<1>11. NoLostWakeup'
  BY <1>1, <1>5, <1>8, <1>9, TypesOfKernel DEF KernelInv, NoLostWakeup
<1>12. CursorTimerOnce'
  BY <1>1, <1>4, <1>5, CursorUndisturbed DEF raceVars
<1>13. NoUsbEventForgotten'
  BY <1>1, <1>4, <1>5 DEF KernelInv, NoUsbEventForgotten, inputVars
<1> QED
  BY <1>6, <1>9, <1>10, <1>11, <1>12, <1>13 DEF KernelInv

----------------------------------------------------------------------------
\* The invariant holds when the main task starts.
LEMMA InitKernelInv == Init => KernelInv
<1> SUFFICES ASSUME Init PROVE KernelInv
  OBVIOUS
<1>1. SP!IInv
  <2>1. SP!Init
    BY SameScheduler DEF Init
  <2> QED BY <2>1, SP!InitIInv, SchedulerAssumptions
<1>2. /\ latestId = 2 /\ msgs = [t \in 1 .. 4 |-> << >>]
      /\ \A t \in {1, 3, 4} : runningFlag[t] <=> t = 1
  <2>1. /\ latestId = 2 /\ msgs = [t \in 1 .. 4 |-> << >>]
        /\ runningFlag = [t \in 1 .. 4 |-> t \in {1, 2}]
    BY DEF Init, Sched!Init, Sched!TaskIds, Sched!MainId, Sched!IdleId
  <2>2. runningFlag[1] /\ ~runningFlag[3] /\ ~runningFlag[4]
    <3>1. {1, 3, 4} \subseteq 1 .. 4 /\ 1 \in {1, 2} /\ 3 \notin {1, 2} /\ 4 \notin {1, 2}
      OBVIOUS
    <3>2. /\ runningFlag[1] = (1 \in {1, 2}) /\ runningFlag[3] = (3 \in {1, 2})
          /\ runningFlag[4] = (4 \in {1, 2})
      BY <2>1, <3>1, Zenon
    <3> QED BY <3>1, <3>2, Zenon
  <2> QED BY <2>1, <2>2
<1>3. /\ pc \in [1 .. 4 -> {"create", "start", "initialize", "hlt"}]
      /\ pc[1] = "create" /\ pc[3] = "initialize" /\ pc[4] = "start"
      /\ handler = NoHandler /\ timers = [cursor |-> 1, wait |-> 0]
      /\ usbEvents = 0 /\ iflag = TRUE
  BY DEF Init
<1>4. TypeOK
  <2>1. Sched!TypeOK /\ msgs \in [1 .. 4 -> Seq(MessageTypes)]
    BY <1>1, SchedulerTypeOK, SchedulerTypes
  <2>2. handler \in [active : BOOLEAN, due : SUBSET Timers, switch : BOOLEAN]
    BY <1>3 DEF NoHandler
  <2>3. timers \in [Timers -> Nat]
    BY <1>3 DEF Timers
  <2>4. pc \in [1 .. 4 -> {"create", "wake", "loop", "xhci", "push", "pushing", "cursor",
                         "key", "layer", "start", "initialize", "waitSleep",
                         "waitReceive", "hlt"}]
    BY <1>3
  <2>5. /\ iflag \in BOOLEAN
        /\ usbEvents \in 0 .. usbReported /\ usbReported \in 0 .. MaxUsbEvents
        /\ usbIrq \in BOOLEAN /\ diskIrqs \in 0 .. MaxDiskInterrupts
        /\ pushAt \in Nat /\ torn \in BOOLEAN
    <3>1. /\ iflag = TRUE /\ usbEvents = 0 /\ usbReported = 0 /\ usbIrq = FALSE
          /\ diskIrqs = 0 /\ pushAt = 0 /\ torn = FALSE
      BY DEF Init
    <3>2. 0 \in 0 .. MaxUsbEvents /\ 0 \in 0 .. MaxDiskInterrupts
      BY InputAssumption
    <3>3. iflag \in BOOLEAN /\ usbIrq \in BOOLEAN /\ torn \in BOOLEAN
      BY <3>1
    <3>4. /\ usbEvents \in 0 .. usbReported /\ usbReported \in 0 .. MaxUsbEvents
          /\ diskIrqs \in 0 .. MaxDiskInterrupts /\ pushAt \in Nat
      <4>1. 0 \in 0 .. 0 /\ 0 \in Nat
        OBVIOUS
      <4> QED BY <3>1, <3>2, <4>1, Zenon
    <3> QED BY <3>3, <3>4
  <2> QED BY <2>1, <2>2, <2>3, <2>4, <2>5 DEF TypeOK
<1>5. CreationState /\ HandlerState /\ WaitState
  BY <1>2, <1>3 DEF CreationState, NotStarted, HandlerState, WaitState, NoHandler
<1>6. NoLostWakeup
  BY <1>2, <1>4 DEF NoLostWakeup
<1>7. CursorTimerOnce
  <2>1. CountIn(msgs[1], {"cursor"}) = 0
    BY <1>2, CountEmpty
  <2>2. timers["cursor"] = 1 /\ handler.due = {} /\ pc[1] # "cursor"
    BY <1>3 DEF NoHandler
  <2> QED BY <2>1, <2>2 DEF CursorTimerOnce
<1>8. NoUsbEventForgotten
  BY <1>3 DEF NoUsbEventForgotten
<1> QED
  BY <1>1, <1>4, <1>5, <1>6, <1>7, <1>8 DEF KernelInv

\* No step of a task or an interrupt handler breaks the invariant.
LEMMA NextKeepsKernelInv == KernelInv /\ [Next]_vars => KernelInv'
<1> SUFFICES ASSUME KernelInv, [Next]_vars PROVE KernelInv'
  OBVIOUS
<1>1. CASE MainStep
  BY <1>1, MainCreatesTaskKeeps, MainWakesTaskKeeps, MainReceivesKeeps, ProcessEventsKeeps,
     ObserverStartsKeeps, ObserverPushesKeeps, MainBlinksKeeps, MainDispatchesKeyKeeps,
     MainDrawsLayerKeeps DEF MainStep
<1>2. CASE TerminalStep
  BY <1>2, TerminalStartsKeeps, TerminalSleepsKeeps, TerminalTakesKeyKeeps,
     TerminalDropsMessageKeeps DEF TerminalStep
<1>3. CASE AhciStep
  BY <1>3, WaitSetsTimerKeeps, WaitSleepsKeeps, WaitReceivesKeeps, AhciInitializedKeeps,
     AhciSleepsKeeps, AhciReceivesKeeps DEF AhciStep
<1>4. CASE MainSleeps
  BY <1>4, MainSleepsKeeps
<1>5. CASE UsbReports \/ XhciInterrupt \/ AhciInterrupt \/ TimerEnds
  BY <1>5, UsbReportsKeeps, XhciInterruptKeeps, AhciInterruptKeeps, TimerEndsKeeps
<1>6. ASSUME NEW due \in SUBSET Timers, NEW switch \in BOOLEAN, TimerTick(due, switch)
      PROVE  KernelInv'
  BY <1>6, TimerTickKeeps
<1>7. ASSUME NEW x \in Timers, TimerSends(x) PROVE KernelInv'
  BY <1>7, TimerSendsKeeps
<1>8. CASE UNCHANGED vars
  <2>1. UNCHANGED schedVars /\ UNCHANGED msgs
    BY <1>8 DEF vars
  <2>2. SP!IInv' /\ Sched!TypeOK' /\ UNCHANGED <<latestId, runningFlag, cpu, msgs>>
    BY <2>1, QuietStep
  <2>3. UNCHANGED <<pc, iflag, handler, timers, inputVars, pushAt, torn>>
    BY <1>8 DEF vars
  <2>4. TypeOK'
    BY <2>2, <2>3 DEF KernelInv, TypeOK, inputVars
  <2>5. CreationState' /\ HandlerState' /\ WaitState' /\ NoLostWakeup'
    BY <2>2, <2>3, <2>4
       DEF KernelInv, CreationState, NotStarted, HandlerState, WaitState, NoLostWakeup
  <2>6. CursorTimerOnce' /\ NoUsbEventForgotten'
    BY <2>2, <2>3 DEF KernelInv, CursorTimerOnce, NoUsbEventForgotten, inputVars
  <2> QED BY <2>2, <2>4, <2>5, <2>6 DEF KernelInv
<1> QED
  BY <1>1, <1>2, <1>3, <1>4, <1>5, <1>6, <1>7, <1>8 DEF Next

\* The message loops, the handlers and the task manager keep to the invariant together.
THEOREM AlwaysKernelInv == Spec => []KernelInv
<1> QED
  BY InitKernelInv, NextKeepsKernelInv, PTL DEF Spec

\* No task that sleeps in its message loop has a message: SendMessage wakes it, and it
\* looks at its queue and goes to sleep with interrupts disabled.
THEOREM NoWakeupIsLost == Spec => []NoLostWakeup
<1>1. KernelInv => NoLostWakeup
  BY DEF KernelInv
<1> QED
  BY <1>1, AlwaysKernelInv, PTL

\* The cursor timer is set, expired, on its way or being set again: one of these, until a
\* push of the keyboard observer is torn.
THEOREM CursorTimerAlwaysOnce == Spec => []CursorTimerOnce
<1>1. KernelInv => CursorTimerOnce
  BY DEF KernelInv
<1> QED
  BY <1>1, AlwaysKernelInv, PTL

\* AHCIController's Wait, which reads a message without testing for one, always finds one.
THEOREM WaitAlwaysFindsMessage == Spec => []WaitFindsMessage
<1>1. KernelInv => WaitFindsMessage
  BY TypesOfKernel DEF KernelInv, WaitState, WaitFindsMessage
<1> QED
  BY <1>1, AlwaysKernelInv, PTL

\* An event in the ring of the xHCI controller is announced to the main task or being
\* taken out, even when a push is torn.
THEOREM NoUsbEventIsForgotten == Spec => []NoUsbEventForgotten
<1>1. KernelInv => NoUsbEventForgotten
  BY DEF KernelInv
<1> QED
  BY <1>1, AlwaysKernelInv, PTL

----------------------------------------------------------------------------
(* The timer manager.                                                      *)

Messages == [timeout : Nat, value : Values]

\* A timer is added at a tick that has been, and the one at the bottom of the
\* queue is never due.
TimerInv ==
  /\ TimersTypeOK
  /\ IsFiniteSet(timerQueue)
  /\ \A t \in timerQueue : t.at <= tick
  /\ tick <= MaxTick
  /\ \E t \in timerQueue : t.value = "bottom" /\ t.timeout = Never
  /\ NothingOverdue
  /\ ExpiresOnTime
  /\ TimeSliceEnds

USE PeriodAssumption, TimerBoundAssumption

----------------------------------------------------------------------------
(* Lemmas about the operators of the model.                                *)

\* The records MakeTimer builds are timers.
LEMMA MakeTimerType ==
  ASSUME NEW timeout \in Nat, NEW task \in Owners, NEW value \in Values,
         NEW n \in Nat, NEW now \in Nat
  PROVE  MakeTimer(timeout, task, value, n, now) \in Timer
BY DEF MakeTimer, Timer

\* The timers that come out of the queue at a tick are all whose timeout has come.
LEMMA DueFacts ==
  ASSUME timerQueue \subseteq Timer, NEW now \in Nat
  PROVE  Due(now) = {t \in timerQueue : t.timeout <= now}
<1>1. \A t \in timerQueue : t.timeout \in Nat
  BY DEF Timer
<1> QED
  BY <1>1 DEF Due, Before

\* An order of a finite set of timers is a sequence of as many of them.
LEMMA PopOrdersType ==
  ASSUME NEW S, IsFiniteSet(S), NEW s \in PopOrders(S)
  PROVE  s \in Seq(S) /\ Len(s) = Cardinality(S)
<1>1. Cardinality(S) \in Nat
  BY FS_CardinalityType
<1>2. s \in [1 .. Cardinality(S) -> S]
  BY DEF PopOrders, SetToSeqs
<1> QED
  BY <1>1, <1>2 DEF PopOrders

\* The messages of a sequence of timers.
LEMMA MessagesOfType ==
  ASSUME NEW S \in SUBSET Timer, NEW s \in Seq(S)
  PROVE  MessagesOf(s) \in Seq(Messages)
<1>1. \A i \in 1 .. Len(s) : MessageOf(s[i]) \in Messages /\ s[i] \in Timer
  BY DEF MessageOf, Messages, Timer
<1>2. MessagesOf(s) = [i \in 1 .. Len(s) |-> MessageOf(s[i])] /\ Len(s) \in Nat
  BY DEF MessagesOf
<1> QED
  BY <1>1, <1>2

----------------------------------------------------------------------------
(* The invariant.                                                          *)

\* The tick and the history stay as they are, and a timer of another kind than
\* the task timer is added, due at any time.
LEMMA AddingKeepsTimers ==
  ASSUME TimerInv, NEW timeout \in Nat, NEW task \in Owners,
         NEW value \in {"cursor", "other"}, AddTimer(timeout, task, value),
         UNCHANGED <<tick, lastSwitch, sent>>
  PROVE  /\ timerQueue' \subseteq Timer /\ added' \in Nat
         /\ IsFiniteSet(timerQueue')
         /\ \A t \in timerQueue' : t.at <= tick
         /\ \E t \in timerQueue' : t.value = "bottom" /\ t.timeout = Never
         /\ NothingOverdue'
         /\ ExpiresOnTime'
         /\ TimeSliceEnds'
<1> DEFINE new == MakeTimer(timeout, task, value, added + 1, tick)
<1>1. new \in Timer
  <2>1. value \in Values /\ added + 1 \in Nat /\ tick \in Nat
    BY DEF Values, TimerInv, TimersTypeOK
  <2> QED BY <2>1, MakeTimerType
<1>2. timerQueue' = timerQueue \cup {new} /\ new.at = tick /\ ~IsTaskTimer(new)
  BY DEF AddTimer, MakeTimer, IsTaskTimer
<1>3. timerQueue' \subseteq Timer /\ added' \in Nat
  BY <1>1, <1>2 DEF TimerInv, TimersTypeOK, AddTimer
<1>4. IsFiniteSet(timerQueue')
  BY <1>2, FS_AddElement DEF TimerInv
<1>5. \A t \in timerQueue' : t.at <= tick
  BY <1>2 DEF TimerInv, TimersTypeOK
<1>6. NothingOverdue'
  BY <1>2 DEF TimerInv, NothingOverdue
<1>7. ExpiresOnTime'
  BY <1>6 DEF TimerInv, ExpiresOnTime
<1>8. TimeSliceEnds'
  BY <1>2 DEF TimerInv, TimeSliceEnds, IsTaskTimer
<1>9. \E t \in timerQueue' : t.value = "bottom" /\ t.timeout = Never
  BY <1>2 DEF TimerInv
<1> QED
  BY <1>3, <1>4, <1>5, <1>6, <1>7, <1>8, <1>9

LEMMA InitTimerInv == TimersInit => TimerInv
<1> SUFFICES ASSUME TimersInit PROVE TimerInv
  OBVIOUS
<1> DEFINE bottom == MakeTimer(Never, MainTask, "bottom", 1, 0)
           cursor == MakeTimer(kTimer05Sec, MainTask, "cursor", 2, 0)
           slice  == MakeTimer(tick + kTaskTimerPeriod, MainTask, "task", 3, tick)
<1>1. tick \in Nat /\ tick < kTimer05Sec
  BY DEF TimersInit
<1>2. timerQueue = {bottom, cursor, slice}
  BY DEF TimersInit
<1>3. bottom \in Timer /\ cursor \in Timer /\ slice \in Timer
  BY <1>1, MakeTimerType DEF Owners, MainTask, Values, Never
<1>4. TimersTypeOK
  BY <1>1, <1>2, <1>3, EmptySeq DEF TimersInit, TimersTypeOK
<1>5. IsFiniteSet(timerQueue)
  <2>1. IsFiniteSet({bottom})
    BY FS_Singleton
  <2>2. IsFiniteSet({bottom} \cup {cursor})
    BY <2>1, FS_AddElement
  <2>3. IsFiniteSet(({bottom} \cup {cursor}) \cup {slice})
    BY <2>2, FS_AddElement
  <2>4. timerQueue = ({bottom} \cup {cursor}) \cup {slice}
    BY <1>2
  <2> QED BY <2>3, <2>4
<1>6. \A t \in timerQueue : t.at <= tick
  BY <1>1, <1>2 DEF MakeTimer
<1>7. NothingOverdue /\ tick <= MaxTick
  BY <1>1, <1>2 DEF NothingOverdue, MakeTimer, Never
<1>10. bottom \in timerQueue /\ bottom.value = "bottom" /\ bottom.timeout = Never
  BY <1>2 DEF MakeTimer
<1>8. ExpiresOnTime
  BY <1>7 DEF TimersInit, ExpiresOnTime
<1>9. TimeSliceEnds
  BY <1>1, <1>2 DEF TimersInit, TimeSliceEnds, IsTaskTimer, MakeTimer
<1> QED
  BY <1>4, <1>5, <1>6, <1>7, <1>8, <1>9, <1>10 DEF TimerInv

----------------------------------------------------------------------------
(* A tick keeps the invariant.                                             *)

\* What a tick appends to the messages of a task are messages.
LEMMA TickSends ==
  ASSUME TimerInv, TimerOnInterrupt, NEW k \in Owners
  PROVE  \E new \in Seq(Messages) : inbox'[k] = inbox[k] \o new
<1> DEFINE client == {t \in Due(tick + 1) : ~IsTaskTimer(t)}
           mine   == OwnedBy(client, k)
<1>1. PICK order : /\ order \in PopOrders(mine)
                   /\ inbox'[k] = inbox[k] \o MessagesOf(order)
  <2>1. client = Due(tick + 1) \ {t \in Due(tick + 1) : IsTaskTimer(t)}
    OBVIOUS
  <2> QED BY <2>1 DEF TimerOnInterrupt
<1>2. mine \subseteq timerQueue /\ mine \in SUBSET Timer /\ IsFiniteSet(mine)
  <2>1. mine \subseteq timerQueue
    BY DEF OwnedBy, Due
  <2> QED BY <2>1, FS_Subset DEF TimerInv, TimersTypeOK
<1>3. order \in Seq(mine)
  BY <1>1, <1>2, PopOrdersType
<1>4. MessagesOf(order) \in Seq(Messages)
  BY <1>2, <1>3, MessagesOfType
<1> QED
  BY <1>1, <1>4

LEMMA TickKeepsTimerInv == TimerInv /\ TimerOnInterrupt => TimerInv'
<1> SUFFICES ASSUME TimerInv, TimerOnInterrupt PROVE TimerInv'
  OBVIOUS
<1> DEFINE now    == tick + 1
           due    == {t \in timerQueue : t.timeout <= now}
           clock  == {t \in due : IsTaskTimer(t)}
           client == due \ clock
           set    == UNION {Restarted(t, now) : t \in clock}
<1>1. /\ tick \in Nat /\ now \in Nat /\ tick < MaxTick /\ tick' = now
      /\ timerQueue' = (timerQueue \ due) \cup set
      /\ lastSwitch' = IF clock # {} THEN now ELSE lastSwitch
      /\ sent' = sent \cup {[timer |-> t, at |-> now] : t \in client}
      /\ blinks' = blinks /\ added' = added
  <2>1. tick \in Nat /\ timerQueue \subseteq Timer /\ due = Due(now)
    BY DueFacts DEF TimerInv, TimersTypeOK
  <2> QED BY <2>1 DEF TimerOnInterrupt
<1>2. PICK c \in timerQueue : /\ IsTaskTimer(c) /\ c.timeout = lastSwitch + kTaskTimerPeriod
                              /\ \A u \in timerQueue : IsTaskTimer(u) => u = c
  BY DEF TimerInv, TimeSliceEnds
<1> DEFINE next == MakeTimer(now + kTaskTimerPeriod, MainTask, "task", c.id, now)
<1>3. clock = IF c.timeout <= now THEN {c} ELSE {}
  BY <1>2
<1>4. set = IF c.timeout <= now THEN {next} ELSE {}
  BY <1>3 DEF Restarted
<1>5. c \in Timer /\ next \in Timer
  <2>1. c \in Timer /\ c.id \in Nat
    BY DEF TimerInv, TimersTypeOK, Timer
  <2> QED BY <1>1, <2>1, MakeTimerType DEF Owners, MainTask, Values
<1>6. IsTaskTimer(next) /\ next.timeout = now + kTaskTimerPeriod /\ next.at = now
  BY DEF IsTaskTimer, MakeTimer
<1> HIDE DEF next, clock, set
<1>7. TimersTypeOK'
  <2>1. timerQueue' \subseteq Timer
    BY <1>1, <1>4, <1>5 DEF TimerInv, TimersTypeOK
  <2>2. sent' \subseteq [timer : Timer, at : Nat]
    BY <1>1 DEF TimerInv, TimersTypeOK
  <2>3. inbox' \in [Owners -> Seq(Messages)]
    <3>1. \A k \in Owners : inbox'[k] \in Seq(Messages)
      <4> TAKE k \in Owners
      <4>1. PICK new \in Seq(Messages) : inbox'[k] = inbox[k] \o new
        BY TickSends
      <4>2. inbox[k] \in Seq(Messages)
        BY DEF TimerInv, TimersTypeOK, Messages
      <4> QED BY <4>1, <4>2, ConcatProperties
    <3>2. inbox' = [k \in Owners |-> inbox'[k]]
      BY DEF TimerOnInterrupt
    <3> QED BY <3>1, <3>2
  <2> QED BY <1>1, <2>1, <2>2, <2>3 DEF TimerInv, TimersTypeOK, Messages
<1>8. IsFiniteSet(timerQueue')
  <2>1. IsFiniteSet(timerQueue \ due)
    BY FS_Difference DEF TimerInv
  <2>2. timerQueue' = timerQueue \ due \/ timerQueue' = (timerQueue \ due) \cup {next}
    BY <1>1, <1>4
  <2> DEFINE rest == timerQueue \ due
  <2> HIDE DEF rest
  <2>3. IsFiniteSet(rest) /\ (timerQueue' = rest \/ timerQueue' = rest \cup {next})
    BY <2>1, <2>2, Zenon DEF rest
  <2> QED BY ONLY <2>3, FS_AddElement
<1>9. /\ \A t \in timerQueue' : t.at <= tick'
      /\ tick' <= MaxTick
  <2>1. \A t \in timerQueue : t.at \in Nat /\ t.at <= tick
    BY DEF TimerInv, TimersTypeOK, Timer
  <2>2. MaxTick \in Nat /\ tick' <= MaxTick /\ tick <= tick'
    BY <1>1
  <2>3. \A t \in timerQueue' : t \in timerQueue \/ t = next
    BY <1>1, <1>4
  <2> QED BY <1>1, <1>6, <2>1, <2>2, <2>3
<1>10. \E t \in timerQueue' : t.value = "bottom" /\ t.timeout = Never
  BY <1>1 DEF TimerInv, Never
<1>11. NothingOverdue'
  <2>1. \A t \in timerQueue' : t.timeout > tick'
    BY SMTT(40), <1>1, <1>4, <1>6 DEF TimerInv, TimersTypeOK, Timer
  <2> QED BY <1>10, <2>1 DEF NothingOverdue
<1>12. ExpiresOnTime'
  <2> SUFFICES ASSUME NEW t \in client
               PROVE  \/ now = t.timeout /\ t.at < now
                      \/ now = t.at + 1 /\ t.timeout < now
    BY <1>1, <1>11 DEF TimerInv, ExpiresOnTime
  <2>1. t \in timerQueue /\ t.timeout <= now /\ t.timeout \in Nat /\ t.at \in Nat
    BY DEF TimerInv, TimersTypeOK, Timer
  <2>2. t.at <= tick /\ (t.timeout > tick \/ t.at = tick)
    BY <2>1 DEF TimerInv, NothingOverdue
  <2> QED BY <1>1, <2>1, <2>2
<1>13. TimeSliceEnds'
  <2>1. lastSwitch \in Nat /\ lastSwitch <= tick /\ tick < lastSwitch + kTaskTimerPeriod
    BY DEF TimerInv, TimersTypeOK, TimeSliceEnds
  <2>2. CASE c.timeout <= now
    <3>1. timerQueue' = (timerQueue \ due) \cup {next} /\ c \in due /\ lastSwitch' = now
      BY <1>1, <1>3, <1>4, <2>2
    <3>2. \A u \in timerQueue' : IsTaskTimer(u) => u = next
      BY <1>2, <3>1
    <3>3. next \in timerQueue' /\ next.timeout = lastSwitch' + kTaskTimerPeriod
      BY <1>6, <3>1
    <3>4. lastSwitch' = tick' /\ tick' \in Nat
      BY <1>1, <3>1
    <3>5. lastSwitch' <= tick' /\ tick' < lastSwitch' + kTaskTimerPeriod
      <4>1. \A x \in Nat : x <= x /\ x < x + kTaskTimerPeriod
        BY PeriodAssumption
      <4> QED BY <3>4, <4>1
    <3> QED BY <1>6, <3>2, <3>3, <3>5 DEF TimeSliceEnds
  <2>3. CASE ~(c.timeout <= now)
    <3>1. timerQueue' = timerQueue \ due /\ c \notin due /\ lastSwitch' = lastSwitch
      BY <1>1, <1>3, <1>4, <2>3
    <3>2. now < lastSwitch + kTaskTimerPeriod
      BY <1>1, <1>2, <2>1, <2>3
    <3> QED BY <1>1, <1>2, <2>1, <3>1, <3>2 DEF TimeSliceEnds
  <2> QED BY <2>2, <2>3
<1> QED
  BY <1>7, <1>8, <1>9, <1>10, <1>11, <1>12, <1>13 DEF TimerInv

----------------------------------------------------------------------------
(* The other steps, and the theorems.                                      *)

\* A task takes the oldest of its messages.
LEMMA TakingKeepsType ==
  ASSUME TimerInv, NEW k \in Owners, inbox[k] # << >>,
         inbox' = [inbox EXCEPT ![k] = Tail(@)]
  PROVE  /\ inbox' \in [Owners -> Seq(Messages)]
         /\ Head(inbox[k]).timeout \in Nat
<1>1. inbox \in [Owners -> Seq(Messages)]
  BY DEF TimerInv, TimersTypeOK, Messages
<1>2. Head(inbox[k]) \in Messages /\ Tail(inbox[k]) \in Seq(Messages)
  BY <1>1, HeadTailProperties
<1> QED
  BY <1>1, <1>2 DEF Messages

LEMMA NextKeepsTimerInv == TimerInv /\ [TimersNext]_timersVars => TimerInv'
<1> SUFFICES ASSUME TimerInv, [TimersNext]_timersVars PROVE TimerInv'
  OBVIOUS
<1>1. CASE TimerOnInterrupt
  BY <1>1, TickKeepsTimerInv
<1>2. CASE Blink
  <2>1. /\ inbox' \in [Owners -> Seq(Messages)]
        /\ Head(inbox[MainTask]).timeout \in Nat
    BY <1>2, TakingKeepsType DEF Blink, Owners, MainTask
  <2>2. Head(inbox[MainTask]).timeout + kTimer05Sec \in Nat
    BY <2>1
  <2>3. UNCHANGED <<tick, lastSwitch, sent>>
    BY <1>2 DEF Blink
  <2>4. /\ timerQueue' \subseteq Timer /\ added' \in Nat
        /\ IsFiniteSet(timerQueue')
        /\ \A t \in timerQueue' : t.at <= tick
        /\ \E t \in timerQueue' : t.value = "bottom" /\ t.timeout = Never
        /\ NothingOverdue' /\ ExpiresOnTime' /\ TimeSliceEnds'
    BY <1>2, <2>2, <2>3, AddingKeepsTimers DEF Blink, Owners, MainTask
  <2>5. blinks' \in Nat
    BY <1>2 DEF Blink, TimerInv, TimersTypeOK
  <2>6. TimersTypeOK'
    BY <2>1, <2>3, <2>4, <2>5 DEF TimersTypeOK, TimerInv, Messages
  <2> QED BY <2>3, <2>4, <2>6 DEF TimerInv
<1>3. CASE OtherReceives
  <2>1. inbox' \in [Owners -> Seq(Messages)]
    BY <1>3, TakingKeepsType DEF OtherReceives, Owners, OtherTask
  <2>2. UNCHANGED <<tick, timerQueue, lastSwitch, blinks, added, sent>>
    BY <1>3 DEF OtherReceives
  <2>3. TimersTypeOK'
    BY <2>1, <2>2 DEF TimersTypeOK, TimerInv, Messages
  <2> QED
    BY <2>2, <2>3 DEF TimerInv, NothingOverdue, ExpiresOnTime, TimeSliceEnds
<1>4. CASE \E timeout \in 0 .. MaxTick : SetTimer(timeout)
  <2>1. PICK timeout \in 0 .. MaxTick : SetTimer(timeout)
    BY <1>4
  <2>2. tick + timeout \in Nat
    BY DEF TimerInv, TimersTypeOK
  <2>3. UNCHANGED <<tick, inbox, lastSwitch, blinks, sent>>
    BY <2>1 DEF SetTimer
  <2>4. /\ timerQueue' \subseteq Timer /\ added' \in Nat
        /\ IsFiniteSet(timerQueue')
        /\ \A t \in timerQueue' : t.at <= tick
        /\ \E t \in timerQueue' : t.value = "bottom" /\ t.timeout = Never
        /\ NothingOverdue' /\ ExpiresOnTime' /\ TimeSliceEnds'
    BY <2>1, <2>2, <2>3, AddingKeepsTimers DEF SetTimer, Owners, OtherTask
  <2>5. TimersTypeOK'
    BY <2>3, <2>4 DEF TimersTypeOK, TimerInv
  <2> QED BY <2>3, <2>4, <2>5 DEF TimerInv
<1>5. CASE UNCHANGED timersVars
  BY <1>5 DEF timersVars, TimerInv, TimersTypeOK, NothingOverdue, ExpiresOnTime, TimeSliceEnds
<1> QED
  BY <1>1, <1>2, <1>3, <1>4, <1>5 DEF TimersNext

LEMMA AlwaysTimerInv == TimersSpec => []TimerInv
<1>1. TimersInit => TimerInv
  BY InitTimerInv
<1>2. TimerInv /\ [TimersNext]_timersVars => TimerInv'
  BY NextKeepsTimerInv
<1> QED
  BY <1>1, <1>2, PTL DEF TimersSpec

\* The variables of the timer manager keep their types.
THEOREM TimersTypeCorrect == TimersSpec => []TimersTypeOK
BY AlwaysTimerInv, PTL DEF TimerInv

\* A timer expires at its timeout, or at the next tick if it was added when that
\* was over: whatever timers there are, Tick is neither early nor late, and between
\* ticks none waits in the queue that should have expired.
THEOREM AlwaysOnTime == TimersSpec => []ExpiresOnTime
BY AlwaysTimerInv, PTL DEF TimerInv

\* There is always exactly one task timer, and every time slice ends the same
\* number of ticks after it began.
THEOREM TimeSliceAlwaysEnds == TimersSpec => []TimeSliceEnds
BY AlwaysTimerInv, PTL DEF TimerInv

----------------------------------------------------------------------------
(* Every timer expires once.                                               *)

\* The numbers of the timers: each that has been given out is that of one timer,
\* in the queue or among those that have expired.
OnceInv ==
  /\ \A t \in timerQueue : t.id \in 1 .. added
  /\ \A s \in sent : s.timer.id \in 1 .. added
  /\ \A t, u \in timerQueue : t.id = u.id => t = u
  /\ \A s, r \in sent : s.timer.id = r.timer.id => s = r
  /\ \A t \in timerQueue, s \in sent : t.id # s.timer.id
  /\ \A n \in 1 .. added : \/ \E t \in timerQueue : t.id = n
                           \/ \E s \in sent : s.timer.id = n

\* A set of at most one element has that many.
LEMMA AtMostOne ==
  ASSUME NEW S, \A x, y \in S : x = y
  PROVE  Cardinality(S) = IF S = {} THEN 0 ELSE 1
<1>1. CASE S = {}
  BY <1>1, FS_EmptySet
<1>2. CASE S # {}
  <2>1. PICK x \in S : TRUE
    BY <1>2
  <2>2. S = {x}
    BY <2>1
  <2> QED BY <1>2, <2>2, FS_Singleton
<1> QED
  BY <1>1, <1>2

LEMMA OnceInvSuffices == OnceInv => ExpiresOnce
<1> SUFFICES ASSUME OnceInv, NEW n \in 1 .. added
             PROVE  Cardinality({t \in timerQueue : t.id = n})
                      + Cardinality({s \in sent : s.timer.id = n}) = 1
  BY DEF ExpiresOnce
<1> DEFINE waiting == {t \in timerQueue : t.id = n}
           expired == {s \in sent : s.timer.id = n}
<1>1. /\ \A x, y \in waiting : x = y
      /\ \A x, y \in expired : x = y
  BY DEF OnceInv
<1>2. waiting = {} <=> expired # {}
  BY DEF OnceInv
<1> HIDE DEF waiting, expired
<1>3. /\ Cardinality(waiting) = IF waiting = {} THEN 0 ELSE 1
      /\ Cardinality(expired) = IF expired = {} THEN 0 ELSE 1
  BY <1>1, AtMostOne
<1>4. Cardinality(waiting) + Cardinality(expired) = 1
  BY <1>2, <1>3
<1> QED
  BY <1>4 DEF waiting, expired

\* The new timer has a number of its own.
LEMMA AddingKeepsOnceInv ==
  ASSUME TimerInv, OnceInv, NEW timeout, NEW task, NEW value,
         AddTimer(timeout, task, value), UNCHANGED sent
  PROVE  OnceInv'
<1> DEFINE new == MakeTimer(timeout, task, value, added + 1, tick)
<1>1. added \in Nat /\ added' = added + 1 /\ timerQueue' = timerQueue \cup {new}
  BY DEF AddTimer, TimerInv, TimersTypeOK
<1>2. new.id = added + 1
  BY DEF MakeTimer
<1>3. 1 .. added' = (1 .. added) \cup {new.id} /\ new.id \notin 1 .. added
  BY <1>1, <1>2
<1> HIDE DEF new
<1> QED
  BY <1>1, <1>3 DEF OnceInv

\* The numbers of the due timers go to the expired ones, but for that of the task
\* timer, which is set again.
LEMMA TickKeepsOnceInv ==
  ASSUME TimerInv, OnceInv, TimerOnInterrupt
  PROVE  OnceInv'
<1> DEFINE now    == tick + 1
           due    == Due(now)
           clock  == {t \in due : IsTaskTimer(t)}
           client == due \ clock
           set    == UNION {Restarted(t, now) : t \in clock}
<1>1. /\ timerQueue' = (timerQueue \ due) \cup set
      /\ sent' = sent \cup {[timer |-> t, at |-> now] : t \in client}
      /\ added' = added
  BY DEF TimerOnInterrupt
<1>2. due \subseteq timerQueue
  BY DEF Due
<1>3. \A u \in set : \E t \in clock : u.id = t.id
  BY DEF Restarted, MakeTimer
<1>4. \A t \in clock : \E u \in set : u.id = t.id
  <2> SUFFICES ASSUME NEW t \in clock PROVE \E u \in set : u.id = t.id
    OBVIOUS
  <2>1. MakeTimer(now + kTaskTimerPeriod, MainTask, "task", t.id, now) \in set
    BY DEF Restarted
  <2> QED BY <2>1 DEF MakeTimer
<1>5. \A u, v \in set : u = v
  <2>1. \A t, u \in clock : t = u
    BY <1>2 DEF TimerInv, TimeSliceEnds
  <2> QED BY <2>1 DEF Restarted
<1>6. clock \subseteq due /\ client = due \ clock
  OBVIOUS
<1>7. \A s \in sent' \ sent : \E t \in client : s.timer = t /\ s.at = now
  BY <1>1
<1>8. \A t \in client : \E s \in sent' : s.timer = t
  <2> SUFFICES ASSUME NEW t \in client PROVE \E s \in sent' : s.timer = t
    OBVIOUS
  <2>1. [timer |-> t, at |-> now] \in sent'
    BY <1>1
  <2> QED BY <2>1
<1>9. \A s, r \in sent' \ sent : s.timer = r.timer => s = r
  BY <1>1
<1>10. sent \subseteq sent'
  BY <1>1
<1> HIDE DEF set, clock, client, due
<1>11. \A t, u \in timerQueue' : t.id = u.id => t = u
  BY <1>1, <1>2, <1>3, <1>5, <1>6 DEF OnceInv
<1>12. \A s, r \in sent' : s.timer.id = r.timer.id => s = r
  <2> SUFFICES ASSUME NEW s \in sent', NEW r \in sent', s.timer.id = r.timer.id
               PROVE  s = r
    OBVIOUS
  <2>1. CASE s \in sent /\ r \in sent
    BY <2>1 DEF OnceInv
  <2>2. CASE s \notin sent /\ r \notin sent
    BY <2>2, <1>2, <1>6, <1>7, <1>9 DEF OnceInv
  <2>3. CASE (s \in sent) # (r \in sent)
    BY <2>3, <1>2, <1>6, <1>7 DEF OnceInv
  <2> QED BY <2>1, <2>2, <2>3
<1>13. \A t \in timerQueue', s \in sent' : t.id # s.timer.id
  <2> SUFFICES ASSUME NEW t \in timerQueue', NEW s \in sent'
               PROVE  t.id # s.timer.id
    OBVIOUS
  <2>1. PICK o \in timerQueue : o.id = t.id /\ o \notin client
    BY <1>1, <1>2, <1>3, <1>6
  <2>2. CASE s \in sent
    BY <2>1, <2>2 DEF OnceInv
  <2>3. CASE s \notin sent
    BY <2>1, <2>3, <1>2, <1>6, <1>7 DEF OnceInv
  <2> QED BY <2>2, <2>3
<1>14. \A t \in timerQueue' : t.id \in 1 .. added
  BY <1>1, <1>2, <1>3, <1>6 DEF OnceInv
<1>15. \A s \in sent' : s.timer.id \in 1 .. added
  BY <1>2, <1>6, <1>7 DEF OnceInv
<1>16. \A n \in 1 .. added : \/ \E t \in timerQueue' : t.id = n
                             \/ \E s \in sent' : s.timer.id = n
  <2> SUFFICES ASSUME NEW n \in 1 .. added
               PROVE  \/ \E t \in timerQueue' : t.id = n
                      \/ \E s \in sent' : s.timer.id = n
    OBVIOUS
  <2>1. CASE \E s \in sent : s.timer.id = n
    BY <2>1, <1>10
  <2>2. CASE \E t \in timerQueue : t.id = n
    <3>1. PICK t \in timerQueue : t.id = n
      BY <2>2
    <3> QED BY <3>1, <1>1, <1>4, <1>6, <1>8
  <2> QED BY <2>1, <2>2 DEF OnceInv
<1> QED
  BY <1>1, <1>11, <1>12, <1>13, <1>14, <1>15, <1>16 DEF OnceInv

LEMMA AlwaysOnceInv == TimersSpec => []OnceInv
<1>1. TimersInit => OnceInv
  <2> SUFFICES ASSUME TimersInit PROVE OnceInv
    OBVIOUS
  <2>1. /\ {t.id : t \in timerQueue} = {1, 2, 3}
        /\ \A t, u \in timerQueue : t.id = u.id => t = u
    BY DEF TimersInit, MakeTimer
  <2>2. 1 .. added = {1, 2, 3} /\ sent = {}
    BY DEF TimersInit
  <2> QED BY <2>1, <2>2 DEF OnceInv
<1>2. TimerInv /\ OnceInv /\ [TimersNext]_timersVars => OnceInv'
  <2> SUFFICES ASSUME TimerInv, OnceInv, [TimersNext]_timersVars PROVE OnceInv'
    OBVIOUS
  <2>1. CASE TimerOnInterrupt
    BY <2>1, TickKeepsOnceInv
  <2>2. CASE Blink
    BY <2>2, AddingKeepsOnceInv DEF Blink
  <2>3. CASE OtherReceives
    BY <2>3 DEF OtherReceives, OnceInv
  <2>4. CASE \E timeout \in 0 .. MaxTick : SetTimer(timeout)
    BY <2>4, AddingKeepsOnceInv DEF SetTimer
  <2>5. CASE UNCHANGED timersVars
    BY <2>5 DEF timersVars, OnceInv
  <2> QED BY <2>1, <2>2, <2>3, <2>4, <2>5 DEF TimersNext
<1> QED
  BY <1>1, <1>2, AlwaysTimerInv, PTL DEF TimersSpec

\* Every timer that was ever added is in the queue or has expired, once: Tick
\* neither loses a timer nor sends the message of one twice, however many are due
\* at one tick.
THEOREM AlwaysExpiresOnce == TimersSpec => []ExpiresOnce
BY AlwaysOnceInv, OnceInvSuffices, PTL

----------------------------------------------------------------------------
(* The cursor keeps the time.                                              *)

\* The next multiple of half a second that the main task has not handled.
CursorDue == (blinks + 1) * kTimer05Sec

IsCursor(t) == t.value = "cursor"

\* The cursor has a timer in the queue or a message that waits, and nothing else
\* sends messages to the main task.
CursorInv ==
  /\ blinks * kTimer05Sec <= tick
  /\ \A t \in timerQueue : /\ t.value = "bottom" => t.timeout = Never
                           /\ IsCursor(t) => t.task_id = MainTask /\ t.timeout = CursorDue
                           /\ t.value = "other" => t.task_id = OtherTask
  /\ \A t, u \in timerQueue : IsCursor(t) /\ IsCursor(u) => t = u
  /\ \/ inbox[MainTask] = << >> /\ \E t \in timerQueue : IsCursor(t)
     \/ /\ Len(inbox[MainTask]) = 1
        /\ inbox[MainTask][1].timeout = CursorDue /\ CursorDue <= tick
        /\ \A t \in timerQueue : ~IsCursor(t)

LEMMA CursorInvSuffices == TimerInv /\ CursorInv => CursorKeepsTime
<1> SUFFICES ASSUME TimerInv, CursorInv PROVE CursorKeepsTime
  OBVIOUS
<1> DEFINE set == {t \in timerQueue : t.value = "cursor"}
<1>1. inbox[MainTask] \in Seq(Messages)
  BY DEF TimerInv, TimersTypeOK, Messages, Owners, MainTask
<1>2. Cardinality(set) = IF set = {} THEN 0 ELSE 1
  <2>1. \A x, y \in set : x = y
    BY DEF CursorInv, IsCursor
  <2> QED BY <2>1, AtMostOne
<1>3. \A t \in set : t.timeout = CursorDue
  BY DEF CursorInv, IsCursor
<1>4. \/ Len(inbox[MainTask]) = 0 /\ set # {}
      \/ Len(inbox[MainTask]) = 1 /\ set = {} /\ inbox[MainTask][1].timeout = CursorDue
  BY DEF CursorInv, IsCursor
<1> HIDE DEF set
<1>5. Cardinality(set) + Len(inbox[MainTask]) = 1
  <2>1. CASE set = {}
    <3>1. Cardinality(set) = 0 /\ Len(inbox[MainTask]) = 1
      BY <1>2, <1>4, <2>1
    <3> QED BY <3>1
  <2>2. CASE set # {}
    <3>1. Cardinality(set) = 1 /\ Len(inbox[MainTask]) = 0
      BY <1>2, <1>4, <2>2
    <3> QED BY <3>1
  <2> QED BY <2>1, <2>2
<1>6. \A i \in DOMAIN inbox[MainTask] : inbox[MainTask][i].timeout = CursorDue
  BY <1>1, <1>4
<1> QED
  BY <1>3, <1>5, <1>6 DEF CursorKeepsTime, CursorInv, CursorDue, set

\* The messages of the main task at a tick: that of the cursor if its timer is
\* due, and no other.
LEMMA TickSendsCursor ==
  ASSUME TimerInv, CursorInv, TimerOnInterrupt
  PROVE  LET due == {t \in timerQueue : IsCursor(t) /\ t.timeout <= tick + 1}
         IN  \/ due = {} /\ inbox'[MainTask] = inbox[MainTask]
             \/ \E c \in due : inbox'[MainTask] = inbox[MainTask] \o << MessageOf(c) >>
<1> DEFINE due    == {t \in timerQueue : IsCursor(t) /\ t.timeout <= tick + 1}
           client == {t \in timerQueue : t.timeout <= tick + 1 /\ ~IsTaskTimer(t)}
           mine   == OwnedBy(client, MainTask)
<1>1. PICK order : /\ order \in PopOrders(mine)
                   /\ inbox'[MainTask] = inbox[MainTask] \o MessagesOf(order)
  <2>0. Due(tick + 1) = {t \in timerQueue : t.timeout <= tick + 1}
    BY DueFacts DEF TimerInv, TimersTypeOK
  <2>1. client = Due(tick + 1) \ {t \in Due(tick + 1) : IsTaskTimer(t)}
    BY <2>0
  <2> QED BY <2>1 DEF TimerOnInterrupt, Owners, MainTask
<1>2. mine = due
  <2>1. tick + 1 <= MaxTick /\ Never > tick + 1
    BY DEF TimerOnInterrupt, TimerInv, TimersTypeOK, Never
  <2>2. \A t \in timerQueue : t.value \in {"task", "cursor", "other", "bottom"}
    BY DEF TimerInv, TimersTypeOK, Timer, Values
  <2> QED
    BY <2>1, <2>2 DEF OwnedBy, CursorInv, IsCursor, IsTaskTimer, MainTask, OtherTask,
                      TimerInv, TimersTypeOK, Never
<1>3. IsFiniteSet(due)
  BY FS_Subset DEF TimerInv
<1>4. order \in Seq(due) /\ Len(order) = Cardinality(due)
  BY <1>1, <1>2, <1>3, PopOrdersType
<1>5. Cardinality(due) = IF due = {} THEN 0 ELSE 1
  <2>1. \A x, y \in due : x = y
    BY DEF CursorInv
  <2> QED BY <2>1, AtMostOne
<1>6. due \subseteq timerQueue /\ inbox[MainTask] \in Seq(Messages)
  BY DEF TimerInv, TimersTypeOK, Messages, Owners, MainTask
<1> HIDE DEF due, client, mine
<1>7. CASE due = {}
  <2>1. order = << >>
    BY <1>4, <1>5, <1>7
  <2>2. MessagesOf(order) = << >>
    BY <2>1 DEF MessagesOf
  <2> QED BY <1>1, <1>6, <1>7, <2>2 DEF due
<1>8. CASE due # {}
  <2>1. Len(order) = 1 /\ order[1] \in due /\ DOMAIN order = 1 .. 1
    BY <1>4, <1>5, <1>8
  <2>2. MessagesOf(order) = << MessageOf(order[1]) >>
    BY <2>1 DEF MessagesOf
  <2>3. \E c \in due : inbox'[MainTask] = inbox[MainTask] \o << MessageOf(c) >>
    BY <1>1, <2>1, <2>2
  <2> QED BY <2>3 DEF due
<1> QED
  BY <1>7, <1>8

LEMMA TickKeepsCursorInv ==
  ASSUME TimerInv, CursorInv, TimerOnInterrupt
  PROVE  CursorInv'
<1> DEFINE now   == tick + 1
           gone  == {t \in timerQueue : t.timeout <= now}
           clock == {t \in gone : IsTaskTimer(t)}
           set   == UNION {Restarted(t, now) : t \in clock}
           due   == {t \in timerQueue : IsCursor(t) /\ t.timeout <= tick + 1}
<1>1. /\ timerQueue' = (timerQueue \ gone) \cup set
      /\ tick' = now /\ blinks' = blinks /\ tick \in Nat
  <2>1. tick \in Nat /\ gone = Due(now)
    BY DueFacts DEF TimerInv, TimersTypeOK
  <2> QED BY <2>1 DEF TimerOnInterrupt
<1>2. CursorDue' = CursorDue
  BY <1>1 DEF CursorDue
<1>3. \A u \in set : u.value = "task"
  BY DEF Restarted, MakeTimer
<1>4. CursorDue \in Nat /\ blinks * kTimer05Sec \in Nat
  <2>1. \A a, b \in Nat : a * b \in Nat
    OBVIOUS
  <2>2. blinks \in Nat /\ blinks + 1 \in Nat /\ kTimer05Sec \in Nat
    BY DEF TimerInv, TimersTypeOK
  <2> QED BY <2>1, <2>2 DEF CursorDue
<1>5. blinks' * kTimer05Sec <= tick'
  <2>1. blinks * kTimer05Sec <= tick + 1
    BY <1>1, <1>4 DEF CursorInv
  <2> QED BY <1>1, <2>1
<1>6. \A t \in timerQueue' : \/ t \in timerQueue /\ t \notin gone
                             \/ t.value = "task"
  BY <1>1, <1>3
<1>7. \A t \in timerQueue : t.value # "task" => (t \in timerQueue' <=> t \notin gone)
  BY <1>1, <1>3
<1>8. inbox[MainTask] \in Seq(Messages)
  BY DEF TimerInv, TimersTypeOK, Messages, Owners, MainTask
<1> HIDE DEF set
<1>9. /\ \A t \in timerQueue' : /\ t.value = "bottom" => t.timeout = Never
                                /\ IsCursor(t) => t.task_id = MainTask /\ t.timeout = CursorDue
                                /\ t.value = "other" => t.task_id = OtherTask
      /\ \A t, u \in timerQueue' : IsCursor(t) /\ IsCursor(u) => t = u
  BY <1>6 DEF CursorInv, IsCursor
<1>10. \/ inbox'[MainTask] = << >> /\ \E t \in timerQueue' : IsCursor(t)
       \/ /\ Len(inbox'[MainTask]) = 1
          /\ inbox'[MainTask][1].timeout = CursorDue /\ CursorDue <= now
          /\ \A t \in timerQueue' : ~IsCursor(t)
  <2>1. CASE due = {} /\ inbox'[MainTask] = inbox[MainTask]
    <3>1. \A t \in timerQueue : IsCursor(t) => t \notin gone
      BY <2>1
    <3>2. \A t : IsCursor(t) => (t \in timerQueue' <=> t \in timerQueue)
      BY <1>6, <1>7, <3>1 DEF IsCursor
    <3>3. CursorDue <= tick => CursorDue <= now
      BY <1>1, <1>4
    <3> QED BY <2>1, <3>2, <3>3 DEF CursorInv
  <2>2. CASE \E c \in due : inbox'[MainTask] = inbox[MainTask] \o << MessageOf(c) >>
    <3>1. PICK c \in due : inbox'[MainTask] = inbox[MainTask] \o << MessageOf(c) >>
      BY <2>2
    <3>2. c \in timerQueue /\ IsCursor(c) /\ c \in gone /\ c.timeout <= now
      BY <3>1
    <3>3. inbox[MainTask] = << >> /\ c.timeout = CursorDue
      BY <3>2 DEF CursorInv
    <3>4. inbox'[MainTask] = << MessageOf(c) >>
      BY <3>1, <3>3
    <3>5. Len(inbox'[MainTask]) = 1 /\ inbox'[MainTask][1].timeout = CursorDue
      BY <3>3, <3>4 DEF MessageOf
    <3>6. \A t \in timerQueue' : ~IsCursor(t)
      BY <1>6, <3>2 DEF CursorInv, IsCursor
    <3> QED BY <3>2, <3>3, <3>5, <3>6
  <2>3. \/ due = {} /\ inbox'[MainTask] = inbox[MainTask]
        \/ \E c \in due : inbox'[MainTask] = inbox[MainTask] \o << MessageOf(c) >>
    BY TickSendsCursor
  <2> QED BY <2>1, <2>2, <2>3
<1> HIDE DEF gone
<1> QED
  BY <1>1, <1>2, <1>5, <1>9, <1>10 DEF CursorInv

\* The next timer of the cursor is set to the next multiple.
LEMMA BlinkKeepsCursorInv ==
  ASSUME TimerInv, CursorInv, Blink
  PROVE  CursorInv'
<1> DEFINE m   == Head(inbox[MainTask])
           new == MakeTimer(m.timeout + kTimer05Sec, MainTask, "cursor", added + 1, tick)
<1>1. /\ inbox[MainTask] # << >> /\ inbox' = [inbox EXCEPT ![MainTask] = Tail(@)]
      /\ timerQueue' = timerQueue \cup {new} /\ blinks' = blinks + 1 /\ tick' = tick
  BY DEF Blink, AddTimer
<1>2. inbox \in [Owners -> Seq(Messages)] /\ MainTask \in Owners
  BY DEF TimerInv, TimersTypeOK, Messages, Owners, MainTask
<1>3. /\ Len(inbox[MainTask]) = 1 /\ m = inbox[MainTask][1]
      /\ m.timeout = CursorDue /\ CursorDue <= tick
      /\ \A t \in timerQueue : ~IsCursor(t)
  BY <1>1, <1>2 DEF CursorInv
<1>4. inbox'[MainTask] = << >>
  <2>1. Len(Tail(inbox[MainTask])) = 0 /\ Tail(inbox[MainTask]) \in Seq(Messages)
    BY <1>1, <1>2, <1>3, HeadTailProperties
  <2> QED BY <1>1, <1>2, <2>1
<1>5. blinks' * kTimer05Sec = CursorDue
  BY <1>1 DEF CursorDue
<1>6. CursorDue' = CursorDue + kTimer05Sec
  <2>1. \A b, k \in Nat : ((b + 1) + 1) * k = (b + 1) * k + k
    OBVIOUS
  <2>2. blinks \in Nat /\ kTimer05Sec \in Nat
    BY DEF TimerInv, TimersTypeOK
  <2> QED BY <1>1, <2>1, <2>2 DEF CursorDue
<1>7. /\ new.value = "cursor" /\ new.task_id = MainTask
      /\ new.timeout = CursorDue'
  BY <1>3, <1>6 DEF MakeTimer
<1> HIDE DEF new, m
<1>8. \A t \in timerQueue' : t = new \/ (t \in timerQueue /\ ~IsCursor(t))
  BY <1>1, <1>3
<1>9. new \in timerQueue' /\ IsCursor(new)
  BY <1>1, <1>7 DEF IsCursor
<1>10. blinks' * kTimer05Sec <= tick'
  BY <1>1, <1>3, <1>5
<1>11. \A t \in timerQueue' : /\ t.value = "bottom" => t.timeout = Never
                              /\ IsCursor(t) => t.task_id = MainTask /\ t.timeout = CursorDue'
                              /\ t.value = "other" => t.task_id = OtherTask
  BY <1>7, <1>8 DEF CursorInv, IsCursor
<1> QED
  BY <1>4, <1>8, <1>9, <1>10, <1>11 DEF CursorInv

LEMMA AlwaysCursorInv == TimersSpec => []CursorInv
<1>1. TimersInit => CursorInv
  <2> SUFFICES ASSUME TimersInit PROVE CursorInv
    OBVIOUS
  <2>1. CursorDue = kTimer05Sec /\ blinks * kTimer05Sec = 0
    BY DEF TimersInit, CursorDue
  <2> QED
    BY <2>1 DEF TimersInit, CursorInv, IsCursor, MakeTimer, Owners, MainTask, OtherTask
<1>2. TimerInv /\ CursorInv /\ [TimersNext]_timersVars => CursorInv'
  <2> SUFFICES ASSUME TimerInv, CursorInv, [TimersNext]_timersVars PROVE CursorInv'
    OBVIOUS
  <2>1. CASE TimerOnInterrupt
    BY <2>1, TickKeepsCursorInv
  <2>2. CASE Blink
    BY <2>2, BlinkKeepsCursorInv
  <2>3. CASE OtherReceives
    <3>1. inbox'[MainTask] = inbox[MainTask] /\ CursorDue' = CursorDue
      BY <2>3 DEF OtherReceives, TimerInv, TimersTypeOK, Owners, MainTask, OtherTask, CursorDue
    <3> QED BY <2>3, <3>1 DEF OtherReceives, CursorInv
  <2>4. CASE \E timeout \in 0 .. MaxTick : SetTimer(timeout)
    <3> PICK timeout \in 0 .. MaxTick : SetTimer(timeout)
      BY <2>4
    <3> DEFINE t0 == MakeTimer(tick + timeout, OtherTask, "other", added + 1, tick)
    <3>1. /\ timerQueue' = timerQueue \cup {t0}
          /\ t0.value = "other" /\ t0.task_id = OtherTask
      BY DEF SetTimer, AddTimer, MakeTimer
    <3> HIDE DEF t0
    <3>2. UNCHANGED <<tick, inbox, blinks>> /\ CursorDue' = CursorDue
      BY DEF SetTimer, CursorDue
    <3>3. \A t : IsCursor(t) => (t \in timerQueue' <=> t \in timerQueue)
      BY <3>1 DEF IsCursor
    <3> QED BY <3>1, <3>2, <3>3 DEF CursorInv, IsCursor
  <2>5. CASE UNCHANGED timersVars
    <3>1. CursorDue' = CursorDue
      BY <2>5 DEF timersVars, CursorDue
    <3> QED BY <2>5, <3>1 DEF timersVars, CursorInv
  <2> QED BY <2>1, <2>2, <2>3, <2>4, <2>5 DEF TimersNext
<1> QED
  BY <1>1, <1>2, AlwaysTimerInv, PTL DEF TimersSpec

\* The cursor keeps the time, for every length of half a second in ticks and
\* however late the main task gets to the message: its next timeout is always the
\* next multiple it has not handled, in one timer or one message and never in two.
THEOREM CursorAlwaysKeepsTime == TimersSpec => []CursorKeepsTime
BY AlwaysCursorInv, AlwaysTimerInv, CursorInvSuffices, PTL

============================================================================
