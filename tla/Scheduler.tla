----------------------------- MODULE Scheduler -----------------------------
(***************************************************************************)
(* The task manager of the kernel (src/task.hpp, src/task.cpp): tasks with *)
(* a priority level and a message queue, one run queue per level, and the  *)
(* switch from one task to the next.                                       *)
(*                                                                         *)
(* Every operation is one action.  Each runs with interrupts disabled on   *)
(* the only processor, so nothing comes between two of its statements; the *)
(* one caller that breaks this rule (the USB keyboard observer) is looked  *)
(* at in module KernelTasks.  The callers are any task and any interrupt   *)
(* handler, hence every operation may happen in every state.               *)
(***************************************************************************)
EXTENDS Integers, SequencesExt

CONSTANTS
  kMaxLevel,      \* the highest priority level, 3 in task.hpp:65
  kDefaultLevel,  \* the level of a new task, 1 in task.hpp:33
  MaxTasks,       \* bound: tasks ever created, the first two included
  Msg,            \* the messages tasks are sent
  MaxMsgs         \* bound: messages waiting in one task's queue

ASSUME LevelAssumption == /\ kMaxLevel \in Nat
                          /\ kDefaultLevel \in 0 .. kMaxLevel
ASSUME BoundAssumption == MaxTasks \in Nat /\ MaxTasks >= 2 /\ MaxMsgs \in Nat

Levels == 0 .. kMaxLevel
TaskIds == 1 .. MaxTasks

MainId == 1    \* the task the kernel booted as, made by the constructor
IdleId == 2    \* TaskIdle, which only halts

VARIABLES
  latestId,      \* TaskManager::latest_id_
  level,         \* Task::level_
  runningFlag,   \* Task::running_
  msgs,          \* Task::msgs_, oldest message first
  running,       \* TaskManager::running_, the run queue of each level
  currentLevel,  \* TaskManager::current_level_
  levelChanged,  \* TaskManager::level_changed_
  cpu            \* the task whose context the processor executes

queueVars == <<level, runningFlag, running, currentLevel, levelChanged>>
vars == <<latestId, level, runningFlag, msgs, running, currentLevel,
          levelChanged, cpu>>

Tasks == 1 .. latestId
Clients == Tasks \ {IdleId}   \* no caller names the idle task

----------------------------------------------------------------------------
(* Run queues.                                                             *)

\* Mutant: the last element fills the gap.
EraseUnordered(s, t) ==
  IF t \in ToSet(s)
  THEN Front([s EXCEPT ![CHOOSE i \in DOMAIN s : s[i] = t] = Last(s)])
  ELSE s

\* std::remove + erase.  The queues hold no task twice (QueuesMatchFlags),
\* so the one occurrence there can be is all there is to remove.
Erase(s, t) ==
  IF t \in ToSet(s) THEN RemoveAt(s, CHOOSE i \in DOMAIN s : s[i] = t) ELSE s

Enqueue(q, l, t) == [q EXCEPT ![l] = Append(@, t)]

CurrentTask == Head(running[currentLevel])

\* Mutant: the search starts one level too low.
HighestLevelButOne(q) == Max({l \in 0 .. kMaxLevel - 1 : q[l] # << >>})

\* The level the search from kMaxLevel downwards stops at.
HighestLevel(q) == Max({l \in Levels : q[l] # << >>})

\* Mutant: the task that was interrupted goes back to the front.
RequeuedFirst(current_sleep) ==
  LET rest == Tail(running[currentLevel])
  IN  [running EXCEPT ![currentLevel] =
         IF current_sleep THEN rest ELSE <<CurrentTask>> \o rest]

\* The run queues after SwitchTask took the current task from the front.
Requeued(current_sleep) ==
  LET rest == Tail(running[currentLevel])
  IN  [running EXCEPT ![currentLevel] =
         IF current_sleep THEN rest ELSE Append(rest, CurrentTask)]

\* SwitchTask as a whole: the choice of the level and the context switch.
SwitchTo(current_sleep) ==
  LET q  == Requeued(current_sleep)
      lv == IF levelChanged \/ q[currentLevel] = << >>
            THEN HighestLevel(q) ELSE currentLevel
  IN  /\ running' = q
      /\ currentLevel' = lv
      /\ levelChanged' = FALSE
      /\ cpu' = Head(q[lv])

----------------------------------------------------------------------------
Init ==
  /\ latestId = 2
  /\ level = [t \in TaskIds |-> IF t = MainId THEN kMaxLevel
                                ELSE IF t = IdleId THEN 0 ELSE kDefaultLevel]
  /\ runningFlag = [t \in TaskIds |-> t \in {MainId, IdleId}]
  /\ msgs = [t \in TaskIds |-> << >>]
  /\ running = Enqueue(Enqueue([l \in Levels |-> << >>], kMaxLevel, MainId),
                       0, IdleId)
  /\ currentLevel = kMaxLevel
  /\ levelChanged = FALSE
  /\ cpu = MainId

\* A new task has the default level, no messages, and does not run yet.
NewTask ==
  /\ latestId < MaxTasks
  /\ latestId' = latestId + 1
  /\ UNCHANGED <<queueVars, msgs, cpu>>

\* The task timer expired: TimerOnInterrupt calls SwitchTask().
SwitchTask ==
  /\ SwitchTo(FALSE)
  /\ UNCHANGED <<latestId, level, runningFlag, msgs>>

Sleep(t) ==
  /\ runningFlag[t]
  /\ runningFlag' = [runningFlag EXCEPT ![t] = FALSE]
  /\ \/ /\ t = CurrentTask
        /\ SwitchTo(TRUE)
     \/ /\ t # CurrentTask
        /\ running' = [running EXCEPT ![level[t]] = Erase(@, t)]
        /\ UNCHANGED <<currentLevel, levelChanged, cpu>>
  /\ UNCHANGED <<latestId, level, msgs>>

\* Mutant: a task that changes its own level is queued last there.
ChangeLevelRunningToBack(t, l) ==
  \/ /\ l < 0 \/ l = level[t]
     /\ UNCHANGED queueVars
  \/ /\ l >= 0 /\ l # level[t]
     /\ running' = Enqueue([running EXCEPT ![level[t]] = Erase(@, t)], l, t)
     /\ level' = [level EXCEPT ![t] = l]
     /\ currentLevel' = IF t = CurrentTask THEN l ELSE currentLevel
     /\ levelChanged' = (levelChanged \/ l # currentLevel)
     /\ UNCHANGED runningFlag

\* The level of a task that is in a run queue changes, to l.
ChangeLevelRunning(t, l) ==
  \/ /\ l < 0 \/ l = level[t]
     /\ UNCHANGED queueVars
  \/ /\ l >= 0 /\ l # level[t]
     /\ t # CurrentTask                             \* the level of another task
     /\ running' = Enqueue([running EXCEPT ![level[t]] = Erase(@, t)], l, t)
     /\ level' = [level EXCEPT ![t] = l]
     /\ levelChanged' = (levelChanged \/ l > currentLevel)
     /\ UNCHANGED <<runningFlag, currentLevel>>
  \/ /\ l >= 0 /\ l # level[t]
     /\ t = CurrentTask                             \* its own level
     /\ running' = [running EXCEPT ![currentLevel] = Tail(@), ![l] = <<t>> \o @]
     /\ level' = [level EXCEPT ![t] = l]
     /\ currentLevel' = l
     /\ levelChanged' = (levelChanged \/ l < currentLevel)
     /\ UNCHANGED runningFlag

\* Mutant: nobody is told of the task at a higher level.
StartRunningUnnoticed(t, l) ==
  LET lv == IF l < 0 THEN level[t] ELSE l
  IN  /\ level' = [level EXCEPT ![t] = lv]
      /\ runningFlag' = [runningFlag EXCEPT ![t] = TRUE]
      /\ running' = Enqueue(running, lv, t)
      /\ UNCHANGED <<currentLevel, levelChanged>>

\* A task that sleeps gets level l (its own for l = -1) and is queued last.
StartRunning(t, l) ==
  LET lv == IF l < 0 THEN level[t] ELSE l
  IN  /\ level' = [level EXCEPT ![t] = lv]
      /\ runningFlag' = [runningFlag EXCEPT ![t] = TRUE]
      /\ running' = Enqueue(running, lv, t)
      /\ levelChanged' = (levelChanged \/ lv > currentLevel)
      /\ UNCHANGED currentLevel

\* Mutant: the test of Task::Running() is missing.
WakeupTaskAgain(t, l) == StartRunning(t, l)

WakeupTask(t, l) == \/ runningFlag[t] /\ ChangeLevelRunning(t, l)
                    \/ ~runningFlag[t] /\ StartRunning(t, l)

Wakeup(t, l) ==
  /\ WakeupTask(t, l)
  /\ UNCHANGED <<latestId, msgs, cpu>>

SendMessage(t, m) ==
  /\ Len(msgs[t]) < MaxMsgs
  /\ msgs' = [msgs EXCEPT ![t] = Append(@, m)]
  /\ WakeupTask(t, -1)
  /\ UNCHANGED <<latestId, cpu>>

\* The task on the processor takes its oldest message.
ReceiveMessage ==
  /\ msgs[cpu] # << >>
  /\ msgs' = [msgs EXCEPT ![cpu] = Tail(@)]
  /\ UNCHANGED <<latestId, queueVars, cpu>>

Next ==
  \/ NewTask
  \/ SwitchTask
  \/ ReceiveMessage
  \/ \E t \in Clients : \/ Sleep(t)
                        \/ \E l \in -1 .. kMaxLevel : Wakeup(t, l)
                        \/ \E m \in Msg : SendMessage(t, m)

\* The task timer is set again whenever it expires (timer.cpp:38-39), so a
\* switch comes again and again.
Fairness == WF_vars(SwitchTask)

Spec == Init /\ [][Next]_vars /\ Fairness

----------------------------------------------------------------------------
(* What must hold.                                                         *)

\* The variables keep the types task.hpp gives them (Task:53-54,
\* TaskManager:79-83) and the processor executes an existing task.
TypeOK ==
  /\ latestId \in 2 .. MaxTasks
  /\ level \in [TaskIds -> Levels]
  /\ runningFlag \in [TaskIds -> BOOLEAN]
  /\ msgs \in [TaskIds -> Seq(Msg)]
  /\ running \in [Levels -> Seq(Tasks)]
  /\ currentLevel \in Levels
  /\ levelChanged \in BOOLEAN
  /\ cpu \in Tasks

\* Sleep, Wakeup and ChangeLevelRunning decide by Task::running_ and
\* Task::level_ in which run queue a task is; they never inspect the queues.
\* So a task whose flag is set must be in the queue of its level and nowhere
\* else, once; and one whose flag is clear in none.
QueuesMatchFlags ==
  /\ \A l \in Levels : \A t \in ToSet(running[l]) : runningFlag[t] /\ level[t] = l
  /\ \A t \in TaskIds : runningFlag[t] => t \in ToSet(running[level[t]])
  /\ \A l \in Levels : IsInjective(running[l])

\* CurrentTask() and SwitchTask take the front of running_[current_level_] for
\* the task whose registers are in the processor: SwitchTask would otherwise
\* read an empty queue, or save the context into another task.
CurrentIsOnCpu ==
  /\ running[currentLevel] # << >>
  /\ CurrentTask = cpu

\* SwitchTask searches the other levels only when level_changed_ is set.  No
\* task may wait above the current level without that flag.
HigherLevelIsNoticed ==
  \A l \in Levels : l > currentLevel /\ running[l] # << >> => levelChanged

\* Whenever the processor goes over to another task, no task of a higher level
\* is ready: SwitchTask and Sleep respect the priorities.
SwitchRespectsLevels ==
  [][cpu' # cpu => \A l \in Levels : l > level'[cpu'] => running'[l] = << >>]_vars

\* s is in front of t in a run queue.
Before(s, t) ==
  \E l \in Levels : \E i, j \in DOMAIN running[l] :
    i < j /\ running[l][i] = s /\ running[l][j] = t

\* Waiting tasks of one level are served in the order they came in: only the
\* task that gives up the processor may fall behind one it was in front of.
\* (Erase from the middle of a queue, in Sleep and ChangeLevelRunning, must keep
\* the order of the rest.)
WaitingKeepsOrder ==
  [][\A s, t \in TaskIds : Before(s, t) /\ Before(t, s)' => s = cpu /\ cpu' # s]_vars

\* t is ready at level l, the highest level in use.
OnTop(t, l) == /\ runningFlag[t]
               /\ level[t] = l
               /\ \A h \in Levels : h > l => running[h] = << >>

\* Round robin: a task that is ready at the highest level in use gets the
\* processor, unless it stops being one first.  (It does not hold of a task
\* others keep moving between levels: every move puts it last again.)
EveryTopTaskRuns ==
  \A t \in TaskIds, l \in Levels : OnTop(t, l) ~> (cpu = t \/ ~OnTop(t, l))

----------------------------------------------------------------------------
(* The run queues, the flag and the current level implement this much       *)
(* simpler scheduler.                                                       *)

Promise == INSTANCE PriorityScheduler
             WITH Task  <- TaskIds,
                  First <- MainId,
                  Idle  <- IdleId,
                  ready <- {t \in TaskIds : runningFlag[t]}

\* The scheduler does what module PriorityScheduler promises.
ImplementsPromise == Promise!Spec

============================================================================
