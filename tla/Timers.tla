------------------------------- MODULE Timers -------------------------------
(***************************************************************************)
(* The timer manager (src/timer.hpp, src/timer.cpp) and the tasks that set *)
(* timers: the task timer that ends every time slice, the cursor timer of  *)
(* the main task (src/main.cpp), which is set again from the message that  *)
(* it has expired, and the timers of other tasks, such as Wait of the AHCI *)
(* driver (src/ata/ahci.cpp).                                              *)
(*                                                                         *)
(* Tick runs in the handler of the timer interrupt and AddTimer between    *)
(* cli and sti, so each is one step.                                       *)
(***************************************************************************)
EXTENDS Integers, SequencesExt

CONSTANTS
  kTaskTimerPeriod,  \* ticks of a time slice, 2 in timer.hpp:44
  kTimer05Sec,       \* ticks between two blinks of the cursor, 50 in main.cpp:174
  MaxTick,           \* bound: ticks that are counted
  MaxTimers          \* bound: timers ever added, the first three included

ASSUME PeriodAssumption == /\ kTaskTimerPeriod \in Nat \ {0}
                           /\ kTimer05Sec \in Nat \ {0}
ASSUME TimerBoundAssumption == /\ MaxTick \in Nat /\ MaxTimers \in Nat
                               /\ MaxTick >= kTimer05Sec /\ MaxTimers >= 3

MainTask == 1
OtherTask == 2    \* any other task that sets timers
Owners == {MainTask, OtherTask}

\* Timer::value_: kTaskTimerValue, kTextboxCursorTimer, the value of a timer of
\* another task, and the -1 of the timer that stays at the bottom of the queue.
Values == {"task", "cursor", "other", "bottom"}

Never == MaxTick + 1   \* numeric_limits<unsigned long>::max(): no tick reaches it

\* A timer of the queue.  Two fields are not in the code: id, its number in the
\* order of the calls of AddTimer, which tells equal timers apart, and the tick
\* it was added at.
Timer == [timeout : Nat, task_id : Owners, value : Values, id : Nat, at : Nat]

VARIABLES
  tick,        \* TimerManager::tick_
  timerQueue,  \* TimerManager::timers_
  inbox,       \* the kTimerTimeout messages each task has yet to receive
  lastSwitch,  \* history: the tick of the last switch of tasks (or of the start)
  blinks,      \* history: cursor timeouts the main task has handled
  added,       \* history: how many timers have been added
  sent         \* history: the timers that expired, and the ticks they did at

timersVars == <<tick, timerQueue, inbox, lastSwitch, blinks, added, sent>>

IsTaskTimer(t) == t.value = "task"

\* The message of a timer.
MessageOf(t) == [timeout |-> t.timeout, value |-> t.value]

MakeTimer(timeout, task, value, n, now) ==
  [timeout |-> timeout, task_id |-> task, value |-> value, id |-> n, at |-> now]

----------------------------------------------------------------------------
(* Adding timers.                                                          *)

\* Mutant: the timers are kept in a map from their timeouts.
AddTimerToMap(timeout, task, value) ==
  /\ added < MaxTimers
  /\ added' = added + 1
  /\ timerQueue' = {t \in timerQueue : t.timeout # timeout}
                 \cup {MakeTimer(timeout, task, value, added + 1, tick)}

\* Equal timers may be in the queue at the same time.
AddTimer(timeout, task, value) ==
  /\ added < MaxTimers
  /\ added' = added + 1
  /\ timerQueue' = timerQueue \cup {MakeTimer(timeout, task, value, added + 1, tick)}

\* Wait, and whatever task sets a timer of its own: timeout ticks from now.
SetTimer(timeout) ==
  /\ AddTimer(tick + timeout, OtherTask, "other")
  /\ UNCHANGED <<tick, inbox, lastSwitch, blinks, sent>>

OtherReceives ==
  /\ inbox[OtherTask] # << >>
  /\ inbox' = [inbox EXCEPT ![OtherTask] = Tail(@)]
  /\ UNCHANGED <<tick, timerQueue, lastSwitch, blinks, added, sent>>

\* Mutant: half a second counts from when the main task gets to it.
BlinkFromNow ==
  /\ inbox[MainTask] # << >>
  /\ inbox' = [inbox EXCEPT ![MainTask] = Tail(@)]
  /\ AddTimer(tick + kTimer05Sec, MainTask, "cursor")
  /\ blinks' = blinks + 1
  /\ UNCHANGED <<tick, lastSwitch, sent>>

\* The main task handles the timeout of the cursor: the next one is half a
\* second after the timeout that was set, which may be a tick already gone.
Blink ==
  /\ inbox[MainTask] # << >>
  /\ inbox' = [inbox EXCEPT ![MainTask] = Tail(@)]
  /\ AddTimer(Head(inbox[MainTask]).timeout + kTimer05Sec, MainTask, "cursor")
  /\ blinks' = blinks + 1
  /\ UNCHANGED <<tick, lastSwitch, sent>>

----------------------------------------------------------------------------
(* The tick.                                                               *)

\* Mutant: operator< does not turn the order around.
LatestFirst(t, u) == t.timeout >= u.timeout

\* The priority queue, with the operator< of timers, may give t before u; two of one
\* timeout it gives in any order.
Before(t, u) == t.timeout <= u.timeout

\* Mutant: the loop ends at a timer whose timeout is the present tick.
DueTooLate(now) ==
  {t \in timerQueue : \A u \in timerQueue : Before(u, t) => u.timeout < now}

\* The timers the loop of Tick takes from the queue: it ends at the first one on top
\* whose timeout is still to come, whatever is below it.
Due(now) ==
  {t \in timerQueue : \A u \in timerQueue : Before(u, t) => u.timeout <= now}

\* The orders in which timers may come out of the queue.
PopOrders(S) ==
  {s \in SetToSeqs(S) : \A i, j \in DOMAIN s : i < j => Before(s[i], s[j])}

OwnedBy(S, k) == {t \in S : t.task_id = k}

MessagesOf(s) == [i \in DOMAIN s |-> MessageOf(s[i])]

\* Mutant: it is popped like every other timer.
RestartForgotten(t, now) == {}

\* The task timer is popped and pushed again, a period from now (it keeps its
\* number).
Restarted(t, now) ==
  {MakeTimer(now + kTaskTimerPeriod, MainTask, "task", t.id, now)}

\* TimerOnInterrupt: Tick, and the switch of tasks if the task timer expired.  A
\* task sees the order of its own messages only.
TimerOnInterrupt ==
  LET now    == tick + 1
      due    == Due(now)
      clock  == {t \in due : IsTaskTimer(t)}
      client == due \ clock
  IN  /\ tick < MaxTick
      /\ tick' = now
      /\ timerQueue' = (timerQueue \ due) \cup UNION {Restarted(t, now) : t \in clock}
      /\ \E order \in [Owners -> UNION {PopOrders(OwnedBy(client, k)) : k \in Owners}] :
           /\ \A k \in Owners : order[k] \in PopOrders(OwnedBy(client, k))
           /\ inbox' = [k \in Owners |-> inbox[k] \o MessagesOf(order[k])]
      /\ lastSwitch' = IF clock # {} THEN now ELSE lastSwitch
      /\ sent' = sent \cup {[timer |-> t, at |-> now] : t \in client}
      /\ UNCHANGED <<blinks, added>>

----------------------------------------------------------------------------
\* InitializeTask has returned, at whatever tick the boot had come to.
TimersInit ==
  /\ tick \in 0 .. kTimer05Sec - 1
  /\ timerQueue = {MakeTimer(Never, MainTask, "bottom", 1, 0),
                   MakeTimer(kTimer05Sec, MainTask, "cursor", 2, 0),
                   MakeTimer(tick + kTaskTimerPeriod, MainTask, "task", 3, tick)}
  /\ inbox = [k \in Owners |-> << >>]
  /\ lastSwitch = tick
  /\ blinks = 0
  /\ added = 3
  /\ sent = {}

TimersNext ==
  \/ TimerOnInterrupt
  \/ Blink
  \/ OtherReceives
  \/ \E timeout \in 0 .. MaxTick : SetTimer(timeout)

TimersSpec == TimersInit /\ [][TimersNext]_timersVars

----------------------------------------------------------------------------
(* What must hold.                                                         *)

\* The variables keep their types; messages are those of MessageOf.
TimersTypeOK ==
  /\ tick \in Nat /\ lastSwitch \in Nat /\ blinks \in Nat /\ added \in Nat
  /\ timerQueue \subseteq Timer
  /\ inbox \in [Owners -> Seq([timeout : Nat, value : Values])]
  /\ sent \subseteq [timer : Timer, at : Nat]

\* Every timer that was ever added is either in the queue or has expired, and
\* has expired once: the loop of Tick neither loses one nor sends twice.
ExpiresOnce ==
  \A n \in 1 .. added :
    Cardinality({t \in timerQueue : t.id = n}) + Cardinality({s \in sent : s.timer.id = n}) = 1

\* No timer is in the queue that should have expired: the loop of Tick looks at the
\* top only, and what is due is never below what is not.  The timer at the bottom is
\* always there, so that top() has something to return.
NothingOverdue ==
  /\ \A t \in timerQueue : t.timeout > tick \/ t.at = tick
  /\ \E t \in timerQueue : t.value = "bottom"

\* A timer expires at the first tick that comes when its time has come, at its
\* timeout, or at the next tick if it was added when that was over; and no timer
\* stays in the queue longer than that.
ExpiresOnTime ==
  /\ \A s \in sent : \/ s.at = s.timer.timeout /\ s.timer.at < s.at
                     \/ s.at = s.timer.at + 1 /\ s.timer.timeout < s.at
  /\ NothingOverdue

\* There is one task timer, and it is set to end the time slice that began with
\* the last switch.  So a slice is neither cut short nor made longer.
TimeSliceEnds ==
  /\ \E t \in timerQueue : /\ IsTaskTimer(t) /\ t.timeout = lastSwitch + kTaskTimerPeriod
                           /\ \A u \in timerQueue : IsTaskTimer(u) => u = t
  /\ lastSwitch <= tick /\ tick < lastSwitch + kTaskTimerPeriod

\* The cursor keeps the time however late the main task is: its next timeout, in
\* the queue of timers or in the message that waits, is always the next multiple
\* of half a second it has not handled; and it never blinks ahead of the time.
CursorKeepsTime ==
  LET next == (blinks + 1) * kTimer05Sec
      set  == {t \in timerQueue : t.value = "cursor"}
  IN  /\ Cardinality(set) + Len(inbox[MainTask]) = 1
      /\ \A t \in set : t.timeout = next
      /\ \A i \in DOMAIN inbox[MainTask] : inbox[MainTask][i].timeout = next
      /\ blinks * kTimer05Sec <= tick

============================================================================
