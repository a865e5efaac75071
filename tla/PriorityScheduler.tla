-------------------------- MODULE PriorityScheduler --------------------------
(***************************************************************************)
(* What the task manager promises its callers (src/task.hpp:62-86), without *)
(* run queues, a current level or a "level changed" flag: there is a set of *)
(* ready tasks, and whenever the processor is given away it goes to some    *)
(* ready task of the highest level.  Module Scheduler implements it.        *)
(***************************************************************************)
EXTENDS Integers

CONSTANTS Task,      \* the tasks there can be
          First,     \* the task that boots the kernel
          Idle,      \* the task that is always ready, at level 0
          kMaxLevel, kDefaultLevel

VARIABLES level,     \* the level of each task
          ready,     \* the tasks that want the processor
          cpu        \* the one that has it

absVars == <<level, ready, cpu>>

Levels == 0 .. kMaxLevel

\* The ready tasks no other ready task outranks.
Top(R) == {t \in R : \A u \in R : level[u] <= level[t]}

Init == /\ level = [t \in Task |-> IF t = First THEN kMaxLevel
                                   ELSE IF t = Idle THEN 0 ELSE kDefaultLevel]
        /\ ready = {First, Idle}
        /\ cpu = First

\* A time slice ends.
Reschedule == /\ cpu' \in Top(ready)
              /\ UNCHANGED <<level, ready>>

\* Task t goes to sleep; the one on the processor hands it over.
Block(t) == /\ t \in ready \ {Idle}
            /\ ready' = ready \ {t}
            /\ IF t = cpu THEN cpu' \in Top(ready') ELSE cpu' = cpu
            /\ UNCHANGED level

\* Task t becomes ready, or changes its level while it is: either way the
\* processor stays where it is until the next switch.
Ready(t, l) == /\ t # Idle
               /\ ready' = ready \cup {t}
               /\ level' = [level EXCEPT ![t] = l]
               /\ UNCHANGED cpu

Next == \/ Reschedule
        \/ \E t \in Task : \/ Block(t)
                           \/ \E l \in Levels : Ready(t, l)

Spec == Init /\ [][Next]_absVars

============================================================================
