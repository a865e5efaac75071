-------------------------- MODULE SchedulerProofs --------------------------
(***************************************************************************)
(* Proofs about module Scheduler: the invariants the run MCScheduler checks *)
(* hold for every number of levels, tasks and messages, and so do the two  *)
(* action properties and the refinement of PriorityScheduler.              *)
(*                                                                         *)
(* The inductive invariant is the conjunction of the four invariants and   *)
(* of one more: the idle task is always ready, so that SwitchTask always   *)
(* finds a queue that is not empty.                                        *)
(***************************************************************************)
EXTENDS Scheduler, QueueLemmas

----------------------------------------------------------------------------
(* Lemmas about the operators the run queues are made of.                  *)

\* What stands where in a queue without the task that is erased.
LEMMA ErasePlaces ==
  ASSUME NEW S, NEW s \in Seq(S), NEW x \in ToSet(s)
  PROVE  \E n \in DOMAIN s :
           /\ s[n] = x
           /\ Erase(s, x) \in Seq(S)
           /\ Len(Erase(s, x)) = Len(s) - 1
           /\ \A i \in 1 .. Len(s) - 1 : Erase(s, x)[i] = IF i < n THEN s[i] ELSE s[i + 1]
<1> DEFINE n == CHOOSE i \in DOMAIN s : s[i] = x
           q == SubSeq(s, 1, n - 1) \o SubSeq(s, n + 1, Len(s))
<1>1. n \in DOMAIN s /\ s[n] = x
  BY DEF ToSet
<1>2. DOMAIN s = 1 .. Len(s) /\ Len(s) \in Nat
  BY LenProperties
<1>3. Erase(s, x) = q
  BY DEF Erase, RemoveAt
<1> HIDE DEF n
<1>5. /\ SubSeq(s, 1, n - 1) \in Seq(S)
      /\ Len(SubSeq(s, 1, n - 1)) = n - 1
      /\ \A i \in 1 .. n - 1 : SubSeq(s, 1, n - 1)[i] = s[i]
  <2>1. 1 \in Nat /\ n - 1 \in Nat /\ n - 1 <= Len(s) /\ 1 <= n - 1 + 1
    BY <1>1, <1>2
  <2> DEFINE c == n - 1
  <2>2. /\ SubSeq(s, 1, c) \in Seq(S)
        /\ Len(SubSeq(s, 1, c)) = c - 1 + 1
        /\ \A i \in 1 .. c - 1 + 1 : SubSeq(s, 1, c)[i] = s[1 + i - 1]
    <3> HIDE DEF c
    <3> QED
      BY <2>1, StretchOfQueue DEF c
  <2> QED
    BY <1>1, <1>2, <2>2
<1>6. /\ SubSeq(s, n + 1, Len(s)) \in Seq(S)
      /\ Len(SubSeq(s, n + 1, Len(s))) = Len(s) - n
      /\ \A i \in 1 .. Len(s) - n : SubSeq(s, n + 1, Len(s))[i] = s[n + i]
  <2>1. n + 1 \in Nat /\ 1 <= n + 1 /\ n + 1 <= Len(s) + 1
    BY <1>1, <1>2
  <2> DEFINE c == n + 1
  <2>2. /\ SubSeq(s, c, Len(s)) \in Seq(S)
        /\ Len(SubSeq(s, c, Len(s))) = Len(s) - c + 1
        /\ \A i \in 1 .. Len(s) - c + 1 : SubSeq(s, c, Len(s))[i] = s[c + i - 1]
    <3> HIDE DEF c
    <3> QED
      BY <1>2, <2>1, StretchOfQueue DEF c
  <2> QED
    BY <1>1, <1>2, <2>2
<1>7. /\ q \in Seq(S)
      /\ Len(q) = Len(s) - 1
      /\ \A i \in 1 .. Len(s) - 1 : q[i] = IF i < n THEN s[i] ELSE s[i + 1]
  <2>1. /\ q \in Seq(S)
        /\ Len(q) = Len(SubSeq(s, 1, n - 1)) + Len(SubSeq(s, n + 1, Len(s)))
        /\ \A i \in 1 .. Len(q) :
             q[i] = IF i <= Len(SubSeq(s, 1, n - 1))
                    THEN SubSeq(s, 1, n - 1)[i]
                    ELSE SubSeq(s, n + 1, Len(s))[i - Len(SubSeq(s, 1, n - 1))]
    BY SMTT(40), <1>5, <1>6, ConcatProperties
  <2>2. Len(q) = Len(s) - 1
    BY <1>1, <1>2, <1>5, <1>6, <2>1
  <2>3. ASSUME NEW i \in 1 .. Len(s) - 1
        PROVE  q[i] = IF i < n THEN s[i] ELSE s[i + 1]
    <3>1. q[i] = IF i <= n - 1 THEN SubSeq(s, 1, n - 1)[i]
                 ELSE SubSeq(s, n + 1, Len(s))[i - (n - 1)]
      BY <1>5, <2>1, <2>2
    <3>2. CASE i < n
      BY <1>1, <1>2, <1>5, <3>1, <3>2
    <3>3. CASE i >= n
      <4>1. i - (n - 1) \in 1 .. Len(s) - n
        BY <1>1, <1>2, <3>3
      <4>2. SubSeq(s, n + 1, Len(s))[i - (n - 1)] = s[n + (i - (n - 1))]
        BY <1>6, <4>1
      <4>3. n + (i - (n - 1)) = i + 1
        BY <1>1, <1>2
      <4>4. ~ (i < n) /\ ~ (i <= n - 1)
        BY <1>1, <1>2, <3>3
      <4> HIDE DEF q
      <4> QED
        BY <3>1, <4>2, <4>3, <4>4
    <3>4. i < n \/ i >= n
      BY <1>1, <1>2
    <3> QED
      BY <3>2, <3>3, <3>4
  <2> QED
    BY <2>1, <2>2, <2>3
<1> HIDE DEF q
<1> QED
  BY <1>1, <1>3, <1>7

\* Erase takes exactly one task out of a queue without duplicates.
LEMMA EraseFromQueue ==
  ASSUME NEW S, NEW s \in Seq(S), IsInjective(s), NEW x \in ToSet(s)
  PROVE  /\ Erase(s, x) \in Seq(S)
         /\ ToSet(Erase(s, x)) = ToSet(s) \ {x}
         /\ IsInjective(Erase(s, x))
<1> DEFINE q == Erase(s, x)
<1>2. DOMAIN s = 1 .. Len(s) /\ Len(s) \in Nat
  BY LenProperties
<1>3. PICK n \in DOMAIN s :
        /\ s[n] = x
        /\ q \in Seq(S) /\ Len(q) = Len(s) - 1
        /\ \A i \in 1 .. Len(s) - 1 : q[i] = IF i < n THEN s[i] ELSE s[i + 1]
  BY ErasePlaces
<1>1. n \in DOMAIN s /\ s[n] = x
  BY <1>3
<1>7. /\ q \in Seq(S)
      /\ Len(q) = Len(s) - 1
      /\ \A i \in 1 .. Len(s) - 1 : q[i] = IF i < n THEN s[i] ELSE s[i + 1]
  BY <1>3
<1> HIDE DEF q
<1>8. DOMAIN q = 1 .. (Len(s) - 1) /\ Len(s) - 1 \in Nat
  BY <1>1, <1>2, <1>7, LenProperties
<1>9. \A i, j \in DOMAIN s : s[i] = s[j] => i = j
  BY DEF IsInjective
<1>10. IsInjective(q)
  <2> SUFFICES ASSUME NEW i \in DOMAIN q, NEW j \in DOMAIN q, q[i] = q[j]
               PROVE  i = j
    BY DEF IsInjective
  <2>1. /\ q[i] = s[IF i < n THEN i ELSE i + 1]
        /\ q[j] = s[IF j < n THEN j ELSE j + 1]
    BY <1>7, <1>8
  <2>2. /\ (IF i < n THEN i ELSE i + 1) \in DOMAIN s
        /\ (IF j < n THEN j ELSE j + 1) \in DOMAIN s
    BY <1>1, <1>2, <1>8
  <2>3. s[IF i < n THEN i ELSE i + 1] = s[IF j < n THEN j ELSE j + 1]
    BY <2>1
  <2>4. (IF i < n THEN i ELSE i + 1) = (IF j < n THEN j ELSE j + 1)
    BY <1>9, <2>2, <2>3
  <2> QED
    BY <1>1, <1>2, <1>8, <2>4
<1>11. ToSet(q) = ToSet(s) \ {x}
  <2>1. ASSUME NEW i \in DOMAIN q PROVE q[i] \in ToSet(s) \ {x}
    <3>1. /\ (IF i < n THEN i ELSE i + 1) \in DOMAIN s \ {n}
          /\ q[i] = s[IF i < n THEN i ELSE i + 1]
      BY <1>1, <1>2, <1>7, <1>8
    <3> QED
      BY <1>1, <1>9, <3>1 DEF ToSet
  <2>2. ASSUME NEW i \in DOMAIN s, s[i] # x PROVE s[i] \in ToSet(q)
    <3>1. i # n
      BY <1>1, <2>2
    <3>2. /\ (IF i < n THEN i ELSE i - 1) \in DOMAIN q
          /\ q[IF i < n THEN i ELSE i - 1] = s[i]
      BY <1>1, <1>2, <1>7, <1>8, <3>1
    <3> QED
      BY <3>2 DEF ToSet
  <2> QED
    BY <2>1, <2>2 DEF ToSet
<1> QED
  BY <1>7, <1>10, <1>11 DEF q

\* The levels are finitely many: some queue that is not empty is the highest.
LEMMA HighestExists ==
  ASSUME NEW L \in SUBSET Levels, L # {}
  PROVE  Max(L) \in L /\ \A l \in L : l <= Max(L)
<1> DEFINE R == {p \in Nat \X Nat : p[1] < p[2]}
           M == {kMaxLevel - l : l \in L}
<1>1. IsWellFoundedOn(R, Nat)
  BY NatLessThanWellFounded DEF OpToRel
<1>2. M \subseteq Nat /\ M # {}
  BY LevelAssumption DEF Levels
<1>3. PICK x \in M : \A y \in M : ~ (<<y, x>> \in R)
  <2> HIDE DEF R, M
  <2> QED
    BY <1>1, <1>2, WFMin
<1>4. \A y \in M : x <= y
  <2>1. ASSUME NEW y \in M, y < x PROVE FALSE
    <3>1. <<y, x>> \in R
      BY <1>2, <2>1
    <3> QED
      BY <1>3, <3>1
  <2>2. x \in Nat /\ \A y \in M : y \in Nat
    BY <1>2
  <2> HIDE DEF M
  <2> QED
    BY <2>1, <2>2
<1>5. PICK h \in L : x = kMaxLevel - h
  OBVIOUS
<1>6. \A l \in L : h >= l
  BY <1>4, <1>5, LevelAssumption DEF Levels
<1>7. \E m \in L : \A l \in L : m >= l
  BY <1>6
<1> QED
  BY <1>7 DEF Max, Levels

\* Erase leaves the front alone if it is another task that goes.
LEMMA EraseKeepsFront ==
  ASSUME NEW S, NEW s \in Seq(S), IsInjective(s), NEW x \in ToSet(s), Head(s) # x
  PROVE  Erase(s, x) # << >> /\ Head(Erase(s, x)) = Head(s)
<1> DEFINE n == CHOOSE i \in DOMAIN s : s[i] = x
           a == SubSeq(s, 1, n - 1)
           b == SubSeq(s, n + 1, Len(s))
<1>1. n \in DOMAIN s /\ s[n] = x
  BY DEF ToSet
<1>2. DOMAIN s = 1 .. Len(s) /\ Len(s) \in Nat
  BY LenProperties
<1>3. Erase(s, x) = a \o b
  BY DEF Erase, RemoveAt
<1> HIDE DEF n
<1>4. n >= 2 /\ Head(s) = s[1]
  BY <1>1, <1>2, HeadTailProperties, EmptySeq
<1>5. 1 \in Nat /\ n - 1 \in Nat /\ n - 1 <= Len(s) /\ 1 <= n /\ 1 <= n - 1 + 1
  BY <1>1, <1>2
<1>6. n + 1 \in Nat /\ 1 <= n + 1 /\ n + 1 <= Len(s) + 1 /\ Len(s) <= Len(s)
  BY <1>1, <1>2
<1>7. /\ a \in Seq(S)
      /\ Len(a) = n - 1
      /\ a[1] = s[1]
  <2> DEFINE c == n - 1
  <2>1. /\ SubSeq(s, 1, c) \in Seq(S)
        /\ Len(SubSeq(s, 1, c)) = c - 1 + 1
        /\ \A i \in 1 .. c - 1 + 1 : SubSeq(s, 1, c)[i] = s[1 + i - 1]
    <3> HIDE DEF c
    <3> QED
      BY <1>5, StretchOfQueue DEF c
  <2> QED
    BY <1>1, <1>2, <1>4, <2>1
<1>8. b \in Seq(S)
  <2> DEFINE c == n + 1
  <2>1. SubSeq(s, c, Len(s)) \in Seq(S)
    <3> HIDE DEF c
    <3> QED
      BY <1>2, <1>6, StretchOfQueue DEF c
  <2> QED
    BY <2>1
<1> HIDE DEF a, b
<1>9. /\ a \o b \in Seq(S)
      /\ Len(a \o b) = Len(a) + Len(b)
      /\ (a \o b)[1] = a[1]
  <2>1. /\ a \o b \in Seq(S)
        /\ Len(a \o b) = Len(a) + Len(b)
        /\ \A i \in 1 .. Len(a \o b) :
             (a \o b)[i] = IF i <= Len(a) THEN a[i] ELSE b[i - Len(a)]
    BY ZenonT(40), <1>7, <1>8, ConcatProperties
  <2>2. Len(b) \in Nat /\ Len(a) \in Nat /\ 1 <= Len(a)
    BY <1>1, <1>2, <1>4, <1>7, <1>8, LenProperties
  <2>3. 1 \in 1 .. Len(a \o b)
    BY <2>1, <2>2
  <2> QED
    BY <2>1, <2>2, <2>3
<1>10. a \o b # << >> /\ Head(a \o b) = (a \o b)[1]
  BY <1>1, <1>2, <1>4, <1>7, <1>8, <1>9, EmptySeq, LenProperties
<1> QED
  BY <1>3, <1>4, <1>7, <1>9, <1>10

\* What is in a queue has the type of its elements.
LEMMA ToSetType == ASSUME NEW S, NEW s \in Seq(S) PROVE ToSet(s) \subseteq S
BY ElementOfSeq, LenProperties DEF ToSet

----------------------------------------------------------------------------

\* The idle task never leaves the run queues.
IdleIsReady == runningFlag[IdleId]

IInv == /\ TypeOK
        /\ QueuesMatchFlags
        /\ CurrentIsOnCpu
        /\ HigherLevelIsNoticed
        /\ IdleIsReady

----------------------------------------------------------------------------
\* The invariant holds when the constructor has run.
LEMMA InitIInv == Init => IInv
<1> SUFFICES ASSUME Init PROVE IInv
  OBVIOUS
<1>1. /\ MainId = 1 /\ IdleId = 2 /\ latestId = 2
      /\ Tasks = {1, 2} /\ {1, 2} \subseteq TaskIds
      /\ 0 \in Levels /\ kMaxLevel \in Levels /\ kDefaultLevel \in Levels
  BY LevelAssumption, BoundAssumption DEF Init, MainId, IdleId, Tasks, TaskIds, Levels
<1>2. /\ level[1] = kMaxLevel /\ level[2] = 0
      /\ level \in [TaskIds -> Levels]
  BY <1>1 DEF Init
<1>3. /\ \A t \in TaskIds : runningFlag[t] <=> t \in {1, 2}
      /\ runningFlag \in [TaskIds -> BOOLEAN]
  <2>1. runningFlag = [t \in TaskIds |-> t \in {1, 2}]
    BY <1>1 DEF Init
  <2>2. \A t \in TaskIds : (t \in {1, 2}) \in BOOLEAN
    OBVIOUS
  <2>3. runningFlag \in [TaskIds -> BOOLEAN]
    BY <2>1, <2>2
  <2>4. \A t \in TaskIds : runningFlag[t] <=> t \in {1, 2}
    BY <2>1
  <2> QED
    BY <2>3, <2>4
<1>4. /\ <<1>> \in Seq(Tasks) /\ ToSet(<<1>>) = {1} /\ IsInjective(<<1>>)
      /\ <<2>> \in Seq(Tasks) /\ ToSet(<<2>>) = {2} /\ IsInjective(<<2>>)
      /\ <<1, 2>> \in Seq(Tasks) /\ ToSet(<<1, 2>>) = {1, 2} /\ IsInjective(<<1, 2>>)
      /\ << >> \in Seq(Tasks) /\ ToSet(<< >>) = {} /\ IsInjective(<< >>)
      /\ Head(<<1>>) = 1 /\ Head(<<1, 2>>) = 1
  BY <1>1 DEF ToSet, IsInjective
<1>5. /\ running \in [Levels -> Seq(Tasks)]
      /\ kMaxLevel = 0 => running[0] = <<1, 2>>
      /\ kMaxLevel # 0 => running[kMaxLevel] = <<1>> /\ running[0] = <<2>>
      /\ \A l \in Levels \ {0, kMaxLevel} : running[l] = << >>
  <2>2. CASE kMaxLevel = 0
    BY <1>1, <1>4, <2>2 DEF Init, Enqueue
  <2>3. CASE kMaxLevel # 0
    <3> DEFINE none == [l \in Levels |-> << >>]
               one == [none EXCEPT ![kMaxLevel] = <<1>>]
    <3>a. Append(<< >>, 1) = <<1>>
      OBVIOUS
    <3>b. Append(<< >>, 2) = <<2>>
      OBVIOUS
    <3>c. Enqueue(none, kMaxLevel, 1) = one
      BY <1>1, <3>a DEF Enqueue
    <3>d. Enqueue(one, 0, 2) = [one EXCEPT ![0] = <<2>>]
      BY <1>1, <2>3, <3>b DEF Enqueue
    <3>e. running = [one EXCEPT ![0] = <<2>>]
      BY <1>1, <3>c, <3>d DEF Init
    <3>1. /\ DOMAIN running = Levels
          /\ running[kMaxLevel] = <<1>> /\ running[0] = <<2>>
          /\ \A l \in Levels \ {0, kMaxLevel} : running[l] = << >>
          /\ running = [l \in Levels |-> running[l]]
      BY <1>1, <2>3, <3>e
    <3>2. \A l \in Levels : running[l] \in Seq(Tasks)
      BY <1>4, <3>1
    <3> QED
      BY <2>3, <3>1, <3>2
  <2> QED
    BY <2>2, <2>3
<1>6. /\ running \in [Levels -> Seq(Tasks)]
      /\ \A l \in Levels : IsInjective(running[l])
      /\ running[kMaxLevel] # << >> /\ Head(running[kMaxLevel]) = 1
  BY <1>1, <1>4, <1>5
<1>7. \A l \in Levels : ToSet(running[l]) = {t \in {1, 2} : level[t] = l}
  <2> TAKE l \in Levels
  <2>1. CASE l = kMaxLevel /\ l = 0
    BY <1>2, <1>4, <1>5, <2>1
  <2>2. CASE l = kMaxLevel /\ l # 0
    BY <1>2, <1>4, <1>5, <2>2
  <2>3. CASE l # kMaxLevel /\ l = 0
    BY <1>2, <1>4, <1>5, <2>3
  <2>4. CASE l # kMaxLevel /\ l # 0
    BY <1>2, <1>4, <1>5, <2>4
  <2> QED
    BY <2>1, <2>2, <2>3, <2>4
<1>8. TypeOK
  <2>1. msgs \in [TaskIds -> Seq(Msg)]
    BY DEF Init
  <2>2. latestId \in 2 .. MaxTasks
    BY <1>1, BoundAssumption
  <2> QED
    BY <1>1, <1>2, <1>3, <1>6, <2>1, <2>2 DEF Init, TypeOK
<1>9. QueuesMatchFlags
  <2>1. ASSUME NEW l \in Levels, NEW t \in ToSet(running[l])
        PROVE  runningFlag[t] /\ level[t] = l
    BY <1>1, <1>3, <1>7, <2>1
  <2>2. ASSUME NEW t \in TaskIds, runningFlag[t]
        PROVE  t \in ToSet(running[level[t]])
    BY <1>2, <1>3, <1>7, <2>2
  <2> QED
    BY <1>6, <2>1, <2>2 DEF QueuesMatchFlags
<1>10. CurrentIsOnCpu
  BY <1>1, <1>6 DEF Init, CurrentIsOnCpu, CurrentTask
<1>11. HigherLevelIsNoticed
  BY LevelAssumption DEF Init, HigherLevelIsNoticed, Levels
<1>12. IdleIsReady
  BY <1>1, <1>3 DEF IdleIsReady
<1> QED
  BY <1>8, <1>9, <1>10, <1>11, <1>12 DEF IInv

\* What SwitchTask leaves behind, whether the current task sleeps or not: the
\* queues without the sleeper, and the front of the highest one on the processor.
LEMMA SwitchToFacts ==
  ASSUME IInv, NEW sleep \in BOOLEAN, SwitchTo(sleep), sleep => cpu # IdleId
  PROVE  /\ running' \in [Levels -> Seq(Tasks)]
         /\ \A l \in Levels : /\ IsInjective(running'[l])
                              /\ ToSet(running'[l]) =
                                   ToSet(running[l]) \ (IF sleep THEN {cpu} ELSE {})
         /\ currentLevel' \in Levels
         /\ levelChanged' = FALSE
         /\ running'[currentLevel'] # << >>
         /\ cpu' = Head(running'[currentLevel'])
         /\ \A l \in Levels : l > currentLevel' => running'[l] = << >>
<1> DEFINE c == currentLevel
           rest == Tail(running[c])
           q == Requeued(sleep)
           lv == IF levelChanged \/ q[c] = << >> THEN HighestLevel(q) ELSE c
<1>1. /\ c \in Levels
      /\ running \in [Levels -> Seq(Tasks)]
      /\ running[c] \in Seq(Tasks) /\ running[c] # << >>
      /\ Head(running[c]) = cpu
      /\ cpu \in Tasks
      /\ \A l \in Levels : IsInjective(running[l])
  BY DEF IInv, TypeOK, CurrentIsOnCpu, CurrentTask, QueuesMatchFlags
<1>2. /\ rest \in Seq(Tasks)
      /\ ToSet(rest) = ToSet(running[c]) \ {cpu}
      /\ IsInjective(rest)
      /\ cpu \in ToSet(running[c])
  BY <1>1, TailOfQueue, HeadInSet
<1>3. /\ q = [running EXCEPT ![c] = IF sleep THEN rest ELSE Append(rest, cpu)]
      /\ q \in [Levels -> Seq(Tasks)]
  BY <1>1, <1>2, AppendToQueue DEF Requeued, CurrentTask
<1>4. /\ IsInjective(q[c])
      /\ ToSet(q[c]) = ToSet(running[c]) \ (IF sleep THEN {cpu} ELSE {})
      /\ \A l \in Levels \ {c} : q[l] = running[l]
  <2>1. CASE sleep
    BY <1>1, <1>2, <1>3, <2>1
  <2>2. CASE ~sleep
    <3>1. q[c] = Append(rest, cpu)
      BY <1>1, <1>3, <2>2
    <3>2. IsInjective(q[c]) /\ ToSet(q[c]) = ToSet(rest) \cup {cpu}
      <4> HIDE DEF q, rest
      <4> QED
        BY <1>1, <1>2, <3>1, AppendToQueue
    <3> QED
      BY <1>1, <1>2, <1>3, <2>2, <3>2
  <2> QED
    BY <2>1, <2>2
<1>5. \A l \in Levels \ {c} : cpu \notin ToSet(running[l])
  BY <1>1, <1>2 DEF IInv, QueuesMatchFlags
<1>6. \A l \in Levels : /\ IsInjective(q[l])
                        /\ ToSet(q[l]) =
                             ToSet(running[l]) \ (IF sleep THEN {cpu} ELSE {})
  BY <1>1, <1>4, <1>5
<1>7. /\ running' = q
      /\ currentLevel' = lv
      /\ levelChanged' = FALSE
      /\ cpu' = Head(q[lv])
  BY DEF SwitchTo
<1>8. PICK i \in Levels : q[i] # << >>
  <2>1. level[IdleId] \in Levels /\ IdleId \in ToSet(running[level[IdleId]])
    BY BoundAssumption DEF IInv, IdleIsReady, QueuesMatchFlags, TypeOK, TaskIds, IdleId
  <2>2. IdleId \in ToSet(q[level[IdleId]])
    BY <1>6, <2>1
  <2> QED
    BY <1>3, <2>1, <2>2, EmptyToSet
<1> HIDE DEF q
<1>9. /\ lv \in Levels
      /\ q[lv] # << >>
      /\ \A l \in Levels : l > lv => q[l] = << >>
  <2>1. CASE levelChanged \/ q[c] = << >>
    <3> DEFINE L == {l \in Levels : q[l] # << >>}
    <3>1. L \in SUBSET Levels /\ L # {}
      BY <1>8
    <3>2. HighestLevel(q) \in L /\ \A l \in L : l <= HighestLevel(q)
      BY <3>1, HighestExists DEF HighestLevel
    <3> QED
      BY <2>1, <3>2 DEF Levels
  <2>2. CASE ~(levelChanged \/ q[c] = << >>)
    BY <1>1, <1>4, <2>2 DEF IInv, HigherLevelIsNoticed, Levels
  <2> QED
    BY <2>1, <2>2
<1> HIDE DEF lv
<1> QED
  BY <1>3, <1>6, <1>7, <1>9

\* A context switch keeps the invariant, whether or not the current task, which
\* is then not the idle task, goes to sleep with it.
LEMMA SwitchToIInv ==
  ASSUME IInv, NEW sleep \in BOOLEAN, SwitchTo(sleep), sleep => cpu # IdleId,
         runningFlag' = [t \in TaskIds |-> runningFlag[t] /\ ~(sleep /\ t = cpu)],
         UNCHANGED <<latestId, level, msgs>>
  PROVE  IInv'
<1>1. /\ running' \in [Levels -> Seq(Tasks)]
      /\ \A l \in Levels : /\ IsInjective(running'[l])
                           /\ ToSet(running'[l]) =
                                ToSet(running[l]) \ (IF sleep THEN {cpu} ELSE {})
      /\ currentLevel' \in Levels
      /\ levelChanged' = FALSE
      /\ running'[currentLevel'] # << >>
      /\ cpu' = Head(running'[currentLevel'])
      /\ \A l \in Levels : l > currentLevel' => running'[l] = << >>
  BY SwitchToFacts
<1>2. \A t \in TaskIds : runningFlag'[t] <=> (runningFlag[t] /\ ~(sleep /\ t = cpu))
  OBVIOUS
<1>3. /\ level \in [TaskIds -> Levels] /\ Tasks' = Tasks
      /\ Tasks \subseteq TaskIds
  BY BoundAssumption DEF IInv, TypeOK, Tasks, TaskIds
<1>4. TypeOK'
  <2>1. runningFlag' \in [TaskIds -> BOOLEAN]
    OBVIOUS
  <2>2. cpu' \in Tasks'
    BY <1>1, <1>3, HeadInSet
  <2> QED
    BY <1>1, <1>3, <2>1, <2>2 DEF IInv, TypeOK
<1>5. QueuesMatchFlags'
  <2>1. ASSUME NEW l \in Levels, NEW t \in ToSet(running'[l])
        PROVE  runningFlag'[t] /\ level'[t] = l
    <3>1. t \in ToSet(running[l]) /\ ~(sleep /\ t = cpu)
      BY <1>1, <2>1
    <3>2. t \in TaskIds
      BY <1>3, <3>1, ToSetType DEF IInv, TypeOK
    <3> QED
      BY <1>2, <3>1, <3>2 DEF IInv, QueuesMatchFlags
  <2>2. ASSUME NEW t \in TaskIds, runningFlag'[t]
        PROVE  t \in ToSet(running'[level'[t]])
    BY <1>1, <1>2, <1>3, <2>2 DEF IInv, QueuesMatchFlags
  <2> QED
    BY <1>1, <2>1, <2>2 DEF QueuesMatchFlags
<1>6. CurrentIsOnCpu'
  BY <1>1 DEF CurrentIsOnCpu, CurrentTask
<1>7. HigherLevelIsNoticed'
  BY <1>1 DEF HigherLevelIsNoticed
<1>8. IdleIsReady'
  BY <1>2, BoundAssumption DEF IInv, IdleIsReady, TaskIds, IdleId
<1> QED
  BY <1>4, <1>5, <1>6, <1>7, <1>8 DEF IInv

\* Sleep keeps the invariant: of the task on the processor, which hands it on,
\* and of any other, which is erased from its queue.
LEMMA SleepIInv == ASSUME IInv, NEW t \in Clients, Sleep(t) PROVE IInv'
<1>1. /\ t \in TaskIds /\ t \in Tasks /\ t # IdleId
      /\ runningFlag \in [TaskIds -> BOOLEAN]
      /\ level \in [TaskIds -> Levels]
      /\ latestId \in 2 .. MaxTasks /\ latestId' = latestId
      /\ Tasks' = Tasks
  <2>1. latestId \in 2 .. MaxTasks /\ latestId' = latestId
    BY DEF IInv, TypeOK, Sleep
  <2> QED
    BY <2>1, BoundAssumption DEF IInv, TypeOK, Clients, Tasks, TaskIds
<1>2. runningFlag[t] /\ runningFlag' = [runningFlag EXCEPT ![t] = FALSE]
  BY DEF Sleep
<1>3. CASE t = CurrentTask
  <2>1. t = cpu
    BY <1>3 DEF IInv, CurrentIsOnCpu
  <2>2. SwitchTo(TRUE) /\ UNCHANGED <<latestId, level, msgs>>
    BY <1>3 DEF Sleep
  <2>3. runningFlag' = [u \in TaskIds |-> runningFlag[u] /\ ~(TRUE /\ u = cpu)]
    <3>1. \A u \in TaskIds : runningFlag'[u] = (runningFlag[u] /\ ~(TRUE /\ u = cpu))
      BY <1>1, <1>2, <2>1
    <3> QED
      BY <1>1, <1>2, <3>1
  <2> QED
    BY <1>1, <2>1, <2>2, <2>3, SwitchToIInv
<1>4. CASE t # CurrentTask
  <2> DEFINE k == level[t]
             e == Erase(running[k], t)
  <2>1. /\ running' = [running EXCEPT ![k] = e]
        /\ UNCHANGED <<latestId, level, msgs, currentLevel, levelChanged, cpu>>
    BY <1>4 DEF Sleep
  <2>2. /\ k \in Levels /\ t \in ToSet(running[k])
        /\ running \in [Levels -> Seq(Tasks)]
        /\ \A l \in Levels : IsInjective(running[l])
        /\ currentLevel \in Levels
        /\ running[currentLevel] # << >> /\ cpu = Head(running[currentLevel])
    BY <1>1, <1>2 DEF IInv, TypeOK, QueuesMatchFlags, CurrentIsOnCpu, CurrentTask
  <2>3. e \in Seq(Tasks) /\ ToSet(e) = ToSet(running[k]) \ {t} /\ IsInjective(e)
    BY <2>2, EraseFromQueue
  <2>4. t # cpu
    BY <1>4 DEF IInv, CurrentIsOnCpu
  <2>5. k = currentLevel => e # << >> /\ Head(e) = cpu
    BY <2>2, <2>4, EraseKeepsFront
  <2> HIDE DEF e
  <2>6. /\ running' \in [Levels -> Seq(Tasks)]
        /\ \A l \in Levels : /\ IsInjective(running'[l])
                             /\ l # k => running'[l] = running[l]
        /\ running'[k] = e
    BY <2>1, <2>2, <2>3
  <2>7. TypeOK'
    BY <1>1, <1>2, <2>1, <2>6 DEF IInv, TypeOK
  <2>8. QueuesMatchFlags'
    <3>1. ASSUME NEW l \in Levels, NEW u \in ToSet(running'[l])
          PROVE  runningFlag'[u] /\ level'[u] = l
      <4>1. u \in ToSet(running[l]) /\ u # t
        <5>1. CASE l = k
          BY <2>3, <2>6, <3>1, <5>1
        <5>2. CASE l # k
          <6>1. u \in ToSet(running[l])
            BY <2>6, <3>1, <5>2
          <6> QED
            BY <5>2, <6>1 DEF IInv, QueuesMatchFlags
        <5> QED
          BY <5>1, <5>2
      <4>2. runningFlag[u] /\ level[u] = l
        BY <4>1 DEF IInv, QueuesMatchFlags
      <4>3. u \in TaskIds
        <5>1. u \in Tasks
          BY <2>2, <4>1, ToSetType
        <5> QED
          BY <1>1, <5>1, BoundAssumption DEF Tasks, TaskIds
      <4> QED
        BY <1>1, <1>2, <2>1, <4>1, <4>2, <4>3
    <3>2. ASSUME NEW u \in TaskIds, runningFlag'[u]
          PROVE  u \in ToSet(running'[level'[u]])
      <4>1. u # t /\ runningFlag[u]
        BY <1>1, <1>2, <3>2
      <4>2. u \in ToSet(running[level[u]]) /\ level[u] \in Levels
        BY <1>1, <4>1 DEF IInv, QueuesMatchFlags
      <4> QED
        BY <2>1, <2>3, <2>6, <4>1, <4>2
    <3> QED
      BY <2>6, <3>1, <3>2 DEF QueuesMatchFlags
  <2>9. CurrentIsOnCpu'
    BY <2>1, <2>2, <2>5, <2>6 DEF CurrentIsOnCpu, CurrentTask
  <2>10. HigherLevelIsNoticed'
    <3>1. ASSUME NEW l \in Levels, running'[l] # << >> PROVE running[l] # << >>
      <4>1. l = k => running[l] # << >>
        BY <2>2, EmptyToSet
      <4> QED
        BY <2>6, <3>1, <4>1
    <3> QED
      BY <2>1, <3>1 DEF IInv, HigherLevelIsNoticed
  <2>11. IdleIsReady'
    BY <1>1, <1>2, BoundAssumption DEF IInv, IdleIsReady, TaskIds, IdleId
  <2> QED
    BY <2>7, <2>8, <2>9, <2>10, <2>11 DEF IInv
<1> QED
  BY <1>3, <1>4

\* A running task t moves from the queue of its level to the one of level l.
LEMMA MoveFacts ==
  ASSUME IInv, NEW t \in Clients, NEW l \in Levels, l # level[t], runningFlag[t],
         NEW e \in Seq(Tasks), NEW a \in Seq(Tasks),
         ToSet(e) = ToSet(running[level[t]]) \ {t}, IsInjective(e),
         ToSet(a) = ToSet(running[l]) \cup {t}, IsInjective(a),
         running' = [running EXCEPT ![level[t]] = e, ![l] = a],
         level' = [level EXCEPT ![t] = l],
         UNCHANGED <<latestId, runningFlag>>
  PROVE  /\ running' \in [Levels -> Seq(Tasks')]
         /\ level' \in [TaskIds -> Levels]
         /\ QueuesMatchFlags'
<1>1. /\ t \in TaskIds /\ level[t] \in Levels
      /\ Tasks' = Tasks /\ Tasks \subseteq TaskIds
      /\ level \in [TaskIds -> Levels]
      /\ running \in [Levels -> Seq(Tasks)]
  BY BoundAssumption DEF IInv, TypeOK, Clients, Tasks, TaskIds
<1>2. /\ running' \in [Levels -> Seq(Tasks)]
      /\ running'[level[t]] = e /\ running'[l] = a
      /\ \A k \in Levels \ {level[t], l} : running'[k] = running[k]
  BY <1>1
<1>3. level' \in [TaskIds -> Levels] /\ level'[t] = l
      /\ \A u \in TaskIds \ {t} : level'[u] = level[u]
  BY <1>1
<1>4. /\ \A k \in Levels : \A u \in ToSet(running[k]) : runningFlag[u] /\ level[u] = k
      /\ \A u \in TaskIds : runningFlag[u] => u \in ToSet(running[level[u]])
      /\ \A k \in Levels : IsInjective(running[k])
  BY DEF IInv, QueuesMatchFlags
<1>5. ASSUME NEW k \in Levels, NEW u \in ToSet(running'[k])
      PROVE  runningFlag'[u] /\ level'[u] = k
  <2>1. u \in TaskIds
    BY <1>1, <1>2, <1>5, ToSetType
  <2>2. CASE k = level[t]
    BY <1>1, <1>2, <1>3, <1>4, <1>5, <2>1, <2>2
  <2>3. CASE k = l
    <3>1. u = t \/ u \in ToSet(running[l])
      BY <1>2, <1>5, <2>3
    <3> QED
      BY <1>1, <1>3, <1>4, <2>1, <2>3, <3>1
  <2>4. CASE k # level[t] /\ k # l
    <3>1. u \in ToSet(running[k])
      BY <1>2, <1>5, <2>4
    <3>2. u # t /\ runningFlag[u] /\ level[u] = k
      BY <1>1, <1>4, <2>4, <3>1
    <3> QED
      BY <1>3, <2>1, <3>2
  <2> QED
    BY <2>2, <2>3, <2>4
<1>6. ASSUME NEW u \in TaskIds, runningFlag'[u]
      PROVE  u \in ToSet(running'[level'[u]])
  <2>1. CASE u = t
    BY <1>2, <1>3, <2>1
  <2>2. CASE u # t
    <3>1. u \in ToSet(running[level[u]]) /\ level'[u] = level[u] /\ level[u] \in Levels
      BY <1>1, <1>3, <1>4, <1>6, <2>2
    <3> QED
      BY <1>2, <2>2, <3>1
  <2> QED
    BY <2>1, <2>2
<1>7. \A k \in Levels : IsInjective(running'[k])
  BY <1>2, <1>4
<1> QED
  BY <1>1, <1>2, <1>3, <1>5, <1>6, <1>7 DEF QueuesMatchFlags

\* Wakeup of a task that runs, with a level, keeps the invariant.
LEMMA ChangeLevelRunningIInv ==
  ASSUME IInv, NEW t \in Clients, NEW l \in -1 .. kMaxLevel, runningFlag[t],
         ChangeLevelRunning(t, l),
         UNCHANGED <<latestId, cpu>>, msgs' \in [TaskIds -> Seq(Msg)]
  PROVE  IInv'
<1> DEFINE k == level[t]
<1>1. /\ t \in TaskIds /\ t \in Tasks /\ t # IdleId
      /\ k \in Levels /\ currentLevel \in Levels
      /\ latestId \in 2 .. MaxTasks
      /\ runningFlag \in [TaskIds -> BOOLEAN]
      /\ levelChanged \in BOOLEAN
      /\ cpu \in Tasks
      /\ running \in [Levels -> Seq(Tasks)]
      /\ t \in ToSet(running[k])
      /\ \A h \in Levels : IsInjective(running[h])
      /\ running[currentLevel] # << >> /\ cpu = Head(running[currentLevel])
      /\ CurrentTask = cpu
      /\ \A h \in Levels : h > currentLevel /\ running[h] # << >> => levelChanged
  <2>1. t \in Tasks /\ Tasks \subseteq TaskIds /\ t # IdleId
    BY BoundAssumption DEF IInv, TypeOK, Clients, Tasks, TaskIds
  <2> QED
    BY <2>1 DEF IInv, TypeOK, QueuesMatchFlags, CurrentIsOnCpu, CurrentTask,
                HigherLevelIsNoticed
<1>2. Tasks' = Tasks
  BY DEF Tasks
<1>3. ASSUME l < 0 \/ l = k, UNCHANGED queueVars PROVE IInv'
  <2>1. TypeOK'
    BY <1>2, <1>3 DEF IInv, TypeOK, queueVars
  <2> QED
    BY <1>3, <2>1 DEF IInv, queueVars, QueuesMatchFlags, CurrentIsOnCpu, CurrentTask,
                      HigherLevelIsNoticed, IdleIsReady
<1>4. ASSUME l >= 0, l # k PROVE l \in Levels
  BY <1>4, LevelAssumption DEF Levels
<1>5. ASSUME l >= 0, l # k, t # CurrentTask,
             running' = Enqueue([running EXCEPT ![k] = Erase(@, t)], l, t),
             level' = [level EXCEPT ![t] = l],
             levelChanged' = (levelChanged \/ l > currentLevel),
             UNCHANGED <<runningFlag, currentLevel>>
      PROVE  IInv'
  <2> DEFINE e == Erase(running[k], t)
             a == Append(running[l], t)
  <2>1. l \in Levels
    BY <1>4, <1>5
  <2>2. /\ e \in Seq(Tasks) /\ ToSet(e) = ToSet(running[k]) \ {t} /\ IsInjective(e)
        /\ Head(running[k]) # t => e # << >> /\ Head(e) = Head(running[k])
    BY <1>1, EraseFromQueue, EraseKeepsFront
  <2>3. t \notin ToSet(running[l])
    BY <1>5, <2>1 DEF IInv, QueuesMatchFlags
  <2>4. /\ a \in Seq(Tasks) /\ ToSet(a) = ToSet(running[l]) \cup {t} /\ IsInjective(a)
        /\ a # << >>
        /\ running[l] # << >> => Head(a) = Head(running[l])
    <3>1. running[l] \in Seq(Tasks) /\ IsInjective(running[l]) /\ t \in Tasks
      BY <1>1, <2>1
    <3> QED
      BY <2>3, <3>1, AppendToQueue
  <2>5. running' = [running EXCEPT ![k] = e, ![l] = a]
    BY <1>1, <1>5, <2>1 DEF Enqueue
  <2> HIDE DEF e, a, k
  <2>6. /\ running' \in [Levels -> Seq(Tasks')]
        /\ level' \in [TaskIds -> Levels]
        /\ QueuesMatchFlags'
    BY <1>1, <1>5, <2>1, <2>2, <2>4, <2>5, MoveFacts DEF k
  <2>7. /\ running'[k] = e /\ running'[l] = a
        /\ \A h \in Levels \ {k, l} : running'[h] = running[h]
    BY <1>1, <1>5, <2>1, <2>5
  <2>8. TypeOK'
    BY <1>1, <1>2, <1>5, <2>6 DEF TypeOK
  <2>9. CurrentIsOnCpu'
    <3>1. running'[currentLevel] # << >> /\ Head(running'[currentLevel]) = cpu
      BY <1>1, <1>5, <2>1, <2>2, <2>4, <2>7
    <3> QED
      BY <1>5, <3>1 DEF CurrentIsOnCpu, CurrentTask
  <2>10. HigherLevelIsNoticed'
    <3>1. ASSUME NEW h \in Levels, h > currentLevel, running'[h] # << >>
          PROVE  levelChanged \/ l > currentLevel
      <4>1. h = k => running[h] # << >>
        BY <1>1, EmptyToSet DEF k
      <4> QED
        BY <1>1, <2>7, <3>1, <4>1
    <3> QED
      BY <1>5, <3>1 DEF HigherLevelIsNoticed
  <2>11. IdleIsReady'
    BY <1>5 DEF IInv, IdleIsReady
  <2> QED
    BY <2>6, <2>8, <2>9, <2>10, <2>11 DEF IInv
<1>6. ASSUME l >= 0, l # k, t = CurrentTask,
             running' = [running EXCEPT ![currentLevel] = Tail(@), ![l] = <<t>> \o @],
             level' = [level EXCEPT ![t] = l],
             currentLevel' = l,
             levelChanged' = (levelChanged \/ l < currentLevel),
             UNCHANGED runningFlag
      PROVE  IInv'
  <2> DEFINE e == Tail(running[k])
             a == <<t>> \o running[l]
  <2>1. l \in Levels
    BY <1>4, <1>6
  <2>2. k = currentLevel
    BY <1>1, <1>6, HeadInSet DEF IInv, QueuesMatchFlags
  <2>3. e \in Seq(Tasks) /\ ToSet(e) = ToSet(running[k]) \ {t} /\ IsInjective(e)
    BY <1>1, <1>6, <2>2, TailOfQueue
  <2>4. t \notin ToSet(running[l])
    BY <1>6, <2>1 DEF IInv, QueuesMatchFlags
  <2>5. /\ a \in Seq(Tasks) /\ ToSet(a) = ToSet(running[l]) \cup {t} /\ IsInjective(a)
        /\ a # << >> /\ Head(a) = t
    <3>1. running[l] \in Seq(Tasks) /\ IsInjective(running[l])
      BY <1>1, <2>1
    <3> QED
      BY <1>1, <2>4, <3>1, PushFrontOfQueue
  <2>6. running' = [running EXCEPT ![k] = e, ![l] = a]
    BY <1>1, <1>6, <2>1, <2>2
  <2> HIDE DEF e, a, k
  <2>7. /\ running' \in [Levels -> Seq(Tasks')]
        /\ level' \in [TaskIds -> Levels]
        /\ QueuesMatchFlags'
    BY <1>1, <1>6, <2>1, <2>3, <2>5, <2>6, MoveFacts DEF k
  <2>8. /\ running'[k] = e /\ running'[l] = a
        /\ \A h \in Levels \ {k, l} : running'[h] = running[h]
    BY <1>1, <1>6, <2>1, <2>6
  <2>9. TypeOK'
    BY <1>1, <1>2, <1>6, <2>1, <2>7 DEF TypeOK
  <2>10. CurrentIsOnCpu'
    BY <1>1, <1>6, <2>5, <2>8 DEF CurrentIsOnCpu, CurrentTask
  <2>11. HigherLevelIsNoticed'
    <3>1. ASSUME NEW h \in Levels, h > l, running'[h] # << >>
          PROVE  levelChanged \/ l < currentLevel
      BY <1>1, <2>1, <2>2, <2>8, <3>1 DEF Levels
    <3> QED
      BY <1>6, <3>1 DEF HigherLevelIsNoticed
  <2>12. IdleIsReady'
    BY <1>6 DEF IInv, IdleIsReady
  <2> QED
    BY <2>7, <2>9, <2>10, <2>11, <2>12 DEF IInv
<1> QED
  BY <1>3, <1>5, <1>6 DEF ChangeLevelRunning

\* Wakeup of a task that sleeps keeps the invariant.
LEMMA StartRunningIInv ==
  ASSUME IInv, NEW t \in Clients, NEW l \in -1 .. kMaxLevel, ~runningFlag[t],
         StartRunning(t, l),
         UNCHANGED <<latestId, cpu>>, msgs' \in [TaskIds -> Seq(Msg)]
  PROVE  IInv'
<1> DEFINE lv == IF l < 0 THEN level[t] ELSE l
           a == Append(running[lv], t)
<1>1. /\ t \in TaskIds /\ t \in Tasks /\ t # IdleId
      /\ latestId \in 2 .. MaxTasks
      /\ level \in [TaskIds -> Levels]
      /\ runningFlag \in [TaskIds -> BOOLEAN]
      /\ running \in [Levels -> Seq(Tasks)]
      /\ currentLevel \in Levels /\ levelChanged \in BOOLEAN /\ cpu \in Tasks
      /\ running[currentLevel] # << >> /\ cpu = Head(running[currentLevel])
  <2>1. t \in Tasks /\ Tasks \subseteq TaskIds /\ t # IdleId
    BY BoundAssumption DEF IInv, TypeOK, Clients, Tasks, TaskIds
  <2> QED
    BY <2>1 DEF IInv, TypeOK, CurrentIsOnCpu, CurrentTask
<1>2. /\ level' = [level EXCEPT ![t] = lv]
      /\ runningFlag' = [runningFlag EXCEPT ![t] = TRUE]
      /\ running' = [running EXCEPT ![lv] = a]
      /\ levelChanged' = (levelChanged \/ lv > currentLevel)
      /\ currentLevel' = currentLevel
  BY DEF StartRunning, Enqueue
<1>3. lv \in Levels
  BY <1>1, LevelAssumption DEF Levels
<1>4. \A h \in Levels : t \notin ToSet(running[h])
  BY DEF IInv, QueuesMatchFlags
<1> HIDE DEF lv
<1>5. /\ a \in Seq(Tasks) /\ ToSet(a) = ToSet(running[lv]) \cup {t}
      /\ IsInjective(a) /\ a # << >>
      /\ running[lv] # << >> => Head(a) = Head(running[lv])
  <2>1. running[lv] \in Seq(Tasks) /\ IsInjective(running[lv])
    BY <1>1, <1>3 DEF IInv, QueuesMatchFlags
  <2> QED
    BY <1>1, <1>3, <1>4, <2>1, AppendToQueue
<1> HIDE DEF a
<1>6. /\ running' \in [Levels -> Seq(Tasks)] /\ running'[lv] = a
      /\ \A h \in Levels \ {lv} : running'[h] = running[h]
      /\ level' \in [TaskIds -> Levels] /\ level'[t] = lv
      /\ runningFlag' \in [TaskIds -> BOOLEAN] /\ runningFlag'[t]
      /\ \A u \in TaskIds \ {t} : level'[u] = level[u] /\ runningFlag'[u] = runningFlag[u]
      /\ Tasks' = Tasks
  BY <1>1, <1>2, <1>3, <1>5 DEF Tasks
<1>7. TypeOK'
  BY <1>1, <1>2, <1>6 DEF TypeOK
<1>8. QueuesMatchFlags'
  <2>1. ASSUME NEW h \in Levels, NEW u \in ToSet(running'[h])
        PROVE  runningFlag'[u] /\ level'[u] = h
    <3>1. u \in TaskIds
      <4>1. u \in Tasks
        BY <1>6, <2>1, ToSetType
      <4> QED
        BY <1>1, <4>1, BoundAssumption DEF Tasks, TaskIds
    <3>2. u \in ToSet(running[h]) \/ (u = t /\ h = lv)
      BY <1>5, <1>6, <2>1
    <3>3. CASE u = t
      BY <1>4, <1>6, <3>2, <3>3
    <3>4. CASE u # t
      <4>1. runningFlag[u] /\ level[u] = h
        BY <3>2, <3>4 DEF IInv, QueuesMatchFlags
      <4> QED
        BY <1>6, <3>1, <3>4, <4>1
    <3> QED
      BY <3>3, <3>4
  <2>2. ASSUME NEW u \in TaskIds, runningFlag'[u]
        PROVE  u \in ToSet(running'[level'[u]])
    <3>1. CASE u = t
      BY <1>5, <1>6, <3>1
    <3>2. CASE u # t
      <4>1. level'[u] = level[u] /\ runningFlag[u]
        BY <1>6, <2>2, <3>2
      <4>2. u \in ToSet(running[level[u]]) /\ level[u] \in Levels
        BY <1>1, <4>1 DEF IInv, QueuesMatchFlags
      <4> QED
        BY <1>5, <1>6, <4>1, <4>2
    <3> QED
      BY <3>1, <3>2
  <2>3. \A h \in Levels : IsInjective(running'[h])
    BY <1>5, <1>6 DEF IInv, QueuesMatchFlags
  <2> QED
    BY <2>1, <2>2, <2>3 DEF QueuesMatchFlags
<1>9. CurrentIsOnCpu'
  BY <1>1, <1>2, <1>5, <1>6 DEF CurrentIsOnCpu, CurrentTask
<1>10. HigherLevelIsNoticed'
  <2>1. ASSUME NEW h \in Levels, h > currentLevel, running'[h] # << >>
        PROVE  levelChanged \/ lv > currentLevel
    BY <1>6, <2>1 DEF IInv, HigherLevelIsNoticed
  <2> QED
    BY <1>2, <2>1 DEF HigherLevelIsNoticed
<1>11. IdleIsReady'
  BY <1>1, <1>2, BoundAssumption DEF IInv, IdleIsReady, TaskIds, IdleId
<1> QED
  BY <1>7, <1>8, <1>9, <1>10, <1>11 DEF IInv

\* Every step of the task manager keeps the invariant.
LEMMA NextIInv == IInv /\ [Next]_vars => IInv'
<1> SUFFICES ASSUME IInv, [Next]_vars PROVE IInv'
  OBVIOUS
<1>1. CASE NewTask
  <2>1. /\ latestId \in 2 .. MaxTasks /\ latestId' \in 2 .. MaxTasks
        /\ Tasks \subseteq Tasks'
    BY <1>1, BoundAssumption DEF IInv, TypeOK, NewTask, Tasks
  <2>2. running' \in [Levels -> Seq(Tasks')] /\ cpu' \in Tasks'
    <3>1. \A l \in Levels : running[l] \in Seq(Tasks')
      BY <2>1, SeqMonotonic DEF IInv, TypeOK
    <3> QED
      BY <1>1, <2>1, <3>1 DEF IInv, TypeOK, NewTask, queueVars
  <2> QED
    BY <1>1, <2>1, <2>2
       DEF IInv, NewTask, queueVars, TypeOK, QueuesMatchFlags, CurrentIsOnCpu,
           CurrentTask, HigherLevelIsNoticed, IdleIsReady
<1>2. CASE SwitchTask
  <2>1. runningFlag' = [u \in TaskIds |-> runningFlag[u] /\ ~(FALSE /\ u = cpu)]
    BY <1>2 DEF IInv, TypeOK, SwitchTask
  <2> QED
    BY <1>2, <2>1, SwitchToIInv DEF SwitchTask
<1>3. CASE ReceiveMessage
  <2>1. msgs' \in [TaskIds -> Seq(Msg)] /\ Tasks' = Tasks
    <3>1. cpu \in TaskIds
      BY BoundAssumption DEF IInv, TypeOK, Tasks, TaskIds
    <3>2. Tail(msgs[cpu]) \in Seq(Msg)
      BY <1>3, <3>1, HeadTailProperties DEF IInv, TypeOK, ReceiveMessage
    <3> QED
      BY <1>3, <3>1, <3>2 DEF IInv, TypeOK, ReceiveMessage, Tasks
  <2> QED
    BY <1>3, <2>1
       DEF IInv, ReceiveMessage, queueVars, TypeOK, QueuesMatchFlags, CurrentIsOnCpu,
           CurrentTask, HigherLevelIsNoticed, IdleIsReady
<1>4. ASSUME NEW t \in Clients, Sleep(t) PROVE IInv'
  BY <1>4, SleepIInv
<1>5. ASSUME NEW t \in Clients, NEW l \in -1 .. kMaxLevel, WakeupTask(t, l),
             UNCHANGED <<latestId, cpu>>, msgs' \in [TaskIds -> Seq(Msg)]
      PROVE  IInv'
  BY <1>5, ChangeLevelRunningIInv, StartRunningIInv DEF WakeupTask
<1>6. ASSUME NEW t \in Clients, NEW l \in -1 .. kMaxLevel, Wakeup(t, l) PROVE IInv'
  BY <1>5, <1>6 DEF Wakeup, IInv, TypeOK
<1>7. ASSUME NEW t \in Clients, NEW m \in Msg, SendMessage(t, m) PROVE IInv'
  <2>1. t \in TaskIds
    BY BoundAssumption DEF IInv, TypeOK, Clients, Tasks, TaskIds
  <2>2. msgs' \in [TaskIds -> Seq(Msg)]
    BY <1>7, <2>1, AppendProperties DEF IInv, TypeOK, SendMessage
  <2>3. -1 \in -1 .. kMaxLevel
    BY LevelAssumption
  <2> QED
    BY <1>5, <1>7, <2>2, <2>3 DEF SendMessage
<1>8. CASE UNCHANGED vars
  BY <1>8 DEF IInv, vars, TypeOK, Tasks, QueuesMatchFlags, CurrentIsOnCpu,
              CurrentTask, HigherLevelIsNoticed, IdleIsReady
<1> QED
  BY <1>1, <1>2, <1>3, <1>4, <1>6, <1>7, <1>8 DEF Next

----------------------------------------------------------------------------
\* The invariant holds throughout every behaviour of the task manager.
THEOREM AlwaysIInv == Spec => []IInv
<1> QED
  BY InitIInv, NextIInv, PTL DEF Spec

\* The variables keep their types.
THEOREM TypeCorrect == Spec => []TypeOK
<1>1. IInv => TypeOK
  BY DEF IInv
<1> QED
  BY <1>1, AlwaysIInv, PTL

\* A task is in the run queue its flag and level say it is in, and in no other.
THEOREM QueuesAlwaysMatchFlags == Spec => []QueuesMatchFlags
<1>1. IInv => QueuesMatchFlags
  BY DEF IInv
<1> QED
  BY <1>1, AlwaysIInv, PTL

\* CurrentTask() is the task whose context the processor executes.
THEOREM CurrentAlwaysOnCpu == Spec => []CurrentIsOnCpu
<1>1. IInv => CurrentIsOnCpu
  BY DEF IInv
<1> QED
  BY <1>1, AlwaysIInv, PTL

\* No task waits at a higher level without the task manager knowing.
THEOREM HigherLevelAlwaysNoticed == Spec => []HigherLevelIsNoticed
<1>1. IInv => HigherLevelIsNoticed
  BY DEF IInv
<1> QED
  BY <1>1, AlwaysIInv, PTL

----------------------------------------------------------------------------
(* The order of the tasks that wait.                                       *)

\* s is in front of t in the queue q.
Ahead(q, s, t) == \E i, j \in DOMAIN q : i < j /\ q[i] = s /\ q[j] = t

\* Those of whom one is in front of the other are in the queue.
LEMMA AheadInQueue ==
  ASSUME NEW q, NEW s, NEW t, Ahead(q, s, t)
  PROVE  s \in ToSet(q) /\ t \in ToSet(q)
BY DEF Ahead, ToSet

\* What Append, a push to the front, pop_front and Erase do to the order.
LEMMA AheadAfterAppend ==
  ASSUME NEW S, NEW q \in Seq(S), NEW x \in S, NEW s, NEW t, Ahead(Append(q, x), s, t)
  PROVE  Ahead(q, s, t) \/ (t = x /\ s \in ToSet(q))
<1>1. /\ Len(Append(q, x)) = Len(q) + 1 /\ Append(q, x) \in Seq(S)
      /\ \A i \in 1 .. Len(q) : Append(q, x)[i] = q[i]
      /\ Append(q, x)[Len(q) + 1] = x
  BY AppendProperties
<1>2. DOMAIN q = 1 .. Len(q) /\ Len(q) \in Nat /\ DOMAIN Append(q, x) = 1 .. Len(q) + 1
  BY <1>1, LenProperties
<1>3. PICK i \in DOMAIN Append(q, x), j \in DOMAIN Append(q, x) :
        i < j /\ Append(q, x)[i] = s /\ Append(q, x)[j] = t
  BY DEF Ahead
<1>4. i \in DOMAIN q /\ q[i] = s
  BY <1>1, <1>2, <1>3
<1>5. CASE j = Len(q) + 1
  BY <1>1, <1>3, <1>4, <1>5 DEF ToSet
<1>6. CASE j # Len(q) + 1
  <2>1. j \in DOMAIN q /\ q[j] = t
    BY <1>1, <1>2, <1>3, <1>6
  <2> QED
    BY <1>3, <1>4, <2>1 DEF Ahead
<1> QED
  BY <1>5, <1>6

LEMMA AheadAfterPush ==
  ASSUME NEW S, NEW q \in Seq(S), NEW x \in S, NEW s, NEW t, Ahead(<<x>> \o q, s, t)
  PROVE  Ahead(q, s, t) \/ (s = x /\ t \in ToSet(q))
<1> DEFINE r == <<x>> \o q
<1>1. <<x>> \in Seq(S) /\ Len(<<x>>) = 1 /\ <<x>>[1] = x
  OBVIOUS
<1>2. /\ r \in Seq(S) /\ Len(r) = Len(q) + 1
      /\ \A i \in 1 .. Len(r) : r[i] = IF i = 1 THEN x ELSE q[i - 1]
  BY <1>1, ConcatProperties, LenProperties
<1> HIDE DEF r
<1>3. DOMAIN q = 1 .. Len(q) /\ Len(q) \in Nat /\ DOMAIN r = 1 .. Len(q) + 1
  BY <1>2, LenProperties
<1>4. PICK i \in DOMAIN r, j \in DOMAIN r : i < j /\ r[i] = s /\ r[j] = t
  BY DEF Ahead, r
<1>5. j - 1 \in DOMAIN q /\ q[j - 1] = t
  BY <1>2, <1>3, <1>4
<1>6. CASE i = 1
  BY <1>2, <1>3, <1>4, <1>5, <1>6 DEF ToSet
<1>7. CASE i # 1
  <2>1. i - 1 \in DOMAIN q /\ q[i - 1] = s /\ i - 1 < j - 1
    BY <1>2, <1>3, <1>4, <1>7
  <2> QED
    BY <1>5, <2>1 DEF Ahead
<1> QED
  BY <1>6, <1>7

LEMMA AheadAfterTail ==
  ASSUME NEW S, NEW q \in Seq(S), q # << >>, NEW s, NEW t, Ahead(Tail(q), s, t)
  PROVE  Ahead(q, s, t)
<1>1. /\ Tail(q) \in Seq(S) /\ Len(Tail(q)) = Len(q) - 1
      /\ \A i \in 1 .. Len(Tail(q)) : Tail(q)[i] = q[i + 1]
  BY HeadTailProperties
<1>2. DOMAIN q = 1 .. Len(q) /\ Len(q) \in Nat /\ DOMAIN Tail(q) = 1 .. Len(Tail(q))
  BY <1>1, LenProperties
<1>3. PICK i \in DOMAIN Tail(q), j \in DOMAIN Tail(q) :
        i < j /\ Tail(q)[i] = s /\ Tail(q)[j] = t
  BY DEF Ahead
<1>4. /\ i + 1 \in DOMAIN q /\ j + 1 \in DOMAIN q /\ i + 1 < j + 1
      /\ q[i + 1] = s /\ q[j + 1] = t
  BY <1>1, <1>2, <1>3
<1> QED
  BY <1>4 DEF Ahead

LEMMA AheadAfterErase ==
  ASSUME NEW S, NEW q \in Seq(S), NEW x \in ToSet(q), NEW s, NEW t, Ahead(Erase(q, x), s, t)
  PROVE  Ahead(q, s, t)
<1> DEFINE r == Erase(q, x)
<1>1. PICK n \in DOMAIN q : /\ r \in Seq(S) /\ Len(r) = Len(q) - 1
                           /\ \A i \in 1 .. Len(q) - 1 : r[i] = IF i < n THEN q[i] ELSE q[i + 1]
  BY ErasePlaces
<1> HIDE DEF r
<1>2. DOMAIN q = 1 .. Len(q) /\ Len(q) \in Nat /\ DOMAIN r = 1 .. Len(q) - 1
  BY <1>1, LenProperties
<1>3. PICK i \in DOMAIN r, j \in DOMAIN r : i < j /\ r[i] = s /\ r[j] = t
  BY DEF Ahead, r
<1> DEFINE a == IF i < n THEN i ELSE i + 1
           b == IF j < n THEN j ELSE j + 1
<1>4. a \in DOMAIN q /\ b \in DOMAIN q /\ a < b
  BY <1>1, <1>2, <1>3
<1>5. q[a] = s /\ q[b] = t
  BY <1>1, <1>2, <1>3
<1> HIDE DEF a, b
<1> QED
  BY <1>4, <1>5 DEF Ahead

\* Two tasks are not in front of each other, in whatever queues.
LEMMA OneIsAhead ==
  ASSUME IInv, NEW s, NEW t, Before(s, t), NEW l \in Levels
  PROVE  /\ ~Ahead(running[l], t, s)
         /\ s \in ToSet(running[l]) <=> t \in ToSet(running[l])
<1>1. PICK h \in Levels : Ahead(running[h], s, t)
  BY DEF Before, Ahead
<1>2. s \in ToSet(running[h]) /\ t \in ToSet(running[h])
  BY <1>1, AheadInQueue
<1>3. s \in ToSet(running[l]) <=> t \in ToSet(running[l])
  BY <1>2 DEF IInv, QueuesMatchFlags
<1>4. ASSUME Ahead(running[l], t, s) PROVE FALSE
  <2>1. s \in ToSet(running[l])
    BY <1>4, AheadInQueue
  <2>2. h = l
    BY <1>2, <2>1 DEF IInv, QueuesMatchFlags
  <2>3. \A i, j \in DOMAIN running[l] : running[l][i] = running[l][j] => i = j
    BY DEF IInv, QueuesMatchFlags, IsInjective
  <2>4. PICK i \in DOMAIN running[l], j \in DOMAIN running[l] :
          i < j /\ running[l][i] = s /\ running[l][j] = t
    BY <1>1, <2>2 DEF Ahead
  <2>5. PICK m \in DOMAIN running[l], n \in DOMAIN running[l] :
          m < n /\ running[l][m] = t /\ running[l][n] = s
    BY <1>4 DEF Ahead
  <2>6. i = n /\ j = m
    BY <2>3, <2>4, <2>5
  <2>7. i \in Int /\ j \in Int
    <3>1. running[l] \in Seq(Tasks)
      BY DEF IInv, TypeOK
    <3> QED
      BY <3>1, LenProperties
  <2> QED
    BY <2>4, <2>5, <2>6, <2>7
<1> QED
  BY <1>3, <1>4

\* A step keeps the order if all it may do is to put one task somewhere in a
\* queue it was not in.
LEMMA OrderKept ==
  ASSUME IInv, NEW x,
         \A l \in Levels, s \in TaskIds, t \in TaskIds :
           Ahead(running'[l], t, s) =>
             \/ Ahead(running[l], t, s)
             \/ /\ x \notin ToSet(running[l])
                /\ \/ s = x /\ t \in ToSet(running[l])
                   \/ t = x /\ s \in ToSet(running[l])
  PROVE  \A s, t \in TaskIds : ~(Before(s, t) /\ Before(t, s)')
<1> SUFFICES ASSUME NEW s \in TaskIds, NEW t \in TaskIds, Before(s, t), Before(t, s)'
             PROVE  FALSE
  OBVIOUS
<1>1. PICK l \in Levels : Ahead(running'[l], t, s)
  BY DEF Before, Ahead
<1>2. /\ ~Ahead(running[l], t, s)
      /\ s \in ToSet(running[l]) <=> t \in ToSet(running[l])
  BY OneIsAhead
<1> QED
  BY <1>1, <1>2

\* A context switch: only the task that gives up the processor falls behind.
LEMMA SwitchKeepsOrder ==
  ASSUME IInv, NEW sleep \in BOOLEAN, SwitchTo(sleep), sleep => cpu # IdleId
  PROVE  \A s, t \in TaskIds : Before(s, t) /\ Before(t, s)' => s = cpu /\ cpu' # s
<1> DEFINE c == currentLevel
           rest == Tail(running[c])
           q == IF sleep THEN rest ELSE Append(rest, cpu)
<1>1. /\ c \in Levels
      /\ running \in [Levels -> Seq(Tasks)]
      /\ running[c] \in Seq(Tasks) /\ running[c] # << >>
      /\ Head(running[c]) = cpu
      /\ cpu \in Tasks
      /\ IsInjective(running[c])
  BY DEF IInv, TypeOK, CurrentIsOnCpu, CurrentTask, QueuesMatchFlags
<1>2. /\ rest \in Seq(Tasks)
      /\ ToSet(rest) = ToSet(running[c]) \ {cpu}
      /\ cpu \in ToSet(running[c])
  BY <1>1, TailOfQueue, HeadInSet
<1>3. running' = [running EXCEPT ![c] = q]
  BY <1>1 DEF SwitchTo, Requeued, CurrentTask
<1>4. /\ cpu' = Head(running'[currentLevel'])
      /\ running'[currentLevel'] # << >>
      /\ currentLevel' \in Levels
      /\ running' \in [Levels -> Seq(Tasks)]
      /\ \A l \in Levels : ToSet(running'[l]) \subseteq ToSet(running[l])
  BY SwitchToFacts
<1> HIDE DEF rest
<1>5. running'[c] = q /\ \A l \in Levels \ {c} : running'[l] = running[l]
  BY <1>1, <1>3
<1>6. ASSUME ~sleep, rest # << >> PROVE cpu' # cpu
  <2>1. cpu' \in ToSet(running'[currentLevel'])
    BY <1>4, HeadInSet
  <2>2. CASE currentLevel' = c
    <3>1. Head(Append(rest, cpu)) = Head(rest)
      BY <1>1, <1>2, <1>6, AppendToQueue
    <3>2. Head(rest) \in ToSet(rest)
      BY <1>2, <1>6, HeadInSet
    <3> QED
      BY <1>2, <1>4, <1>5, <1>6, <2>2, <3>1, <3>2
  <2>3. CASE currentLevel' # c
    <3>1. cpu' \in ToSet(running[currentLevel'])
      BY <1>4, <2>1
    <3>2. level[cpu'] = currentLevel' /\ level[cpu] = c
      BY <1>1, <1>2, <1>4, <3>1 DEF IInv, QueuesMatchFlags
    <3> QED
      BY <2>3, <3>2
  <2> QED
    BY <2>2, <2>3
<1>7. SUFFICES ASSUME NEW s \in TaskIds, NEW t \in TaskIds, Before(s, t), Before(t, s)'
               PROVE  s = cpu /\ cpu' # s
  OBVIOUS
<1>8. PICK l \in Levels : Ahead(running'[l], t, s)
  BY <1>7 DEF Before, Ahead
<1>9. ~Ahead(running[l], t, s)
  BY <1>7, OneIsAhead
<1>10. l = c
  BY <1>5, <1>8, <1>9
<1>11. ~Ahead(rest, t, s)
  BY <1>1, <1>9, <1>10, AheadAfterTail DEF rest
<1>12. ~sleep
  <2>1. sleep => running'[l] = rest
    BY <1>5, <1>10
  <2> QED
    BY <1>8, <1>11, <2>1
<1>13. s = cpu /\ t \in ToSet(rest)
  <2>1. Ahead(Append(rest, cpu), t, s)
    <3>1. running'[l] = Append(rest, cpu)
      BY <1>5, <1>10, <1>12
    <3> QED
      BY <1>8, <3>1
  <2> QED
    BY <1>1, <1>2, <1>11, <2>1, AheadAfterAppend
<1>14. rest # << >>
  BY <1>2, <1>13, EmptyToSet
<1> QED
  BY <1>6, <1>12, <1>13, <1>14

\* Sleep of another task than the current one erases it, in no matter what queue.
LEMMA SleepKeepsOrder ==
  ASSUME IInv, NEW x \in Clients, Sleep(x), x # CurrentTask
  PROVE  \A s, t \in TaskIds : ~(Before(s, t) /\ Before(t, s)')
<1> DEFINE k == level[x]
<1>1. /\ running \in [Levels -> Seq(Tasks)]
      /\ k \in Levels /\ x \in ToSet(running[k])
  BY BoundAssumption DEF IInv, TypeOK, QueuesMatchFlags, Sleep, Clients, Tasks, TaskIds
<1>2. running' = [running EXCEPT ![k] = Erase(running[k], x)]
  BY DEF Sleep
<1> HIDE DEF k
<1>3. ASSUME NEW l \in Levels, NEW s, NEW t, Ahead(running'[l], t, s)
      PROVE  Ahead(running[l], t, s)
  <2>1. CASE l = k
    <3>1. Ahead(Erase(running[k], x), t, s) /\ running[k] \in Seq(Tasks)
      BY <1>1, <1>2, <1>3, <2>1
    <3> QED
      BY <1>1, <2>1, <3>1, AheadAfterErase
  <2>2. CASE l # k
    BY <1>1, <1>2, <1>3, <2>2
  <2> QED
    BY <2>1, <2>2
<1> QED
  BY <1>3, OrderKept

\* A task that moves to another level is put to the front or to the end there.
LEMMA MoveKeepsOrder ==
  ASSUME IInv, NEW x \in Clients, NEW l \in -1 .. kMaxLevel, runningFlag[x],
         ChangeLevelRunning(x, l), cpu' = cpu
  PROVE  \A s, t \in TaskIds : ~(Before(s, t) /\ Before(t, s)')
<1> DEFINE k == level[x]
           Moved(p) == \/ running'[p] = running[p]
                       \/ p = k /\ running'[p] = Erase(running[p], x)
                       \/ p = k /\ running'[p] = Tail(running[p])
                       \/ p = l /\ p # k /\ running'[p] = Append(running[p], x)
                       \/ p = l /\ p # k /\ running'[p] = <<x>> \o running[p]
<1>1. /\ running \in [Levels -> Seq(Tasks)]
      /\ k \in Levels /\ x \in ToSet(running[k]) /\ x \in Tasks
  BY BoundAssumption DEF IInv, TypeOK, QueuesMatchFlags, Clients, Tasks, TaskIds
<1>2. x = CurrentTask => k = currentLevel
  <2>1. /\ running[currentLevel] # << >> /\ running[currentLevel] \in Seq(Tasks)
        /\ currentLevel \in Levels
    BY DEF IInv, TypeOK, CurrentIsOnCpu
  <2>2. CurrentTask \in ToSet(running[currentLevel])
    BY <2>1, HeadInSet DEF CurrentTask
  <2> QED
    BY <2>1, <2>2 DEF IInv, QueuesMatchFlags
<1>3. l >= 0 => l \in Levels
  BY LevelAssumption DEF Levels
<1>4. ASSUME NEW p \in Levels PROVE Moved(p)
  <2>1. CASE UNCHANGED queueVars
    BY <2>1 DEF queueVars
  <2>2. ASSUME l >= 0, l # k,
               running' = Enqueue([running EXCEPT ![k] = Erase(@, x)], l, x)
        PROVE  Moved(p)
    <3>1. running' = [running EXCEPT ![k] = Erase(running[k], x), ![l] = Append(running[l], x)]
      BY <1>1, <1>3, <2>2 DEF Enqueue
    <3> HIDE DEF k
    <3> QED
      BY <1>1, <1>3, <2>2, <3>1
  <2>3. ASSUME l >= 0, l # k, x = CurrentTask,
               running' = [running EXCEPT ![currentLevel] = Tail(@), ![l] = <<x>> \o @]
        PROVE  Moved(p)
    <3>1. running' = [running EXCEPT ![k] = Tail(running[k]), ![l] = <<x>> \o running[l]]
      BY <1>1, <1>2, <1>3, <2>3
    <3> HIDE DEF k
    <3> QED
      BY <1>1, <1>3, <2>3, <3>1
  <2> QED
    BY <2>1, <2>2, <2>3 DEF ChangeLevelRunning
<1>5. ASSUME NEW p \in Levels, NEW s \in TaskIds, NEW t \in TaskIds, Ahead(running'[p], t, s)
      PROVE  \/ Ahead(running[p], t, s)
             \/ /\ x \notin ToSet(running[p])
                /\ \/ s = x /\ t \in ToSet(running[p])
                   \/ t = x /\ s \in ToSet(running[p])
  <2>1. running[p] \in Seq(Tasks)
    BY <1>1
  <2>2. p # k => x \notin ToSet(running[p])
    BY DEF IInv, QueuesMatchFlags
  <2>3. CASE running'[p] = running[p]
    BY <1>5, <2>3
  <2>4. CASE p = k /\ running'[p] = Erase(running[p], x)
    <3>1. Ahead(Erase(running[p], x), t, s) /\ x \in ToSet(running[p])
      BY <1>1, <1>5, <2>4
    <3> QED
      BY <2>1, <3>1, AheadAfterErase
  <2>5. CASE p = k /\ running'[p] = Tail(running[p])
    <3>1. Ahead(Tail(running[p]), t, s) /\ running[p] # << >>
      BY <1>1, <1>5, <2>1, <2>5, EmptyToSet
    <3> QED
      BY <2>1, <3>1, AheadAfterTail
  <2>6. CASE p # k /\ running'[p] = Append(running[p], x)
    <3>1. Ahead(Append(running[p], x), t, s)
      BY <1>5, <2>6
    <3> QED
      BY <1>1, <2>1, <2>2, <2>6, <3>1, AheadAfterAppend
  <2>7. CASE p # k /\ running'[p] = <<x>> \o running[p]
    <3>1. Ahead(<<x>> \o running[p], t, s)
      BY <1>5, <2>7
    <3> QED
      BY <1>1, <2>1, <2>2, <2>7, <3>1, AheadAfterPush
  <2> QED
    BY <1>4, <2>3, <2>4, <2>5, <2>6, <2>7
<1> QED
  BY <1>5, OrderKept

\* A task that slept comes last.
LEMMA StartKeepsOrder ==
  ASSUME IInv, NEW x \in Clients, NEW l \in -1 .. kMaxLevel, ~runningFlag[x],
         StartRunning(x, l), cpu' = cpu
  PROVE  \A s, t \in TaskIds : ~(Before(s, t) /\ Before(t, s)')
<1> DEFINE lv == IF l < 0 THEN level[x] ELSE l
<1>1. running \in [Levels -> Seq(Tasks)] /\ lv \in Levels /\ x \in Tasks
  BY LevelAssumption, BoundAssumption DEF IInv, TypeOK, Clients, Tasks, TaskIds, Levels
<1>2. running' = [running EXCEPT ![lv] = Append(running[lv], x)]
  BY DEF StartRunning, Enqueue
<1>3. \A p \in Levels : x \notin ToSet(running[p])
  BY DEF IInv, QueuesMatchFlags
<1> HIDE DEF lv
<1>4. ASSUME NEW p \in Levels, NEW s \in TaskIds, NEW t \in TaskIds, Ahead(running'[p], t, s)
      PROVE  Ahead(running[p], t, s) \/ (s = x /\ t \in ToSet(running[p]))
  <2>1. CASE p = lv
    <3>1. Ahead(Append(running[lv], x), t, s) /\ running[lv] \in Seq(Tasks)
      BY <1>1, <1>2, <1>4, <2>1
    <3> QED
      BY <1>1, <2>1, <3>1, AheadAfterAppend
  <2>2. CASE p # lv
    BY <1>1, <1>2, <1>4, <2>2
  <2> QED
    BY <2>1, <2>2
<1> QED
  BY <1>3, <1>4, OrderKept

\* No step but a context switch changes the order of two waiting tasks.
LEMMA NextKeepsOrder ==
  ASSUME IInv, [Next]_vars
  PROVE  \A s, t \in TaskIds : Before(s, t) /\ Before(t, s)' => s = cpu /\ cpu' # s
<1>1. ASSUME running' = running
      PROVE  \A s, t \in TaskIds : ~(Before(s, t) /\ Before(t, s)')
  BY <1>1, OrderKept
<1>2. CASE NewTask \/ ReceiveMessage \/ UNCHANGED vars
  BY <1>1, <1>2 DEF NewTask, ReceiveMessage, vars, queueVars
<1>3. CASE SwitchTask
  BY <1>3, SwitchKeepsOrder DEF SwitchTask
<1>4. ASSUME NEW x \in Clients, Sleep(x)
      PROVE  \A s, t \in TaskIds : Before(s, t) /\ Before(t, s)' => s = cpu /\ cpu' # s
  <2>1. CASE x = CurrentTask
    <3>1. SwitchTo(TRUE) /\ cpu # IdleId
      BY <1>4, <2>1 DEF Sleep, IInv, CurrentIsOnCpu, Clients
    <3> QED
      BY <3>1, SwitchKeepsOrder
  <2>2. CASE x # CurrentTask
    BY <1>4, <2>2, SleepKeepsOrder
  <2> QED
    BY <2>1, <2>2
<1>5. ASSUME NEW x \in Clients, NEW l \in -1 .. kMaxLevel, WakeupTask(x, l), cpu' = cpu
      PROVE  \A s, t \in TaskIds : ~(Before(s, t) /\ Before(t, s)')
  BY <1>5, MoveKeepsOrder, StartKeepsOrder DEF WakeupTask
<1>6. ASSUME NEW x \in Clients, NEW l \in -1 .. kMaxLevel, Wakeup(x, l)
      PROVE  \A s, t \in TaskIds : ~(Before(s, t) /\ Before(t, s)')
  BY <1>5, <1>6 DEF Wakeup
<1>7. ASSUME NEW x \in Clients, NEW m \in Msg, SendMessage(x, m)
      PROVE  \A s, t \in TaskIds : ~(Before(s, t) /\ Before(t, s)')
  BY <1>5, <1>7, LevelAssumption DEF SendMessage
<1> QED
  BY <1>2, <1>3, <1>4, <1>6, <1>7 DEF Next

\* Waiting tasks of one level are served in the order they came in: only the task that
\* gives up the processor falls behind another (std::remove and erase, task.cpp:11-12, keep
\* the order of the rest, and a task that moves was not in the queue it is put into).
THEOREM WaitingAlwaysKeepsOrder == Spec => WaitingKeepsOrder
<1>1. ASSUME IInv, [Next]_vars
      PROVE  [\A s, t \in TaskIds : Before(s, t) /\ Before(t, s)' => s = cpu /\ cpu' # s]_vars
  BY <1>1, NextKeepsOrder
<1> QED
  BY <1>1, AlwaysIInv, PTL DEF Spec, WaitingKeepsOrder

----------------------------------------------------------------------------
\* After a context switch the task on the processor is ready and none of a
\* higher level is.
LEMMA SwitchToTop ==
  ASSUME IInv, IInv', NEW sleep \in BOOLEAN, SwitchTo(sleep), sleep => cpu # IdleId
  PROVE  /\ cpu' \in TaskIds /\ runningFlag'[cpu']
         /\ \A l \in Levels : l > level'[cpu'] => running'[l] = << >>
         /\ \A t \in TaskIds : runningFlag'[t] => level'[t] <= level'[cpu']
<1>1. /\ currentLevel' \in Levels
      /\ running'[currentLevel'] # << >>
      /\ cpu' = Head(running'[currentLevel'])
      /\ \A l \in Levels : l > currentLevel' => running'[l] = << >>
      /\ running' \in [Levels -> Seq(Tasks)]
  BY SwitchToFacts
<1>2. cpu' \in ToSet(running'[currentLevel']) /\ cpu' \in TaskIds
  <2>1. cpu' \in ToSet(running'[currentLevel']) /\ cpu' \in Tasks
    BY <1>1, HeadInSet
  <2> QED
    BY <2>1, BoundAssumption DEF IInv, TypeOK, Tasks, TaskIds
<1>3. runningFlag'[cpu'] /\ level'[cpu'] = currentLevel'
  BY <1>1, <1>2 DEF IInv, QueuesMatchFlags
<1>4. ASSUME NEW t \in TaskIds, runningFlag'[t] PROVE level'[t] <= currentLevel'
  <2>1. level'[t] \in Levels /\ t \in ToSet(running'[level'[t]])
    BY <1>4 DEF IInv, TypeOK, QueuesMatchFlags
  <2>2. running'[level'[t]] # << >>
    BY <2>1 DEF ToSet
  <2> QED
    BY <1>1, <2>1, <2>2 DEF Levels
<1> QED
  BY <1>1, <1>2, <1>3, <1>4

\* The processor changes hands in SwitchTask and in Sleep of the current task only.
LEMMA WhoSwitches ==
  ASSUME IInv, [Next]_vars, cpu' # cpu
  PROVE  \E sleep \in BOOLEAN : SwitchTo(sleep) /\ (sleep => cpu # IdleId)
<1>1. CASE SwitchTask
  BY <1>1 DEF SwitchTask
<1>2. ASSUME NEW t \in Clients, Sleep(t)
      PROVE  \E sleep \in BOOLEAN : SwitchTo(sleep) /\ (sleep => cpu # IdleId)
  BY <1>2 DEF Sleep, IInv, CurrentIsOnCpu, Clients
<1>3. ~NewTask /\ ~ReceiveMessage /\ ~UNCHANGED vars
  BY DEF NewTask, ReceiveMessage, vars
<1>4. ASSUME NEW t \in Clients PROVE /\ \A l \in -1 .. kMaxLevel : ~Wakeup(t, l)
                                     /\ \A m \in Msg : ~SendMessage(t, m)
  BY DEF Wakeup, SendMessage
<1> QED
  BY <1>1, <1>2, <1>3, <1>4 DEF Next

\* SwitchTask and Sleep respect the priorities.
THEOREM SwitchAlwaysRespectsLevels == Spec => SwitchRespectsLevels
<1>1. ASSUME IInv, [Next]_vars
      PROVE  [cpu' # cpu =>
                \A l \in Levels : l > level'[cpu'] => running'[l] = << >>]_vars
  <2>1. IInv'
    BY <1>1, NextIInv
  <2>2. cpu' # cpu => \A l \in Levels : l > level'[cpu'] => running'[l] = << >>
    BY <1>1, <2>1, WhoSwitches, SwitchToTop
  <2> QED
    BY <2>2
<1> QED
  BY <1>1, AlwaysIInv, PTL DEF Spec, SwitchRespectsLevels

\* The initial state is one of the simpler scheduler.
LEMMA InitImplements == Init => Promise!Init
<1> SUFFICES ASSUME Init PROVE Promise!Init
  OBVIOUS
<1>1. {t \in TaskIds : runningFlag[t]} = {MainId, IdleId}
  <2>1. MainId \in TaskIds /\ IdleId \in TaskIds
    BY BoundAssumption DEF TaskIds, MainId, IdleId
  <2>2. \A t \in TaskIds : runningFlag[t] <=> t \in {MainId, IdleId}
    BY DEF Init
  <2> QED
    BY <2>1, <2>2
<1> QED
  BY <1>1 DEF Init, Promise!Init

\* Every step is a step of the simpler scheduler, or changes nothing there.
LEMMA NextImplements == IInv /\ [Next]_vars => [Promise!Next]_(Promise!absVars)
<1> SUFFICES ASSUME IInv, [Next]_vars PROVE [Promise!Next]_(Promise!absVars)
  OBVIOUS
<1> DEFINE R == {t \in TaskIds : runningFlag[t]}
<1>1. IInv'
  BY NextIInv
<1>2. CASE SwitchTask
  <2>1. cpu' \in Promise!Top(R) /\ UNCHANGED <<level, runningFlag>>
    <3>1. SwitchTo(FALSE) /\ UNCHANGED <<level, runningFlag>>
      BY <1>2 DEF SwitchTask
    <3>2. /\ cpu' \in TaskIds /\ runningFlag'[cpu']
          /\ \A t \in TaskIds : runningFlag'[t] => level'[t] <= level'[cpu']
      BY <1>1, <3>1, SwitchToTop
    <3> QED
      BY <3>1, <3>2 DEF Promise!Top
  <2> QED
    BY <2>1 DEF Promise!Next, Promise!Reschedule
<1>3. ASSUME NEW t \in Clients, Sleep(t) PROVE Promise!Next
  <2>1. /\ t \in TaskIds /\ t # IdleId /\ runningFlag[t]
        /\ runningFlag' = [runningFlag EXCEPT ![t] = FALSE]
        /\ runningFlag \in [TaskIds -> BOOLEAN]
        /\ level' = level
    BY <1>3, BoundAssumption DEF Sleep, Clients, Tasks, TaskIds, IInv, TypeOK
  <2>2. t \in R \ {IdleId} /\ R' = R \ {t}
    BY <2>1
  <2>3. CASE t = cpu
    <3>1. SwitchTo(TRUE)
      BY <1>3, <2>3 DEF Sleep, IInv, CurrentIsOnCpu
    <3>2. /\ cpu' \in TaskIds /\ runningFlag'[cpu']
          /\ \A u \in TaskIds : runningFlag'[u] => level'[u] <= level'[cpu']
      BY <1>1, <2>1, <2>3, <3>1, SwitchToTop
    <3>3. cpu' \in Promise!Top(R')
      BY <2>1, <3>2 DEF Promise!Top
    <3> QED
      BY <2>1, <2>2, <2>3, <3>3 DEF Promise!Next, Promise!Block
  <2>4. CASE t # cpu
    <3>1. cpu' = cpu
      BY <1>3, <2>4 DEF Sleep, IInv, CurrentIsOnCpu
    <3> QED
      BY <2>1, <2>2, <2>4, <3>1 DEF Promise!Next, Promise!Block
  <2> QED
    BY <2>3, <2>4
<1>4. ASSUME NEW t \in Clients, NEW l \in -1 .. kMaxLevel, WakeupTask(t, l), cpu' = cpu
      PROVE  [Promise!Next]_(Promise!absVars)
  <2>1. /\ t \in TaskIds /\ t # IdleId
        /\ level \in [TaskIds -> Levels]
        /\ runningFlag \in [TaskIds -> BOOLEAN]
    BY BoundAssumption DEF Clients, Tasks, TaskIds, IInv, TypeOK
  <2>2. CASE UNCHANGED queueVars
    BY <1>4, <2>2 DEF queueVars, Promise!absVars
  <2>3. ASSUME NEW k \in Levels, level' = [level EXCEPT ![t] = k],
               runningFlag' = [runningFlag EXCEPT ![t] = TRUE]
        PROVE  Promise!Next
    <3>1. R' = R \cup {t}
      BY <2>1, <2>3
    <3>2. Promise!Ready(t, k)
      BY <1>4, <2>1, <2>3, <3>1 DEF Promise!Ready
    <3> QED
      BY <2>1, <3>2 DEF Promise!Next, Promise!Levels, Levels
  <2>4. CASE runningFlag[t] /\ ChangeLevelRunning(t, l)
    <3>1. CASE l >= 0 /\ l # level[t]
      <4>1. l \in Levels /\ level' = [level EXCEPT ![t] = l] /\ runningFlag' = runningFlag
        BY <2>4, <3>1, LevelAssumption DEF ChangeLevelRunning, Levels
      <4>2. runningFlag' = [runningFlag EXCEPT ![t] = TRUE]
        BY <2>1, <2>4, <4>1
      <4> QED
        BY <2>3, <4>1, <4>2
    <3>2. CASE l < 0 \/ l = level[t]
      BY <2>2, <2>4, <3>2 DEF ChangeLevelRunning
    <3> QED
      BY <3>1, <3>2
  <2>5. CASE ~runningFlag[t] /\ StartRunning(t, l)
    <3> DEFINE lv == IF l < 0 THEN level[t] ELSE l
    <3>1. lv \in Levels
      BY <2>1, LevelAssumption DEF Levels
    <3>2. level' = [level EXCEPT ![t] = lv] /\ runningFlag' = [runningFlag EXCEPT ![t] = TRUE]
      BY <2>5 DEF StartRunning
    <3> HIDE DEF lv
    <3> QED
      BY <2>3, <3>1, <3>2
  <2> QED
    BY <1>4, <2>4, <2>5 DEF WakeupTask
<1>5. ASSUME NEW t \in Clients, NEW l \in -1 .. kMaxLevel, Wakeup(t, l)
      PROVE  [Promise!Next]_(Promise!absVars)
  BY <1>4, <1>5 DEF Wakeup
<1>6. ASSUME NEW t \in Clients, NEW m \in Msg, SendMessage(t, m)
      PROVE  [Promise!Next]_(Promise!absVars)
  <2>1. -1 \in -1 .. kMaxLevel
    BY LevelAssumption
  <2> QED
    BY <1>4, <1>6, <2>1 DEF SendMessage
<1>7. CASE NewTask \/ ReceiveMessage \/ UNCHANGED vars
  BY <1>7 DEF NewTask, ReceiveMessage, vars, queueVars, Promise!absVars
<1> QED
  BY <1>2, <1>3, <1>5, <1>6, <1>7 DEF Next

\* The task manager keeps the promise module PriorityScheduler states.
THEOREM SchedulerImplementsPromise == Spec => ImplementsPromise
<1> QED
  BY InitImplements, NextImplements, AlwaysIInv, PTL
     DEF Spec, ImplementsPromise, Promise!Spec

============================================================================
