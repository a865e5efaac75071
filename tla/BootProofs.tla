----------------------------- MODULE BootProofs -----------------------------
(***************************************************************************)
(* Proofs about the boot.  The frame allocator hands out only available    *)
(* memory, no frame twice, and fails only when it must, for every number   *)
(* of frames, every memory map and every request, during the boot and      *)
(* after it; the areas of the USB drivers' pool are apart; the xHCI        *)
(* controller is programmed when it runs; and the ticks have the right     *)
(* length, for every machine and every timer.                              *)
(***************************************************************************)
EXTENDS Boot, QueueLemmas

----------------------------------------------------------------------------
(* The frame allocator by itself.                                          *)

\* The memory map calls frame f available.
IsAvailable(f) == \E i \in 1 .. Len(memory_map) :
                    memory_map[i].available /\ f \in FramesOf(memory_map[i])

\* What has been read of the memory map is in the bitmap: a frame below
\* available_end that may not be used is marked.
MapIsMarked == \A f \in 0 .. available_end - 1 : f \in allocated \/ IsAvailable(f)

\* The phases: nothing is handed out before the map has been read, and then the
\* range is set; a search begins with no failure noted.
PhasesOK == /\ pc = "map" => blocks = {} /\ failed = 0
            /\ pc # "map" => range_begin = 1 /\ range_end = available_end
            /\ pc = "search" => failed = 0

\* The loops of Allocate: the frames looked at from start_frame_id on are free and
\* in the range, and no block could begin at a frame that has been passed.
SearchOK ==
  pc = "search" =>
    /\ search.n >= 1 /\ search.start >= 1 /\ search.i <= search.n
    /\ search.i > 0 => search.start + search.i <= range_end
    /\ \A f \in search.start .. search.start + search.i - 1 : f \notin allocated
    /\ \A s \in 1 .. search.start - 1 : ~FreeRun(s, search.n)

FramesInv == /\ TypeOK /\ MapIsMarked /\ PhasesOK /\ SearchOK
             /\ BlocksAreApart /\ OnlyAvailable /\ FailsOnlyWhenFull

LEMMA FramesInit == Init => FramesInv
  BY FramesAssumption
     DEF Init, FramesInv, TypeOK, MapIsMarked, PhasesOK, SearchOK, BlocksAreApart,
         OnlyAvailable, FailsOnlyWhenFull, NoSearch, Frames

\* A descriptor of the memory map has the type it should have.
LEMMA DescriptorType ==
  ASSUME TypeOK, iter <= Len(memory_map)
  PROVE  /\ memory_map[iter].start \in Nat /\ memory_map[iter].pages \in Nat
         /\ memory_map[iter].available \in BOOLEAN
         /\ memory_map[iter].start + memory_map[iter].pages <= FrameCount
         /\ iter \in 1 .. Len(memory_map) /\ Len(memory_map) \in Nat
<1>1. memory_map \in Seq(Descriptor) /\ iter \in Nat /\ iter >= 1
  BY FramesAssumption DEF TypeOK
<1>2. Len(memory_map) \in Nat /\ iter \in 1 .. Len(memory_map)
  BY <1>1
<1>3. memory_map[iter] \in Descriptor
  BY <1>1, <1>2
<1>4. memory_map[iter].start + memory_map[iter].pages <= FrameCount
  BY <1>2, FramesAssumption DEF TypeOK
<1> QED
  BY <1>2, <1>3, <1>4 DEF Descriptor

LEMMA ReadDescriptorKeeps ==
  ASSUME FramesInv, ReadDescriptor
  PROVE  FramesInv'
<1> DEFINE d == memory_map[iter]
<1>1. /\ d.start \in Nat /\ d.pages \in Nat /\ d.available \in BOOLEAN
      /\ d.start + d.pages <= FrameCount
      /\ iter \in 1 .. Len(memory_map) /\ Len(memory_map) \in Nat
  BY DescriptorType DEF FramesInv, ReadDescriptor
<1>2. pc = "map" /\ pc' = "map" /\ memory_map' = memory_map
  BY DEF ReadDescriptor
<1>3. TypeOK'
  <2>1. FrameCount \in Nat
    BY FramesAssumption
  <2>2. allocated' \subseteq Frames
    <3>1. FramesOf(d) \subseteq Frames /\ available_end .. d.start - 1 \subseteq Frames
      <4>1. available_end \in Nat
        BY <2>1 DEF FramesInv, TypeOK
      <4> HIDE DEF d
      <4> QED
        BY SMTT(40), <1>1, <2>1, <4>1 DEF Frames, FramesOf
    <3>2. allocated' = allocated \cup (available_end .. d.start - 1)
                                 \cup (IF d.available THEN {} ELSE FramesOf(d))
      BY Zenon DEF ReadDescriptor
    <3>3. (IF d.available THEN {} ELSE FramesOf(d)) \subseteq Frames
      BY <3>1
    <3>4. allocated \subseteq Frames
      BY DEF FramesInv, TypeOK
    <3> HIDE DEF d
    <3> QED
      BY <3>1, <3>2, <3>3, <3>4
  <2>3. available_end' \in 0 .. FrameCount
    BY SMTT(40), <1>1, <2>1 DEF FramesInv, TypeOK, ReadDescriptor
  <2>4. iter' \in 1 .. Len(memory_map') + 1
    BY <1>1, <1>2 DEF ReadDescriptor
  <2> QED
    BY <2>2, <2>3, <2>4 DEF FramesInv, TypeOK, ReadDescriptor
<1>4. MapIsMarked'
  <2> SUFFICES ASSUME NEW f \in 0 .. available_end' - 1
               PROVE  f \in allocated' \/ IsAvailable(f)
    BY <1>2 DEF MapIsMarked, IsAvailable
  <2>1. CASE f < available_end
    BY <2>1 DEF FramesInv, TypeOK, MapIsMarked, ReadDescriptor
  <2>2. CASE f >= available_end /\ f < d.start
    BY <1>1, <2>2 DEF FramesInv, TypeOK, ReadDescriptor
  <2>3. CASE f >= available_end /\ f >= d.start
    <3>1. d.available /\ f \in FramesOf(d)
      <4>1. available_end' = IF d.available THEN d.start + d.pages ELSE available_end
        BY DEF ReadDescriptor
      <4>2. available_end \in Nat
        BY DEF FramesInv, TypeOK
      <4>3. d.available /\ f >= d.start /\ f <= d.start + d.pages - 1
        BY <1>1, <2>3, <4>1, <4>2
      <4> QED
        BY <1>1, <4>3 DEF FramesOf
    <3> QED
      BY <1>1, <3>1 DEF IsAvailable
  <2> QED
    BY <1>1, <2>1, <2>2, <2>3 DEF FramesInv, TypeOK
<1>5. PhasesOK' /\ SearchOK'
  BY <1>2 DEF FramesInv, PhasesOK, SearchOK, ReadDescriptor
<1>6. BlocksAreApart' /\ OnlyAvailable' /\ FailsOnlyWhenFull'
  BY <1>2 DEF FramesInv, PhasesOK, BlocksAreApart, OnlyAvailable, FailsOnlyWhenFull,
              ReadDescriptor
<1> QED
  BY <1>3, <1>4, <1>5, <1>6 DEF FramesInv

\* A search that begins at the first frame of the range has passed over nothing.
LEMMA BeginKeeps ==
  ASSUME FramesInv, NEW n \in Nat \ {0},
         range_begin' = 1, range_end' = available_end,
         Begin(n, 1),
         UNCHANGED <<memory_map, iter, available_end, allocated, blocks>>
  PROVE  FramesInv'
<1>1. TypeOK'
  BY FramesAssumption DEF FramesInv, TypeOK, Begin
<1>2. MapIsMarked' /\ PhasesOK'
  BY DEF FramesInv, MapIsMarked, PhasesOK, IsAvailable, Begin
<1>3. SearchOK'
  BY <1>1 DEF SearchOK, Begin, TypeOK
<1>4. BlocksAreApart' /\ OnlyAvailable' /\ FailsOnlyWhenFull'
  BY DEF FramesInv, BlocksAreApart, OnlyAvailable, FailsOnlyWhenFull, Begin
<1> QED
  BY <1>1, <1>2, <1>3, <1>4 DEF FramesInv

LEMMA InitializeHeapKeeps ==
  ASSUME FramesInv, InitializeHeap
  PROVE  FramesInv'
  BY BeginKeeps, FramesAssumption DEF InitializeHeap

LEMMA AllocateKeeps ==
  ASSUME FramesInv, NEW n \in Requests, Allocate(n)
  PROVE  FramesInv'
<1>1. range_begin = 1 /\ range_end = available_end
  BY DEF FramesInv, PhasesOK, Allocate
<1>2. n \in Nat \ {0}
  BY FramesAssumption
<1> QED
  BY <1>1, <1>2, BeginKeeps DEF Allocate, MapUnchanged

\* Facts about a search under way.
LEMMA SearchFacts ==
  ASSUME FramesInv, pc = "search"
  PROVE  /\ search.n \in Nat /\ search.start \in Nat /\ search.i \in Nat
         /\ search.n >= 1 /\ search.start >= 1 /\ search.i <= search.n
         /\ range_begin = 1 /\ range_end \in Nat /\ range_end = available_end
         /\ range_end <= FrameCount /\ FrameCount \in Nat /\ failed = 0
  BY FramesAssumption DEF FramesInv, TypeOK, PhasesOK, SearchOK

\* No block of n frames can begin where the loop gives up: the ones passed have a
\* frame that is taken, and the others reach past the end of the range.
LEMMA NoEnoughMemoryKeeps ==
  ASSUME FramesInv, NoEnoughMemory
  PROVE  FramesInv'
<1>1. /\ search.n \in Nat /\ search.start \in Nat /\ search.i \in Nat
      /\ search.n >= 1 /\ search.start >= 1 /\ search.i < search.n
      /\ range_begin = 1 /\ range_end \in Nat
      /\ search.start + search.i >= range_end
  BY SearchFacts DEF NoEnoughMemory, Looking, Frame, PastEnd
<1>2. TypeOK'
  BY <1>1 DEF FramesInv, TypeOK, NoEnoughMemory, NoSearch, MapUnchanged
<1>3. MapIsMarked' /\ BlocksAreApart' /\ OnlyAvailable'
  BY DEF FramesInv, MapIsMarked, IsAvailable, BlocksAreApart, OnlyAvailable,
         NoEnoughMemory, MapUnchanged
<1>4. PhasesOK' /\ SearchOK'
  BY DEF FramesInv, PhasesOK, SearchOK, NoEnoughMemory, MapUnchanged, Looking
<1>5. FailsOnlyWhenFull'
  <2> SUFFICES ASSUME NEW s \in Frames, s >= range_begin, s + search.n <= range_end,
                      \A f \in s .. s + search.n - 1 : f \notin allocated
               PROVE  FALSE
    BY DEF FailsOnlyWhenFull, FreeRun, NoEnoughMemory, MapUnchanged
  <2>1. s \in Nat
    BY FramesAssumption DEF Frames
  <2>2. s < search.start
    BY <1>1, <2>1
  <2>3. ~FreeRun(s, search.n)
    BY <1>1, <2>1, <2>2 DEF FramesInv, SearchOK, NoEnoughMemory, Looking
  <2> QED
    BY <2>3 DEF FreeRun
<1> QED
  BY <1>2, <1>3, <1>4, <1>5 DEF FramesInv

\* A block that begins between start_frame_id and the taken frame would contain it.
LEMMA FrameTakenKeeps ==
  ASSUME FramesInv, FrameTaken
  PROVE  FramesInv'
<1>1. /\ search.n \in Nat /\ search.start \in Nat /\ search.i \in Nat
      /\ search.n >= 1 /\ search.start >= 1 /\ search.i < search.n
      /\ range_begin = 1 /\ range_end \in Nat
      /\ search.start + search.i \in allocated
  BY SearchFacts DEF FrameTaken, Looking, Frame
<1>2. search' = [n |-> search.n, start |-> search.start + search.i + 1, i |-> 0]
  BY DEF FramesInv, TypeOK, FrameTaken, Frame
<1>3. TypeOK'
  BY <1>1, <1>2 DEF FramesInv, TypeOK, FrameTaken, MapUnchanged
<1>4. MapIsMarked' /\ BlocksAreApart' /\ OnlyAvailable' /\ PhasesOK' /\ FailsOnlyWhenFull'
  BY DEF FramesInv, MapIsMarked, IsAvailable, BlocksAreApart, OnlyAvailable, PhasesOK,
         FailsOnlyWhenFull, FreeRun, FrameTaken, MapUnchanged
<1>5. SearchOK'
  <2>1. ASSUME NEW s \in 1 .. search.start + search.i
        PROVE  ~FreeRun(s, search.n)
    <3>1. CASE s < search.start
      BY <1>1, <3>1 DEF FramesInv, SearchOK, FrameTaken, Looking
    <3>2. CASE s >= search.start
      BY <1>1, <3>2 DEF FreeRun
    <3> QED
      BY <1>1, <3>1, <3>2
  <2>2. UNCHANGED <<allocated, range_begin, range_end>>
    BY DEF FrameTaken, MapUnchanged
  <2> QED
    BY <1>1, <1>2, <2>1, <2>2 DEF SearchOK, FreeRun
<1> QED
  BY <1>3, <1>4, <1>5 DEF FramesInv

LEMMA FrameFreeKeeps ==
  ASSUME FramesInv, FrameFree
  PROVE  FramesInv'
<1>1. /\ search.n \in Nat /\ search.start \in Nat /\ search.i \in Nat
      /\ search.n >= 1 /\ search.start >= 1 /\ search.i < search.n
      /\ range_begin = 1 /\ range_end \in Nat
      /\ search.start + search.i < range_end
      /\ search.start + search.i \notin allocated
  BY SearchFacts DEF FrameFree, Looking, Frame, PastEnd
<1>2. search' = [n |-> search.n, start |-> search.start, i |-> search.i + 1]
  BY DEF FramesInv, TypeOK, FrameFree
<1>3. TypeOK'
  BY <1>1, <1>2 DEF FramesInv, TypeOK, FrameFree, MapUnchanged
<1>4. MapIsMarked' /\ BlocksAreApart' /\ OnlyAvailable' /\ PhasesOK' /\ FailsOnlyWhenFull'
  BY DEF FramesInv, MapIsMarked, IsAvailable, BlocksAreApart, OnlyAvailable, PhasesOK,
         FailsOnlyWhenFull, FreeRun, FrameFree, MapUnchanged
<1>5. SearchOK'
  <2>1. \A f \in search.start .. search.start + search.i : f \notin allocated
    BY <1>1 DEF FramesInv, SearchOK, FrameFree, Looking
  <2>2. \A s \in 1 .. search.start - 1 : ~FreeRun(s, search.n)'
    BY DEF FramesInv, SearchOK, FreeRun, FrameFree, MapUnchanged, Looking
  <2>3. allocated' = allocated /\ range_end' = range_end
    BY DEF FrameFree, MapUnchanged
  <2> QED
    BY <1>1, <1>2, <2>1, <2>2, <2>3 DEF SearchOK, FreeRun
<1> QED
  BY <1>3, <1>4, <1>5 DEF FramesInv

\* The frames found are free, so they belong to no block, and the memory map calls
\* them available.
LEMMA FoundKeeps ==
  ASSUME FramesInv, Found
  PROVE  FramesInv'
<1> DEFINE new == Block(search.start, search.n)
<1>1. /\ search.n \in Nat /\ search.start \in Nat
      /\ search.n >= 1 /\ search.start >= 1 /\ search.i = search.n
      /\ range_end \in Nat /\ range_end = available_end /\ failed = 0
      /\ search.start + search.n <= range_end
      /\ range_end <= FrameCount /\ FrameCount \in Nat
  BY SearchFacts DEF FramesInv, SearchOK, Found
<1>2. /\ BlockFrames(new) = search.start .. search.start + search.n - 1
      /\ BlockFrames(new) \cap allocated = {}
      /\ BlockFrames(new) \subseteq 1 .. available_end - 1
  BY <1>1 DEF FramesInv, SearchOK, Found, Block, BlockFrames
<1>3. allocated' = allocated \cup BlockFrames(new) /\ blocks' = blocks \cup {new}
  BY DEF Found
<1>4. TypeOK'
  <2>1. new \in [start : Nat, n : Nat]
    BY <1>1 DEF Block
  <2>2. allocated' \subseteq Frames
    <3>1. BlockFrames(new) \subseteq Frames
      BY <1>1, <1>2 DEF Frames
    <3> QED
      BY <1>3, <3>1 DEF FramesInv, TypeOK
  <2> QED
    BY <1>3, <2>1, <2>2 DEF FramesInv, TypeOK, Found, NoSearch, MapUnchanged
<1>5. MapIsMarked' /\ PhasesOK' /\ SearchOK' /\ FailsOnlyWhenFull'
  BY <1>1, <1>3 DEF FramesInv, MapIsMarked, IsAvailable, PhasesOK, SearchOK,
                    FailsOnlyWhenFull, Found, MapUnchanged
<1>6. BlocksAreApart'
  BY <1>2, <1>3 DEF FramesInv, BlocksAreApart
<1>7. OnlyAvailable'
  <2>1. \A f \in BlockFrames(new) : f # 0 /\ IsAvailable(f)
    BY <1>1, <1>2 DEF FramesInv, MapIsMarked
  <2> QED
    BY <1>3, <2>1 DEF FramesInv, OnlyAvailable, IsAvailable, Found, MapUnchanged
<1> QED
  BY <1>4, <1>5, <1>6, <1>7 DEF FramesInv

\* The frames given back were available, and no other block has one of them.
LEMMA FreeKeeps ==
  ASSUME FramesInv, NEW b \in blocks, Free(b)
  PROVE  FramesInv'
<1>1. TypeOK'
  BY DEF FramesInv, TypeOK, Free, MapUnchanged
<1>2. MapIsMarked'
  BY DEF FramesInv, MapIsMarked, OnlyAvailable, IsAvailable, Free, MapUnchanged
<1>3. PhasesOK' /\ SearchOK' /\ FailsOnlyWhenFull'
  BY DEF FramesInv, PhasesOK, SearchOK, FailsOnlyWhenFull, Free, MapUnchanged
<1>4. BlocksAreApart'
  BY DEF FramesInv, BlocksAreApart, Free
<1>5. OnlyAvailable'
  BY DEF FramesInv, OnlyAvailable, Free, MapUnchanged
<1> QED
  BY <1>1, <1>2, <1>3, <1>4, <1>5 DEF FramesInv

LEMMA FramesUnchanged ==
  ASSUME FramesInv, UNCHANGED vars
  PROVE  FramesInv'
  BY DEF FramesInv, TypeOK, MapIsMarked, IsAvailable, PhasesOK, SearchOK, BlocksAreApart,
         OnlyAvailable, FailsOnlyWhenFull, FreeRun, vars

LEMMA FramesNext == FramesInv /\ [Next]_vars => FramesInv'
<1> SUFFICES ASSUME FramesInv, [Next]_vars PROVE FramesInv'
  OBVIOUS
<1>1. CASE ReadDescriptor
  BY <1>1, ReadDescriptorKeeps
<1>2. CASE InitializeHeap
  BY <1>2, InitializeHeapKeeps
<1>3. CASE Search
  BY <1>3, NoEnoughMemoryKeeps, FrameTakenKeeps, FrameFreeKeeps, FoundKeeps DEF Search
<1>4. CASE \E n \in Requests : Allocate(n)
  BY <1>4, AllocateKeeps
<1>5. CASE \E b \in blocks : Free(b)
  BY <1>5, FreeKeeps
<1>6. CASE UNCHANGED vars
  BY <1>6, FramesUnchanged
<1> QED
  BY <1>1, <1>2, <1>3, <1>4, <1>5, <1>6 DEF Next

LEMMA FramesInvariant == Spec => []FramesInv
  BY FramesInit, FramesNext, PTL DEF Spec

\* The variables of BitmapMemoryManager keep their types: no bit beyond kFrameCount
\* is ever set.
THEOREM FramesTypeCorrect == Spec => []TypeOK
<1>1. FramesInv => TypeOK
  BY DEF FramesInv
<1> QED
  BY <1>1, FramesInvariant, PTL

\* No frame is handed out twice (BitmapMemoryManager::Allocate and Free).
THEOREM BlocksAlwaysApart == Spec => []BlocksAreApart
<1>1. FramesInv => BlocksAreApart
  BY DEF FramesInv
<1> QED
  BY <1>1, FramesInvariant, PTL

\* Whatever the order of the memory map, only what it calls available is handed
\* out (InitializeMemoryManager and Allocate).
THEOREM AlwaysAvailable == Spec => []OnlyAvailable
<1>1. FramesInv => OnlyAvailable
  BY DEF FramesInv
<1> QED
  BY <1>1, FramesInvariant, PTL

\* The search of Allocate passes over no block it could have handed out.
THEOREM AlwaysFailsOnlyWhenFull == Spec => []FailsOnlyWhenFull
<1>1. FramesInv => FailsOnlyWhenFull
  BY DEF FramesInv
<1> QED
  BY <1>1, FramesInvariant, PTL

----------------------------------------------------------------------------
(* The frame allocator in the boot.                                        *)

\* Whatever happens during the boot and after it is, to the memory, a step of the
\* frame allocator or none.
LEMMA BootIsFrames == [BootNext]_bootVars => [Next]_vars
<1>1. UNCHANGED bootVars => UNCHANGED vars
  BY DEF bootVars
<1>2. MainTask => [Next]_vars
  BY DEF MainTask, InitializeMemory, InitializePCI, ReadTables, StartWait, WaitOverflow,
         WaitEnd, ReadTimer, StartPeriodic, Calibrating, Next
<1>3. KernelRuns => [Next]_vars
  BY DEF KernelRuns, Next
<1>4. Hardware => [Next]_vars
  BY DEF Hardware
<1> QED
  BY <1>1, <1>2, <1>3, <1>4 DEF BootNext

\* The boot implements the frame allocator (InitializeMemoryManager and
\* BitmapMemoryManager), whatever else the kernel does.
THEOREM BootImplementsFrames == BootSpec => Init /\ [][Next]_vars
<1>1. BootInit => Init
  BY DEF BootInit
<1> QED
  BY <1>1, BootIsFrames, PTL DEF BootSpec

\* So what was proved of the frame allocator by itself holds in the kernel that boots
\* and runs.
THEOREM BootKeepsFrames == BootSpec => [](BlocksAreApart /\ OnlyAvailable /\ FailsOnlyWhenFull)
<1>1. FramesInv => BlocksAreApart /\ OnlyAvailable /\ FailsOnlyWhenFull
  BY DEF FramesInv
<1> QED
  BY <1>1, BootImplementsFrames, FramesInit, FramesNext, PTL

----------------------------------------------------------------------------
(* The calibration of the ticks.                                           *)

\* What the local APIC timer has left n counts of the other timer after its start.
Left(n) == IF kCountMax > LapicRate * n THEN kCountMax - LapicRate * n ELSE 0

\* The counts the wait has taken, if the timer has not passed its top unnoticed.
Waited == timer.count + Pm100ms - timer.end

\* Before the overflow the local APIC timer has counted what the other timer has since
\* the start.  After it, it has counted at least that much, and no more if the end is
\* not close to the top: then the last read that did not end the wait came before the
\* end, or it was the read that saw the overflow.
ClockInv ==
  /\ timer \in [count : Nat, start : Nat, end : Nat]
  /\ at = "wait_overflow" =>
       /\ timer.start \in 0 .. PmPeriod - 1 /\ timer.count \in timer.start .. PmPeriod - 1
       /\ timer.end = timer.start + Pm100ms - PmPeriod /\ timer.end >= 0
       /\ current_count = Left(timer.count - timer.start)
  /\ at = "wait_end" =>
       /\ timer.count \in 0 .. PmPeriod - 1 /\ timer.end \in 0 .. PmPeriod - 1
       /\ current_count \in Nat /\ current_count <= Left(Waited)
       /\ timer.end <= PmPeriod - MaxRead =>
            /\ current_count = Left(Waited)
            /\ timer.count < timer.end \/ timer.count < MaxRead
  /\ TicksAreRight

LEMMA ClockNumbers ==
  /\ PmPeriod \in Nat /\ Pm100ms \in Nat /\ MaxRead \in Nat /\ LapicRate \in Nat
  /\ kCountMax \in Nat /\ PmPeriod > 0 /\ Pm100ms > 0 /\ MaxRead > 0 /\ LapicRate > 0
  /\ Pm100ms + MaxRead < PmPeriod /\ 2 * MaxRead <= PmPeriod
  BY ClockAssumption

LEMMA Rates ==
  ASSUME NEW n \in Int, NEW k \in Int
  PROVE  /\ LapicRate * n \in Int /\ LapicRate * k \in Int
         /\ LapicRate * (n + k) = LapicRate * n + LapicRate * k
         /\ k >= 0 => LapicRate * k >= 0
         /\ n < k => LapicRate * n < LapicRate * k
<1>1. LapicRate \in Nat /\ LapicRate > 0
  BY ClockNumbers
<1>2. LapicRate * (n + k) = LapicRate * n + LapicRate * k
  BY <1>1
<1>3. k >= 0 => LapicRate * k >= 0
  BY <1>1
<1>4. ASSUME n < k PROVE LapicRate * n < LapicRate * k
  <2>1. k - n \in Nat /\ k - n > 0
    BY <1>4
  <2>2. LapicRate * (k - n) > 0
    BY <1>1, <2>1
  <2>3. LapicRate * k = LapicRate * n + LapicRate * (k - n)
    BY <1>1
  <2> QED
    BY <1>1, <2>2, <2>3
<1> QED
  BY <1>1, <1>2, <1>3, <1>4

\* The local APIC timer goes on from where it is; what is left gets less.
LEMMA LeftGoesOn ==
  ASSUME NEW n \in Int, NEW k \in Nat, NEW c \in Nat
  PROVE  LET d == IF c > LapicRate * k THEN c - LapicRate * k ELSE 0
         IN  /\ d \in Nat
             /\ c <= Left(n) => d <= Left(n + k)
             /\ c = Left(n) => d = Left(n + k)
<1> DEFINE a == LapicRate * n
           b == LapicRate * k
<1>1. a \in Int /\ b \in Int /\ LapicRate * (n + k) = a + b /\ b >= 0
  BY Rates
<1>2. kCountMax \in Nat
  BY ClockNumbers
<1>3. /\ Left(n) = IF kCountMax > a THEN kCountMax - a ELSE 0
      /\ Left(n + k) = IF kCountMax > a + b THEN kCountMax - (a + b) ELSE 0
  BY <1>1 DEF Left
<1> HIDE DEF a, b
<1> QED
  <2> SUFFICES LET d == IF c > b THEN c - b ELSE 0
               IN  /\ d \in Nat
                   /\ c <= Left(n) => d <= Left(n + k)
                   /\ c = Left(n) => d = Left(n + k)
    BY DEF b
  <2> QED
    BY <1>1, <1>2, <1>3

LEMMA LeftGetsLess ==
  ASSUME NEW m \in Int, NEW n \in Int, m <= n
  PROVE  Left(n) <= Left(m) /\ Left(n) \in Nat
<1> DEFINE a == LapicRate * m
           b == LapicRate * n
<1>1. a \in Int /\ b \in Int /\ a <= b
  <2>1. a \in Int /\ b \in Int /\ (m < n => a < b)
    BY Rates, Zenon
  <2>2. m = n => a = b
    OBVIOUS
  <2> HIDE DEF a, b
  <2> QED
    BY <2>1, <2>2
<1>2. kCountMax \in Nat
  BY ClockNumbers
<1>3. /\ Left(m) = IF kCountMax > a THEN kCountMax - a ELSE 0
      /\ Left(n) = IF kCountMax > b THEN kCountMax - b ELSE 0
  BY DEF Left
<1> HIDE DEF a, b
<1> QED
  BY <1>1, <1>2, <1>3

\* Counting modulo the period.
LEMMA Counts ==
  ASSUME NEW c \in 0 .. PmPeriod - 1, NEW k \in Nat, k < PmPeriod
  PROVE  /\ (c + k) % PmPeriod \in 0 .. PmPeriod - 1
         /\ c + k < PmPeriod => (c + k) % PmPeriod = c + k
         /\ c + k >= PmPeriod => (c + k) % PmPeriod = c + k - PmPeriod
<1>1. PmPeriod \in Nat /\ PmPeriod > 0
  BY ClockNumbers
<1>2. c \in Nat /\ c < PmPeriod
  BY <1>1
<1> QED
  BY <1>1, <1>2

LEMMA StartWaitClock ==
  ASSUME StartWait
  PROVE  ClockInv'
<1> USE ClockNumbers
<1> DEFINE EndOf(c) == (c + Pm100ms) % PmPeriod
<1>0. PICK c \in 0 .. PmPeriod - 1 :
        /\ timer' = [count |-> c, start |-> c, end |-> EndOf(c)]
        /\ EndOf(c) < c => at' = "wait_overflow"
        /\ ~(EndOf(c) < c) => at' = "wait_end"
  BY Zenon DEF StartWait, Goes
<1> DEFINE e == EndOf(c)
<1>1. /\ timer' = [count |-> c, start |-> c, end |-> e]
      /\ e < c => at' = "wait_overflow"
      /\ ~(e < c) => at' = "wait_end"
  BY <1>0, Zenon
<1>9. /\ e \in 0 .. PmPeriod - 1
      /\ c + Pm100ms < PmPeriod => e = c + Pm100ms
      /\ c + Pm100ms >= PmPeriod => e = c + Pm100ms - PmPeriod
  <2>1. Pm100ms \in Nat /\ Pm100ms < PmPeriod
    OBVIOUS
  <2> QED
    BY <2>1, Counts
<1> HIDE DEF e, EndOf
<1>2. current_count' = kCountMax
  BY DEF StartWait
<1>3. Left(0) = kCountMax /\ c \in Nat
  BY DEF Left
<1>4. at' # "periodic" /\ timer' \in [count : Nat, start : Nat, end : Nat]
  <2>1. e \in Nat
    BY <1>9
  <2> QED
    BY <1>1, <1>3, <2>1
<1>5. CASE c + Pm100ms < PmPeriod
  <2>1. e = c + Pm100ms
    BY <1>5, <1>9
  <2>2. at' = "wait_end" /\ timer'.count = c /\ timer'.end = c + Pm100ms
    BY <1>1, <1>3, <2>1
  <2>3. Waited' = 0
    BY <1>3, <2>2 DEF Waited
  <2>4. current_count' = Left(Waited') /\ current_count' \in Nat
    BY <1>2, <1>3, <2>3
  <2>5. /\ timer'.count \in 0 .. PmPeriod - 1 /\ timer'.end \in 0 .. PmPeriod - 1
        /\ timer'.count < timer'.end
    BY <1>3, <1>5, <2>2
  <2> QED
    BY <1>4, <2>2, <2>4, <2>5 DEF ClockInv, TicksAreRight
<1>6. CASE c + Pm100ms >= PmPeriod
  <2>1. e = c + Pm100ms - PmPeriod
    BY <1>6, <1>9
  <2>2. /\ at' = "wait_overflow" /\ timer'.count = c /\ timer'.start = c
        /\ timer'.end = c + Pm100ms - PmPeriod
    BY <1>1, <1>3, <2>1
  <2>3. timer'.count - timer'.start = 0
    BY <1>3, <2>2
  <2>4. current_count' = Left(timer'.count - timer'.start)
    BY <1>2, <1>3, <2>3
  <2>5. /\ timer'.start \in 0 .. PmPeriod - 1 /\ timer'.count \in timer'.start .. PmPeriod - 1
        /\ timer'.end = timer'.start + Pm100ms - PmPeriod /\ timer'.end >= 0
    BY <1>3, <1>6, <2>2
  <2> QED
    BY <1>4, <2>2, <2>4, <2>5 DEF ClockInv, TicksAreRight
<1> QED
  BY <1>3, <1>5, <1>6

\* One read of the timer.
LEMMA ReadTimerClock ==
  ASSUME timer \in [count : Nat, start : Nat, end : Nat], timer.count < PmPeriod,
         NEW from, NEW to, NEW over, ReadTimer(from, to, over)
  PROVE  \E k \in 1 .. MaxRead :
           /\ timer' \in [count : Nat, start : Nat, end : Nat]
           /\ timer'.start = timer.start /\ timer'.end = timer.end
           /\ timer'.count \in 0 .. PmPeriod - 1
           /\ \/ timer'.count = timer.count + k /\ timer.count + k < PmPeriod
              \/ timer'.count = timer.count + k - PmPeriod /\ timer'.count < MaxRead
           /\ current_count' = IF current_count > LapicRate * k
                               THEN current_count - LapicRate * k ELSE 0
           /\ timer'.count \in over => at' = to
           /\ timer'.count \notin over => at' = from
<1>1. PICK k \in 1 .. MaxRead :
        LET c == (timer.count + k) % PmPeriod
        IN  /\ timer' = [timer EXCEPT !.count = c]
            /\ current_count' = IF current_count > LapicRate * k
                                THEN current_count - LapicRate * k ELSE 0
            /\ at' = IF c \in over THEN to ELSE from
  BY Zenon DEF ReadTimer
<1> DEFINE c == (timer.count + k) % PmPeriod
<1>2. /\ timer' = [timer EXCEPT !.count = c]
      /\ current_count' = IF current_count > LapicRate * k
                          THEN current_count - LapicRate * k ELSE 0
      /\ c \in over => at' = to
      /\ c \notin over => at' = from
  BY <1>1, Zenon
<1>3. /\ timer.count \in 0 .. PmPeriod - 1 /\ k \in Nat /\ k < PmPeriod /\ k <= MaxRead
      /\ MaxRead \in Nat /\ PmPeriod \in Nat
  BY ClockNumbers
<1>4. /\ c \in 0 .. PmPeriod - 1
      /\ timer.count + k < PmPeriod => c = timer.count + k
      /\ timer.count + k >= PmPeriod => c = timer.count + k - PmPeriod
  BY <1>3, Counts
<1> HIDE DEF c
<1>5. c \in Nat /\ timer' = [timer EXCEPT !.count = c]
  BY <1>2, <1>3, <1>4
<1>6. /\ timer' \in [count : Nat, start : Nat, end : Nat] /\ timer'.count = c
      /\ timer'.start = timer.start /\ timer'.end = timer.end
  BY <1>5
<1>7. \/ timer'.count = timer.count + k /\ timer.count + k < PmPeriod
      \/ timer'.count = timer.count + k - PmPeriod /\ timer'.count < MaxRead
  BY <1>3, <1>4, <1>6
<1>8. /\ timer'.count \in over => at' = to
      /\ timer'.count \notin over => at' = from
  BY <1>2, <1>6, Zenon
<1>9. timer'.count \in 0 .. PmPeriod - 1
  BY <1>4, <1>6
<1> QED
  BY <1>2, <1>6, <1>7, <1>8, <1>9, Zenon

\* The timer passes its top in a wait whose end is less than a period away, so it does
\* not come back to the start.
LEMMA WaitOverflowClock ==
  ASSUME ClockInv, WaitOverflow
  PROVE  ClockInv'
<1> USE ClockNumbers
<1>1. at = "wait_overflow"
  BY Zenon DEF WaitOverflow, ReadTimer
<1>2. /\ timer.start \in Nat /\ timer.count \in Nat /\ timer.end \in Nat
      /\ timer.count >= timer.start /\ timer.count < PmPeriod
      /\ timer.end = timer.start + Pm100ms - PmPeriod
      /\ timer \in [count : Nat, start : Nat, end : Nat]
      /\ current_count = Left(timer.count - timer.start)
  BY <1>1 DEF ClockInv
<1>3. PICK k \in 1 .. MaxRead :
        /\ timer' \in [count : Nat, start : Nat, end : Nat]
        /\ timer'.start = timer.start /\ timer'.end = timer.end
        /\ timer'.count \in 0 .. PmPeriod - 1
        /\ \/ timer'.count = timer.count + k /\ timer.count + k < PmPeriod
           \/ timer'.count = timer.count + k - PmPeriod /\ timer'.count < MaxRead
        /\ current_count' = IF current_count > LapicRate * k
                            THEN current_count - LapicRate * k ELSE 0
        /\ timer'.count \in 0 .. timer.start - 1 => at' = "wait_end"
        /\ timer'.count \notin 0 .. timer.start - 1 => at' = "wait_overflow"
  BY <1>2, ReadTimerClock, Zenon DEF WaitOverflow
<1>4. k \in Nat /\ k <= MaxRead /\ k > 0
  OBVIOUS
<1>5. /\ timer'.count < timer.start => at' = "wait_end"
      /\ timer'.count >= timer.start => at' = "wait_overflow"
  BY <1>2, <1>3
<1>6. current_count' = Left(timer.count - timer.start + k) /\ current_count' \in Nat
  <2>1. timer.count - timer.start \in Int /\ current_count \in Nat
    BY <1>2, LeftGetsLess
  <2> QED
    BY <1>2, <1>3, <1>4, <2>1, LeftGoesOn
<1>7. CASE timer'.count >= timer.start
  <2>1. timer'.count = timer.count + k
    BY <1>2, <1>3, <1>4, <1>7
  <2>2. at' = "wait_overflow" /\ timer.count - timer.start + k = timer'.count - timer'.start
    BY <1>2, <1>3, <1>4, <1>5, <1>7, <2>1
  <2>3. timer'.end >= 0 /\ timer'.end = timer'.start + Pm100ms - PmPeriod
    BY <1>2, <1>3
  <2>4. timer'.start \in 0 .. PmPeriod - 1 /\ timer'.count \in timer'.start .. PmPeriod - 1
    BY <1>2, <1>3, <1>4, <1>7
  <2> QED
    BY <1>3, <1>6, <2>2, <2>3, <2>4 DEF ClockInv, TicksAreRight
<1>8. CASE timer'.count < timer.start
  <2>1. timer'.count = timer.count + k - PmPeriod /\ timer'.count < MaxRead
    BY <1>2, <1>3, <1>4, <1>8
  <2>2. at' = "wait_end" /\ timer'.end \in 0 .. PmPeriod - 1
    BY <1>2, <1>3, <1>5, <1>8
  <2>3. Waited' = timer.count - timer.start + k
    BY <1>2, <1>3, <1>4, <2>1 DEF Waited
  <2> QED
    BY <1>3, <1>6, <2>1, <2>2, <2>3 DEF ClockInv, TicksAreRight
<1> QED
  BY <1>2, <1>3, <1>4, <1>7, <1>8

LEMMA WaitEndClock ==
  ASSUME ClockInv, WaitEnd
  PROVE  ClockInv'
<1> USE ClockNumbers
<1>1. at = "wait_end"
  BY Zenon DEF WaitEnd, ReadTimer
<1>2. /\ timer.count \in Nat /\ timer.end \in Nat
      /\ timer.count < PmPeriod /\ timer.end < PmPeriod
      /\ timer \in [count : Nat, start : Nat, end : Nat]
      /\ current_count \in Nat /\ current_count <= Left(Waited)
      /\ timer.end <= PmPeriod - MaxRead =>
           /\ current_count = Left(Waited)
           /\ timer.count < timer.end \/ timer.count < MaxRead
  BY <1>1 DEF ClockInv
<1>3. PICK k \in 1 .. MaxRead :
        /\ timer' \in [count : Nat, start : Nat, end : Nat]
        /\ timer'.start = timer.start /\ timer'.end = timer.end
        /\ timer'.count \in 0 .. PmPeriod - 1
        /\ \/ timer'.count = timer.count + k /\ timer.count + k < PmPeriod
           \/ timer'.count = timer.count + k - PmPeriod /\ timer'.count < MaxRead
        /\ current_count' = IF current_count > LapicRate * k
                            THEN current_count - LapicRate * k ELSE 0
        /\ timer'.count \in timer.end .. PmPeriod - 1 => at' = "periodic"
        /\ timer'.count \notin timer.end .. PmPeriod - 1 => at' = "wait_end"
  BY <1>2, ReadTimerClock, Zenon DEF WaitEnd
<1>4. k \in Nat /\ k <= MaxRead /\ k > 0
  OBVIOUS
<1>5. /\ timer'.count >= timer.end => at' = "periodic"
      /\ timer'.count < timer.end => at' = "wait_end"
  BY <1>2, <1>3
<1>6. Waited \in Int /\ Waited' \in Int
  BY <1>2, <1>3, <1>4 DEF Waited
<1>7. /\ current_count' \in Nat
      /\ current_count' <= Left(Waited + k)
      /\ current_count = Left(Waited) => current_count' = Left(Waited + k)
  BY <1>2, <1>3, <1>4, <1>6, LeftGoesOn
<1>8. Waited' <= Waited + k /\ (timer'.count = timer.count + k => Waited' = Waited + k)
  BY <1>2, <1>3, <1>4 DEF Waited
<1>9. current_count' <= Left(Waited') /\ Left(Waited') \in Nat
  <2>1. Waited + k \in Int
    BY <1>4, <1>6
  <2>2. Left(Waited + k) <= Left(Waited') /\ Left(Waited + k) \in Nat
    BY <1>6, <1>8, <2>1, LeftGetsLess, Zenon
  <2>3. Left(Waited') \in Nat
    BY <1>6, LeftGetsLess
  <2> QED
    BY <1>7, <2>2, <2>3
<1>10. timer.end <= PmPeriod - MaxRead =>
         /\ current_count' = Left(Waited')
         /\ timer'.count = timer.count + k
         /\ timer'.count < timer.end + MaxRead \/ timer'.count < 2 * MaxRead
  <2> SUFFICES ASSUME timer.end <= PmPeriod - MaxRead
               PROVE  /\ current_count' = Left(Waited')
                      /\ timer'.count = timer.count + k
                      /\ timer'.count < timer.end + MaxRead \/ timer'.count < 2 * MaxRead
    OBVIOUS
  <2>1. timer.count + k < PmPeriod
    BY <1>2, <1>3, <1>4
  <2>2. timer'.count = timer.count + k
    BY <1>2, <1>3, <1>4, <2>1
  <2>3. Waited' = Waited + k
    BY <1>8, <2>2
  <2> QED
    BY <1>2, <1>3, <1>7, <2>2, <2>3
<1>11. CASE timer'.count < timer.end
  <2>1. at' = "wait_end"
    BY <1>2, <1>3, <1>4, <1>5, <1>11
  <2>2. timer'.end \in 0 .. PmPeriod - 1
    BY <1>2, <1>3, <1>4
  <2> QED
    BY <1>3, <1>4, <1>7, <1>9, <1>10, <1>11, <2>1, <2>2 DEF ClockInv, TicksAreRight
<1>12. CASE timer'.count >= timer.end
  <2>1. at' = "periodic"
    BY <1>2, <1>3, <1>4, <1>5, <1>12
  <2>2. Waited' >= Pm100ms
    BY <1>2, <1>3, <1>4, <1>12 DEF Waited
  <2>3. LAPICTimerElapsed' >= LapicRate * Pm100ms
    <3>1. Left(Waited') <= Left(Pm100ms)
      BY <1>6, <2>2, LeftGetsLess
    <3>2. Left(Pm100ms) = kCountMax - LapicRate * Pm100ms /\ LapicRate * Pm100ms \in Nat
      <4> DEFINE a == LapicRate * Pm100ms
      <4>1. a \in Nat /\ a <= kCountMax
        BY Rates, ClockAssumption
      <4>2. Left(Pm100ms) = IF kCountMax > a THEN kCountMax - a ELSE 0
        BY DEF Left
      <4> HIDE DEF a
      <4>3. Left(Pm100ms) = kCountMax - a
        BY <4>1, <4>2
      <4> QED
        BY <4>1, <4>3 DEF a
    <3>3. LAPICTimerElapsed' = kCountMax - current_count'
      BY DEF LAPICTimerElapsed
    <3> DEFINE a == LapicRate * Pm100ms
    <3>4. a \in Nat /\ Left(Pm100ms) = kCountMax - a
      BY <3>2
    <3> HIDE DEF a
    <3>6. Left(Waited') <= kCountMax - a
      BY <3>1, <3>4
    <3>7. current_count' \in Nat /\ current_count' <= Left(Waited') /\ Left(Waited') \in Nat
      BY <1>7, <1>9
    <3>5. ASSUME NEW b \in Nat, NEW c \in Nat, b <= kCountMax - a, c <= b
          PROVE  kCountMax - c >= a
      BY <3>4, <3>5
    <3>8. kCountMax - current_count' >= a
      BY <3>5, <3>6, <3>7
    <3> QED
      BY <3>3, <3>8 DEF a
  <2>4. timer.end <= PmPeriod - MaxRead =>
          LAPICTimerElapsed' < LapicRate * (Pm100ms + 2 * MaxRead)
    <3> SUFFICES ASSUME timer.end <= PmPeriod - MaxRead
                 PROVE  kCountMax - current_count' < LapicRate * (Pm100ms + 2 * MaxRead)
      BY DEF LAPICTimerElapsed
    <3> DEFINE a == LapicRate * Waited'
               b == LapicRate * (Pm100ms + 2 * MaxRead)
    <3>1. Waited' < Pm100ms + 2 * MaxRead
      BY <1>2, <1>3, <1>4, <1>10 DEF Waited
    <3>2. Pm100ms + 2 * MaxRead \in Int
      OBVIOUS
    <3>3. a \in Int /\ b \in Int /\ a < b
      BY <1>6, <3>1, <3>2, Rates, Zenon
    <3>4. current_count' = IF kCountMax > a THEN kCountMax - a ELSE 0
      BY <1>10 DEF Left
    <3> HIDE DEF a, b
    <3>5. kCountMax - current_count' < b
      BY <3>3, <3>4
    <3> QED
      BY <3>5 DEF b
  <2>5. TicksAreRight'
    <3>1. timer.end > PmPeriod - MaxRead \/ timer.end <= PmPeriod - MaxRead
      BY <1>2
    <3> QED
      BY <1>3, <1>4, <2>3, <2>4, <3>1 DEF TicksAreRight
  <2> QED
    BY <1>3, <1>4, <2>1, <2>5 DEF ClockInv
<1> QED
  BY <1>2, <1>3, <1>4, <1>11, <1>12

\* The main task comes to the wait only by starting it, and nothing else touches the
\* timers.
LEMMA OthersClock ==
  ASSUME ClockInv, \/ /\ at' \notin {"wait_overflow", "wait_end", "periodic"}
                      /\ timer' \in {timer, NoTimer}
                   \/ UNCHANGED <<at, clockVars>>
  PROVE  ClockInv'
  BY DEF ClockInv, TicksAreRight, Waited, Left, LAPICTimerElapsed, clockVars, NoTimer

\* The places to which the driver goes.
LEMMA DriverPlaces ==
  ASSUME Driver
  PROVE  at' \notin {"memory", "pci", "tables", "calibrate", "wait_overflow", "wait_end",
                    "periodic", "find"}
<1>1. FindController \/ InitializeDevices \/ RequestHCOwnership \/ Owned
        => at' \in {"running", "devices", "exit", "ownership", "wait_owned", "halt"}
  BY DEF FindController, InitializeDevices, RequestHCOwnership, Owned, Goes
<1>2. Halt \/ Halted \/ Reset \/ ResetDone \/ Ready \/ SetMaxSlots
        => at' \in {"wait_halted", "reset", "wait_reset", "wait_ready", "config", "scratchpads"}
  BY Zenon DEF Halt, Halted, Reset, ResetDone, Ready, SetMaxSlots, Goes
<1>3. AllocScratchpadArray \/ AllocScratchpad \/ SetDeviceContexts
        => at' \in {"buffers", "contexts", "command_ring"}
  <2>1. AllocScratchpadArray \/ SetDeviceContexts
          => at' \in {"buffers", "contexts", "command_ring"}
    BY Zenon DEF AllocScratchpadArray, SetDeviceContexts, Goes
  <2>2. ASSUME AllocScratchpad PROVE at' \in {"buffers", "contexts"}
    <3>1. \E i \in 1 .. machine.scratchpads :
             at' = IF i = machine.scratchpads THEN "contexts" ELSE "buffers"
      BY <2>2 DEF AllocScratchpad
    <3> QED
      BY <3>1
  <2> QED
    BY <2>1, <2>2
<1>4. InitializeCommandRing \/ InitializeEventRing
        => at' \in {"exit", "event_ring", "interrupter"}
  BY ZenonT(40) DEF InitializeCommandRing, InitializeEventRing, Goes
<1>5. EnableInterrupter \/ EnableInterrupts \/ Run \/ Running
        => at' \in {"interrupts", "run", "wait_running", "running"}
  BY Zenon DEF EnableInterrupter, EnableInterrupts, Run, Running, Goes
<1> QED
  BY <1>1, <1>2, <1>3, <1>4, <1>5 DEF Driver

\* The firmware and the controller change nothing but the controller's registers.
LEMMA HardwareOnly ==
  Controller \/ FirmwareYields \/ FirmwareDrives => OnlyController
  BY Zenon DEF Controller, ControllerHalts, ControllerResets, ControllerGetsReady,
         FirmwareYields, FirmwareDrives

LEMMA ClockNext == ClockInv /\ [BootNext]_bootVars => ClockInv'
<1> SUFFICES ASSUME ClockInv, [BootNext]_bootVars PROVE ClockInv'
  OBVIOUS
<1> DEFINE Elsewhere == /\ at' \notin {"wait_overflow", "wait_end", "periodic"}
                        /\ timer' \in {timer, NoTimer}
<1>1. CASE InitializeMemory \/ InitializePCI \/ ReadTables \/ StartPeriodic
  <2>1. Elsewhere
    BY <1>1 DEF InitializeMemory, InitializePCI, ReadTables, StartPeriodic, Goes, clockVars
  <2> QED
    BY <2>1, OthersClock
<1>2. CASE Driver /\ UNCHANGED <<vars, clockVars>>
  <2>1. Elsewhere
    BY <1>2, DriverPlaces DEF clockVars
  <2> QED
    BY <2>1, OthersClock
<1>3. CASE KernelRuns \/ Hardware \/ UNCHANGED bootVars
  <2>1. UNCHANGED <<at, clockVars>>
    <3>1. KernelRuns => UNCHANGED <<at, clockVars>>
      <4>1. ASSUME NEW slot, AllocDevice(slot) PROVE UNCHANGED at
        BY ONLY <4>1 DEF AllocDevice
      <4>2. (\E slot \in 1 .. MaxDevices : AllocDevice(slot)) => UNCHANGED at
        BY <4>1, Zenon
      <4> QED
        BY <4>2, Zenon DEF KernelRuns, xhcVars, clockVars
    <3>2. Hardware => UNCHANGED <<at, clockVars>>
      BY HardwareOnly DEF Hardware, OnlyController
    <3> QED
      BY <1>3, <3>1, <3>2 DEF bootVars, xhcVars
  <2> QED
    BY <2>1, OthersClock
<1> QED
  BY <1>1, <1>2, <1>3, StartWaitClock, WaitOverflowClock, WaitEndClock DEF BootNext, MainTask

\* The wait that the period of the ticks is computed from is neither shorter than 100
\* milliseconds nor longer by more than two reads, whatever the timer's width and its
\* count at the start (acpi::WaitMilliseconds and apic::timer::Initialize).
THEOREM TicksAlwaysRight == BootSpec => []TicksAreRight
<1>1. BootInit => ClockInv
  BY DEF BootInit, ClockInv, TicksAreRight, NoTimer
<1>2. ClockInv => TicksAreRight
  BY DEF ClockInv
<1> QED
  BY <1>1, <1>2, ClockNext, PTL DEF BootSpec

----------------------------------------------------------------------------
(* The pool of the USB drivers.                                            *)

\* The alignments and boundaries the drivers ask for: of each pair the boundary is a
\* multiple of the alignment.
Line == 64
Page == 4096
Segment == 64 * 1024
Shapes == {<<0, 0>>, <<Line, Page>>, <<Page, Page>>, <<Line, Segment>>}

\* An area that lies where it was asked for, and not behind alloc_ptr.
LiesIn(q, a) ==
  /\ q.base <= a.p /\ a.p + a.size <= q.base + kMemoryPoolSize
  /\ a.p + a.size <= q.alloc_ptr
  /\ Fits(a.p, a.size, a.alignment, a.boundary)

PoolOK(q) ==
  /\ q = [base |-> q.base, alloc_ptr |-> q.alloc_ptr, areas |-> q.areas]
  /\ q.base \in Nat \ {0} /\ q.alloc_ptr \in Nat /\ q.base <= q.alloc_ptr
  /\ \A a \in q.areas : a.p \in Nat /\ a.size \in Nat
  /\ \A a \in q.areas : a.p # 0 => LiesIn(q, a)
  /\ \A a, b \in q.areas :
       a.p # 0 /\ b.p # 0 => a = b \/ a.p + a.size <= b.p \/ b.p + b.size <= a.p

\* Ceil is the next multiple.
LEMMA Ceils ==
  ASSUME NEW v \in Nat
  PROVE  /\ Ceil(v, Line) \in Nat /\ Ceil(v, Line) >= v /\ Ceil(v, Line) % Line = 0
         /\ Ceil(v, Page) \in Nat /\ Ceil(v, Page) >= v /\ Ceil(v, Page) % Page = 0
         /\ Ceil(v, Segment) \in Nat /\ Ceil(v, Segment) >= v /\ Ceil(v, Segment) % Segment = 0
  BY DEF Ceil, Line, Page, Segment

\* An area that ends before the next boundary, or begins at one, does not cross one.
LEMMA CrossesNone ==
  ASSUME NEW p \in Nat, NEW size \in Nat \ {0}
  PROVE  /\ Ceil(p, Page) >= p + size => p \div Page = (p + size - 1) \div Page
         /\ Ceil(p, Segment) >= p + size => p \div Segment = (p + size - 1) \div Segment
         /\ p % Page = 0 /\ size <= Page => p \div Page = (p + size - 1) \div Page
         /\ p % Segment = 0 /\ size <= Segment => p \div Segment = (p + size - 1) \div Segment
         /\ p % Page = 0 => p % Line = 0
         /\ p % Segment = 0 => p % Line = 0
  BY DEF Ceil, Line, Page, Segment

\* An aligned address is moved to the boundary, and stays aligned, or it needs not.
LEMMA WithinFits ==
  ASSUME NEW c \in Nat, NEW size \in Nat \ {0}
  PROVE  /\ Within(c, size, Page) \in Nat /\ Within(c, size, Page) >= c
         /\ Within(c, size, Segment) \in Nat /\ Within(c, size, Segment) >= c
         /\ c % Line = 0 => /\ Fits(Within(c, size, Page), size, Line, Page)
                          /\ Fits(Within(c, size, Segment), size, Line, Segment)
         /\ c % Page = 0 => Fits(Within(c, size, Page), size, Page, Page)
<1> DEFINE d == Ceil(c, Page)
           e == Ceil(c, Segment)
<1>1. /\ d \in Nat /\ d >= c /\ d % Page = 0
      /\ e \in Nat /\ e >= c /\ e % Segment = 0
  BY Ceils, Zenon
<1>2. /\ d >= c + size => c \div Page = (c + size - 1) \div Page
      /\ e >= c + size => c \div Segment = (c + size - 1) \div Segment
  BY CrossesNone, Zenon
<1>3. /\ Within(c, size, Page) = IF d < c + size THEN d ELSE c
      /\ Within(c, size, Segment) = IF e < c + size THEN e ELSE c
  BY DEF Within, Page, Segment
<1> HIDE DEF d, e
<1>4. /\ size <= Page => d \div Page = (d + size - 1) \div Page
      /\ d % Line = 0
  BY <1>1, CrossesNone
<1>5. /\ size <= Segment => e \div Segment = (e + size - 1) \div Segment
      /\ e % Line = 0
  BY <1>1, CrossesNone
<1>6. /\ Within(c, size, Page) \in Nat /\ Within(c, size, Page) >= c
      /\ Within(c, size, Segment) \in Nat /\ Within(c, size, Segment) >= c
  BY <1>1, <1>3
<1>7. Fits(d, size, Line, Page) /\ Fits(d, size, Page, Page) /\ Fits(e, size, Line, Segment)
  BY <1>1, <1>4, <1>5 DEF Fits
<1>8. /\ d >= c + size => /\ c % Line = 0 => Fits(c, size, Line, Page)
                          /\ c % Page = 0 => Fits(c, size, Page, Page)
      /\ e >= c + size => (c % Line = 0 => Fits(c, size, Line, Segment))
  BY <1>2 DEF Fits
<1>9. (d < c + size \/ d >= c + size) /\ (e < c + size \/ e >= c + size)
  BY <1>1
<1>10. /\ d < c + size => Within(c, size, Page) = d
       /\ d >= c + size => Within(c, size, Page) = c
       /\ e < c + size => Within(c, size, Segment) = e
       /\ e >= c + size => Within(c, size, Segment) = c
  BY <1>1, <1>3
<1> QED
  BY <1>6, <1>7, <1>8, <1>9, <1>10, Zenon

\* Where AllocMem puts an area.
Place(q, size, alignment, boundary) == Within(Aligned(q.alloc_ptr, alignment), size, boundary)

LEMMA Placed ==
  ASSUME NEW q, q.alloc_ptr \in Nat, NEW size \in Nat \ {0},
         NEW alignment, NEW boundary, <<alignment, boundary>> \in Shapes
  PROVE  /\ Place(q, size, alignment, boundary) \in Nat
         /\ Place(q, size, alignment, boundary) >= q.alloc_ptr
         /\ Fits(Place(q, size, alignment, boundary), size, alignment, boundary)
<1> DEFINE v == q.alloc_ptr
           p == Place(q, size, alignment, boundary)
<1>1. v \in Nat
  OBVIOUS
<1>2. /\ Aligned(v, 0) = v /\ Aligned(v, Line) = Ceil(v, Line) /\ Aligned(v, Page) = Ceil(v, Page)
      /\ Within(v, size, 0) = v
  BY DEF Aligned, Within, Line, Page
<1>3. /\ Ceil(v, Line) \in Nat /\ Ceil(v, Line) >= v /\ Ceil(v, Line) % Line = 0
      /\ Ceil(v, Page) \in Nat /\ Ceil(v, Page) >= v /\ Ceil(v, Page) % Page = 0
  BY <1>1, Ceils, Zenon
<1>4. CASE alignment = 0 /\ boundary = 0
  <2>1. p = v
    BY <1>2, <1>4 DEF Place
  <2>2. Fits(v, size, 0, 0)
    BY DEF Fits
  <2> QED
    BY <1>1, <1>4, <2>1, <2>2
<1>5. CASE alignment = Line /\ boundary = Page
  <2>1. p = Within(Ceil(v, Line), size, Page)
    BY <1>2, <1>5, Zenon DEF Place
  <2>2. p \in Nat /\ p >= Ceil(v, Line) /\ Fits(p, size, Line, Page)
    BY <1>3, <2>1, WithinFits, Zenon
  <2> QED
    BY <1>1, <1>3, <1>5, <2>2
<1>6. CASE alignment = Page /\ boundary = Page
  <2>1. p = Within(Ceil(v, Page), size, Page)
    BY <1>2, <1>6, Zenon DEF Place
  <2>2. p \in Nat /\ p >= Ceil(v, Page) /\ Fits(p, size, Page, Page)
    BY <1>3, <2>1, WithinFits, Zenon
  <2> QED
    BY <1>1, <1>3, <1>6, <2>2
<1>7. CASE alignment = Line /\ boundary = Segment
  <2>1. p = Within(Ceil(v, Line), size, Segment)
    BY <1>2, <1>7, Zenon DEF Place
  <2>2. p \in Nat /\ p >= Ceil(v, Line) /\ Fits(p, size, Line, Segment)
    BY <1>3, <2>1, WithinFits, Zenon
  <2> QED
    BY <1>1, <1>3, <1>7, <2>2
<1>8. \/ alignment = 0 /\ boundary = 0
      \/ alignment = Line /\ boundary = Page
      \/ alignment = Page /\ boundary = Page
      \/ alignment = Line /\ boundary = Segment
  BY DEF Shapes
<1> QED
  BY <1>4, <1>5, <1>6, <1>7, <1>8

\* AllocMem cuts the area off behind all that it has given out, or gives none.
LEMMA AllocMemKeeps ==
  ASSUME NEW q, PoolOK(q), NEW what, NEW size \in Nat \ {0},
         NEW alignment, NEW boundary, <<alignment, boundary>> \in Shapes
  PROVE  PoolOK(AllocMem(q, what, size, alignment, boundary))
<1> DEFINE p == Place(q, size, alignment, boundary)
           full == q.base + kMemoryPoolSize < p + size
           n == IF full THEN p ELSE p + size
           x == [what |-> what, p |-> IF full THEN 0 ELSE p, size |-> size,
                 alignment |-> alignment, boundary |-> boundary]
           r == AllocMem(q, what, size, alignment, boundary)
<1>1. /\ q = [base |-> q.base, alloc_ptr |-> q.alloc_ptr, areas |-> q.areas]
      /\ q.base <= q.alloc_ptr
      /\ \A a \in q.areas : a.p # 0 => LiesIn(q, a)
      /\ \A a, b \in q.areas :
           a.p # 0 /\ b.p # 0 => a = b \/ a.p + a.size <= b.p \/ b.p + b.size <= a.p
  BY DEF PoolOK
<1>2. /\ q.base \in Nat \ {0} /\ q.alloc_ptr \in Nat
      /\ \A a \in q.areas : a.p \in Nat /\ a.size \in Nat
  BY DEF PoolOK
<1>3. p \in Nat /\ p >= q.alloc_ptr /\ Fits(p, size, alignment, boundary)
  BY <1>2, Placed, Zenon
<1>4. alignment \in Nat /\ boundary \in Nat
  BY DEF Shapes, Line, Page, Segment
<1>5. r = [q EXCEPT !.alloc_ptr = n, !.areas = q.areas \cup {x}]
  BY DEF AllocMem, Place
<1> HIDE DEF p, r
<1>6. n \in Nat /\ n >= q.alloc_ptr /\ (~full => n = p + size)
  BY <1>2, <1>3
<1>7. /\ x.p \in Nat /\ x.size = size /\ x.alignment = alignment /\ x.boundary = boundary
      /\ full => x.p = 0
      /\ ~full => x.p = p
  BY <1>2, <1>3, <1>4
<1> HIDE DEF n, x
<1>8. /\ r = [base |-> r.base, alloc_ptr |-> r.alloc_ptr, areas |-> r.areas]
      /\ r.base = q.base /\ r.alloc_ptr = n
      /\ r.areas = q.areas \cup {x}
  BY <1>1, <1>5
<1>9. ASSUME NEW a \in q.areas
      PROVE  a.p \in Nat /\ a.size \in Nat
  BY <1>2
<1>10. ASSUME NEW a \in q.areas, a.p # 0
       PROVE  LiesIn(r, a) /\ a.p + a.size <= q.alloc_ptr
  BY <1>1, <1>2, <1>6, <1>8, <1>9, <1>10 DEF LiesIn
<1>11. ASSUME x.p # 0
       PROVE  LiesIn(r, x) /\ x.p >= q.alloc_ptr
  <2>1. ~full
    BY <1>7, <1>11
  <2>2. x.p = p /\ n = p + size /\ p + size <= q.base + kMemoryPoolSize
    BY <1>2, <1>3, <1>6, <1>7, <2>1 DEF kMemoryPoolSize
  <2>3. Fits(x.p, x.size, x.alignment, x.boundary)
    BY <1>3, <1>7, <2>2, Zenon
  <2> QED
    BY <1>1, <1>2, <1>3, <1>7, <1>8, <2>2, <2>3 DEF LiesIn
<1>12. r.base <= r.alloc_ptr
  BY <1>1, <1>2, <1>6, <1>8
<1>13. \A a, b \in r.areas :
         a.p # 0 /\ b.p # 0 => a = b \/ a.p + a.size <= b.p \/ b.p + b.size <= a.p
  <2> SUFFICES ASSUME NEW a \in r.areas, NEW b \in r.areas, a.p # 0, b.p # 0
               PROVE  a = b \/ a.p + a.size <= b.p \/ b.p + b.size <= a.p
    OBVIOUS
  <2>1. x.p \in Nat /\ x.size \in Nat
    BY <1>7
  <2>2. CASE a \in q.areas /\ b \in q.areas
    BY <1>1, <2>2
  <2>3. CASE a \in q.areas /\ b = x
    BY <1>2, <1>9, <1>10, <1>11, <2>1, <2>3
  <2>4. CASE a = x /\ b \in q.areas
    BY <1>2, <1>9, <1>10, <1>11, <2>1, <2>4
  <2> QED
    BY <1>8, <2>2, <2>3, <2>4
<1>14. PoolOK(r)
  <2>1. \A a \in r.areas : a.p \in Nat /\ a.size \in Nat
    BY <1>7, <1>8, <1>9
  <2>2. r.base \in Nat \ {0} /\ r.alloc_ptr \in Nat
    BY <1>2, <1>6, <1>8
  <2> QED
    BY <1>8, <1>10, <1>11, <1>12, <1>13, <2>1, <2>2 DEF PoolOK
<1> QED
  BY <1>14 DEF r

\* AllocMem as it is called.
LEMMA AllocMemCalls ==
  ASSUME NEW q, PoolOK(q), NEW what, NEW size \in Nat \ {0}
  PROVE  /\ PoolOK(AllocMem(q, what, size, 0, 0))
         /\ PoolOK(AllocMem(q, what, size, 64, 4096))
         /\ PoolOK(AllocMem(q, what, size, 4096, 4096))
         /\ PoolOK(AllocMem(q, what, size, 64, 64 * 1024))
<1>1. /\ <<0, 0>> \in Shapes /\ <<Line, Page>> \in Shapes
      /\ <<Page, Page>> \in Shapes /\ <<Line, Segment>> \in Shapes
  BY DEF Shapes
<1>2. PoolOK(AllocMem(q, what, size, 0, 0))
  BY <1>1, AllocMemKeeps, Zenon
<1>3. PoolOK(AllocMem(q, what, size, Line, Page))
  BY <1>1, AllocMemKeeps, Zenon
<1>4. PoolOK(AllocMem(q, what, size, Page, Page))
  BY <1>1, AllocMemKeeps, Zenon
<1>5. PoolOK(AllocMem(q, what, size, Line, Segment))
  BY <1>1, AllocMemKeeps, Zenon
<1> QED
  BY <1>2, <1>3, <1>4, <1>5 DEF Line, Page, Segment

LEMMA SizesAre ==
  /\ (kDeviceSize + 1) * PointerBytes \in Nat \ {0} /\ RingSize * TrbBytes \in Nat \ {0}
  /\ TrbBytes \in Nat \ {0} /\ DeviceBytes \in Nat \ {0} /\ RingBytes \in Nat \ {0}
  /\ 4096 \in Nat \ {0}
  /\ \A n \in Nat \ {0} : n * PointerBytes \in Nat \ {0}
  BY DEF kDeviceSize, PointerBytes, RingSize, TrbBytes, DeviceBytes, RingBytes

PoolInv == machine \in Machines /\ PoolOK(pool)

LEMMA InitializeDevicesPool ==
  ASSUME PoolInv, InitializeDevices
  PROVE  PoolInv'
<1> DEFINE p1 == AllocMem(pool, Area("devices_"), (kDeviceSize + 1) * PointerBytes, 0, 0)
           p2 == AllocMem(p1, Area("device_context_pointers_"), (kDeviceSize + 1) * PointerBytes, 64, 4096)
<1>1. PoolOK(p1)
  BY AllocMemCalls, SizesAre DEF PoolInv
<1> HIDE DEF p1
<1>2. PoolOK(p2)
  BY <1>1, AllocMemCalls, SizesAre
<1>3. machine' = machine /\ pool' \in {p1, p2}
  BY DEF InitializeDevices, Keeps, p1
<1> QED
  BY <1>1, <1>2, <1>3 DEF PoolInv

LEMMA ScratchpadsPool ==
  ASSUME PoolInv, AllocScratchpadArray \/ AllocScratchpad
  PROVE  PoolInv'
<1>1. machine \in Machines /\ machine.scratchpads \in Nat
  BY MachinesAssumption DEF PoolInv
<1>2. machine' = machine
  <2>1. AllocScratchpadArray => machine' = machine
    BY DEF AllocScratchpadArray, Keeps
  <2>2. AllocScratchpad => machine' = machine
    BY DEF AllocScratchpad, Keeps
  <2> QED
    BY <2>1, <2>2
<1>3. CASE AllocScratchpadArray
  <2>1. CASE machine.scratchpads = 0
    BY <1>2, <1>3, <2>1 DEF PoolInv, AllocScratchpadArray
  <2>2. CASE machine.scratchpads # 0
    <3>1. pool' = AllocMem(pool, Area("scratchpad_buf_arr"), machine.scratchpads * PointerBytes, 64, 4096)
      BY <1>3, <2>2 DEF AllocScratchpadArray
    <3>2. machine.scratchpads * PointerBytes \in Nat \ {0}
      BY <1>1, <2>2, SizesAre
    <3>3. PoolOK(pool')
      BY <3>1, <3>2, AllocMemCalls DEF PoolInv
    <3> QED
      BY <1>2, <3>3 DEF PoolInv
  <2> QED
    BY <2>1, <2>2
<1>4. CASE AllocScratchpad
  <2>1. PICK i \in 1 .. machine.scratchpads :
               pool' = AllocMem(pool, <<"scratchpad", i>>, 4096, 4096, 4096)
    BY <1>4 DEF AllocScratchpad
  <2>3. PoolOK(pool')
    BY <2>1, AllocMemCalls, SizesAre DEF PoolInv
  <2> QED
    BY <1>2, <2>3 DEF PoolInv
<1> QED
  BY <1>3, <1>4

LEMMA RingsPool ==
  ASSUME PoolInv, InitializeCommandRing \/ InitializeEventRing
  PROVE  PoolInv'
<1>1. machine' = machine
  BY DEF InitializeCommandRing, InitializeEventRing, Keeps
<1>2. CASE InitializeCommandRing
  <2>1. pool' = AllocMem(pool, Area("cr_"), RingSize * TrbBytes, 64, 64 * 1024)
    BY <1>2 DEF InitializeCommandRing
  <2>2. PoolOK(pool')
    BY <2>1, AllocMemCalls, SizesAre DEF PoolInv
  <2> QED
    BY <1>1, <2>2 DEF PoolInv
<1>3. CASE InitializeEventRing
  <2> DEFINE p1 == AllocMem(pool, Area("er_"), RingSize * TrbBytes, 64, 64 * 1024)
             p2 == AllocMem(p1, Area("erst_"), TrbBytes, 64, 64 * 1024)
  <2>1. PoolOK(p1)
    BY AllocMemCalls, SizesAre DEF PoolInv
  <2> HIDE DEF p1
  <2>2. PoolOK(p2)
    BY <2>1, AllocMemCalls, SizesAre
  <2>3. pool' \in {p1, p2}
    BY <1>3 DEF InitializeEventRing, p1
  <2> QED
    BY <1>1, <2>1, <2>2, <2>3 DEF PoolInv
<1> QED
  BY <1>2, <1>3

LEMMA AllocDevicePool ==
  ASSUME PoolInv, NEW slot \in 1 .. MaxDevices, AllocDevice(slot)
  PROVE  PoolInv'
<1> DEFINE p1 == AllocMem(pool, <<"device", slot>>, DeviceBytes, 64, 4096)
           p2 == AllocMem(p1, <<"ring", slot>>, RingBytes, 64, 4096)
           p3 == AllocMem(p2, <<"ring_buf_", slot>>, RingSize * TrbBytes, 64, 64 * 1024)
<1>1. slot \in Nat
  BY MachinesAssumption
<1>2. PoolOK(p1)
  BY <1>1, AllocMemCalls, SizesAre DEF PoolInv
<1> HIDE DEF p1
<1>3. PoolOK(p2)
  BY <1>1, <1>2, AllocMemCalls, SizesAre
<1> HIDE DEF p2
<1>4. PoolOK(p3)
  BY <1>1, <1>3, AllocMemCalls, SizesAre
<1>5. machine' = machine /\ pool' = p3
  BY DEF AllocDevice, p1, p2
<1> QED
  BY <1>4, <1>5 DEF PoolInv

\* All other steps leave the pool alone.
LEMMA OthersPool ==
  ASSUME PoolInv, UNCHANGED <<machine, pool>>
  PROVE  PoolInv'
  BY DEF PoolInv

LEMMA PoolInit == BootInit => PoolInv
<1> SUFFICES ASSUME BootInit PROVE PoolInv
  OBVIOUS
<1>1. machine \in Machines /\ pool = NewPool(machine.pool_base)
  BY DEF BootInit
<1>2. machine.pool_base \in Nat \ {0}
  BY <1>1, MachinesAssumption
<1> QED
  BY <1>1, <1>2 DEF PoolInv, PoolOK, NewPool

LEMMA PoolNext == PoolInv /\ [BootNext]_bootVars => PoolInv'
<1> SUFFICES ASSUME PoolInv, [BootNext]_bootVars PROVE PoolInv'
  OBVIOUS
<1>1. CASE \/ InitializeMemory \/ InitializePCI \/ ReadTables \/ StartWait \/ WaitOverflow
           \/ WaitEnd \/ StartPeriodic
  <2>1. UNCHANGED <<machine, pool>>
    BY <1>1, Zenon DEF InitializeMemory, InitializePCI, ReadTables, StartWait, WaitOverflow,
                WaitEnd, ReadTimer, StartPeriodic, Calibrating, Keeps
  <2> QED
    BY <2>1, OthersPool
<1>2. CASE Driver
  <2>1. CASE \/ FindController \/ RequestHCOwnership \/ Owned \/ Halt \/ Halted \/ Reset
             \/ ResetDone \/ Ready \/ SetMaxSlots \/ SetDeviceContexts
             \/ EnableInterrupter \/ EnableInterrupts \/ Run \/ Running
    <3>1. UNCHANGED <<machine, pool>>
      BY <2>1, Zenon DEF FindController, RequestHCOwnership, Owned, Halt, Halted, Reset,
                  ResetDone, Ready, SetMaxSlots, SetDeviceContexts, EnableInterrupter,
                  EnableInterrupts, Run, Running, Keeps
    <3> QED
      BY <3>1, OthersPool
  <2> QED
    BY <1>2, <2>1, InitializeDevicesPool, ScratchpadsPool, RingsPool DEF Driver
<1>3. CASE KernelRuns
  <2>1. CASE \E slot \in 1 .. MaxDevices : AllocDevice(slot)
    BY <2>1, AllocDevicePool
  <2>2. CASE UNCHANGED xhcVars
    BY <2>2, OthersPool DEF xhcVars
  <2> QED
    BY <1>3, <2>1, <2>2 DEF KernelRuns
<1>4. CASE Hardware \/ UNCHANGED bootVars
  <2>1. UNCHANGED <<machine, pool>>
    BY <1>4, HardwareOnly DEF Hardware, OnlyController, bootVars, xhcVars
  <2> QED
    BY <2>1, OthersPool
<1> QED
  BY <1>1, <1>2, <1>3, <1>4 DEF BootNext, MainTask

LEMMA PoolInvariant == BootSpec => []PoolInv
  BY PoolInit, PoolNext, PTL DEF BootSpec

\* For every machine and every number of scratchpad buffers, the areas that AllocMem
\* has handed out lie in the pool, apart from each other, aligned and within their
\* boundaries, also when the pool has been used up.
THEOREM MemoryAlwaysApart == BootSpec => []MemoryIsApart
<1>1. PoolInv => MemoryIsApart
  <2> SUFFICES ASSUME PoolInv PROVE MemoryIsApart
    OBVIOUS
  <2>1. /\ \A a \in pool.areas : a.p # 0 => LiesIn(pool, a)
        /\ \A a, b \in pool.areas :
             a.p # 0 /\ b.p # 0 => a = b \/ a.p + a.size <= b.p \/ b.p + b.size <= a.p
    BY DEF PoolInv, PoolOK
  <2> QED
    BY <2>1 DEF LiesIn, MemoryIsApart
<1> QED
  BY <1>1, PoolInvariant, PTL

----------------------------------------------------------------------------
(* The start of the xHCI controller.                                       *)

\* AllocMem changes nothing about the areas of other names.
LEMMA OthersKept ==
  ASSUME NEW q, PoolOK(q), NEW what, NEW other, other # what,
         NEW size, NEW alignment, NEW boundary
  PROVE  LET r == AllocMem(q, what, size, alignment, boundary)
         IN  /\ AddressOf(r, other) = AddressOf(q, other)
             /\ Asked(r, other) <=> Asked(q, other)
<1> DEFINE p == Within(Aligned(q.alloc_ptr, alignment), size, boundary)
           full == q.base + kMemoryPoolSize < p + size
           n == IF full THEN p ELSE p + size
           x == [what |-> what, p |-> IF full THEN 0 ELSE p, size |-> size,
                 alignment |-> alignment, boundary |-> boundary]
           r == AllocMem(q, what, size, alignment, boundary)
<1>1. r = [q EXCEPT !.alloc_ptr = n, !.areas = q.areas \cup {x}]
  BY DEF AllocMem
<1>2. x.what = what
  OBVIOUS
<1>3. q = [base |-> q.base, alloc_ptr |-> q.alloc_ptr, areas |-> q.areas]
  BY DEF PoolOK
<1> HIDE DEF n, x, r
<1>4. r.areas = q.areas \cup {x}
  BY <1>1, <1>3
<1>5. {a \in r.areas : a.what = other} = {a \in q.areas : a.what = other}
  BY <1>2, <1>4
<1>6. AddressOf(r, other) = AddressOf(q, other)
  <2> DEFINE f == {a \in r.areas : a.what = other}
             g == {a \in q.areas : a.what = other}
  <2>1. /\ AddressOf(r, other) = IF f = {} THEN 0 ELSE (CHOOSE a \in f : TRUE).p
        /\ AddressOf(q, other) = IF g = {} THEN 0 ELSE (CHOOSE a \in g : TRUE).p
    BY Zenon DEF AddressOf
  <2>2. f = g
    BY <1>5
  <2> HIDE DEF f, g
  <2> QED
    BY <2>1, <2>2
<1>7. Asked(r, other) <=> Asked(q, other)
  BY <1>2, <1>4, Zenon DEF Asked
<1> QED
  BY <1>6, <1>7 DEF r

LEMMA AddressType ==
  ASSUME NEW q, PoolOK(q), NEW what
  PROVE  AddressOf(q, what) \in Nat /\ (~Asked(q, what) => AddressOf(q, what) = 0)
<1> DEFINE found == {a \in q.areas : a.what = what}
<1>1. CASE found = {}
  <2>1. AddressOf(q, what) = 0
    BY <1>1, Zenon DEF AddressOf
  <2> QED
    BY <2>1
<1>2. CASE found # {}
  <2>1. PICK a \in found : a = CHOOSE b \in found : TRUE
    BY <1>2, Zenon
  <2>2. AddressOf(q, what) = a.p
    BY <1>2, <2>1, Zenon DEF AddressOf
  <2>3. a.p \in Nat
    BY <2>1 DEF PoolOK
  <2>4. Asked(q, what)
    BY <2>1, Zenon DEF Asked
  <2> QED
    BY <2>2, <2>3, <2>4
<1> QED
  BY <1>1, <1>2

\* Areas of which there is only one, and others, have different names.
LEMMA NamesDiffer ==
  /\ Area("devices_") # Area("device_context_pointers_")
  /\ \A name \in {"device_context_pointers_", "cr_", "er_", "erst_"} :
       /\ Area(name) # Area("scratchpad_buf_arr")
       /\ \A i : /\ Area(name) # <<"scratchpad", i>> /\ Area(name) # <<"device", i>>
                 /\ Area(name) # <<"ring", i>> /\ Area(name) # <<"ring_buf_", i>>
  /\ \A name, other \in {"device_context_pointers_", "cr_", "er_", "erst_", "devices_"} :
       name # other => Area(name) # Area(other)
  BY DEF Area

\* What FindDevice finds.
LEMMA DeviceFound ==
  ASSUME machine \in Machines, devices \in Seq(machine.functions), XhcDevice # Nothing
  PROVE  XhcDevice \in machine.functions /\ Match(XhcDevice, PciXhci)
<1> DEFINE found == {i \in DOMAIN devices : Match(devices[i], PciXhci)}
<1>1. found # {} /\ XhcDevice = devices[Min(found)]
  BY Zenon DEF XhcDevice, FindDevice
<1>2. DOMAIN devices = 1 .. Len(devices) /\ Len(devices) \in Nat
  BY LenProperties
<1>3. found \in SUBSET Nat
  BY <1>2
<1>4. Min(found) \in found
  BY <1>1, <1>3, LeastExists, Zenon
<1> QED
  BY <1>1, <1>2, <1>4, ElementOfSeq

\* The controller's capability sends what the driver has asked for: neither
\* ConfigureMSI nor SwitchEhci2Xhci undoes what the other, or it itself, has written.
LEMMA MessageConfigured ==
  ASSUME machine \in Machines, devices \in Seq(machine.functions), XhcDevice # Nothing
  PROVE  MessageOf(SwitchEhci2Xhci(ConfigureMSI(XhcDevice, machine.conf, "bsp", "kXHCI", 0)),
                   Find_CapAddress(XhcDevice, kCapabilityMSI))
           = [enabled |-> TRUE, high |-> 0, low |-> "bsp", data |-> "kXHCI"]
<1> DEFINE cap == Find_CapAddress(XhcDevice, kCapabilityMSI)
           conf == machine.conf
           header == conf[cap]
           c1 == ConfigureMSI(XhcDevice, conf, "bsp", "kXHCI", 0)
           c2 == SwitchEhci2Xhci(c1)
           wide == header.addr_64_capable
           data == IF wide THEN cap + 12 ELSE cap + 8
           masks == IF header.per_vector_mask_capable THEN {data + 4, data + 8} ELSE {}
           upper == IF wide THEN {cap + 8} ELSE {}
           on == [header EXCEPT !.msi_enable = TRUE,
                    !.multi_msg_enable = IF header.multi_msg_capable <= 0
                                         THEN header.multi_msg_capable ELSE 0]
<1>1. /\ header \in MSI_Header
      /\ {cap + k : k \in {0, 4, 8, 12, 16, 20}} \subseteq DOMAIN conf \ {208, 216}
      /\ XhcDevice \in PciFunction
  <2>1. XhcDevice \in machine.functions /\ Match(XhcDevice, PciXhci)
    BY DeviceFound
  <2>2. machine.functions \subseteq PciFunction
    BY MachinesAssumption
  <2>3. \A f \in machine.functions : Match(f, PciXhci) =>
          LET c == Find_CapAddress(f, kCapabilityMSI)
          IN  /\ c # 0 /\ machine.conf[c] \in MSI_Header
              /\ {c + k : k \in {0, 4, 8, 12, 16, 20}} \subseteq DOMAIN machine.conf \ {208, 216}
    BY MachinesAssumption
  <2> QED
    BY <2>1, <2>2, <2>3, ZenonT(40)
<1>2. cap \in Int
  <2> DEFINE found == {i \in DOMAIN XhcDevice.caps : XhcDevice.caps[i].id = kCapabilityMSI}
  <2>1. CASE found = {}
    <3>1. cap = 0
      BY <2>1, Zenon DEF Find_CapAddress
    <3> QED
      BY <3>1
  <2>2. CASE found # {}
    <3>1. cap = XhcDevice.caps[Min(found)].addr
      BY <2>2, Zenon DEF Find_CapAddress
    <3>2. XhcDevice.caps \in Seq([addr : Nat, id : Nat])
      BY <1>1 DEF PciFunction
    <3>3. DOMAIN XhcDevice.caps = 1 .. Len(XhcDevice.caps) /\ Len(XhcDevice.caps) \in Nat
      BY <3>2, LenProperties
    <3>4. found \in SUBSET Nat
      BY <3>3
    <3>5. Min(found) \in DOMAIN XhcDevice.caps
      BY <2>2, <3>4, LeastExists, Zenon
    <3>6. XhcDevice.caps[Min(found)] \in [addr : Nat, id : Nat]
      BY <3>2, <3>3, <3>5, ElementOfSeq
    <3> QED
      BY <3>1, <3>6
  <2> QED
    BY <2>1, <2>2
<1>3. c1 = [r \in DOMAIN conf |-> CASE r = cap -> on
                                 [] r = cap + 4 -> "bsp"
                                 [] r = data -> "kXHCI"
                                 [] r \in upper \cup masks -> 0
                                 [] OTHER -> conf[r]]
  BY DEF ConfigureMSI
<1>4. /\ on.msi_enable = TRUE /\ on.addr_64_capable = wide
      /\ on.per_vector_mask_capable = header.per_vector_mask_capable
  BY <1>1 DEF MSI_Header
<1> HIDE DEF cap, on, conf
<1>5. \A r \in {cap, cap + 4, cap + 8, cap + 12, cap + 16, cap + 20} :
         r \in DOMAIN conf /\ r # 208 /\ r # 216
  BY <1>1, <1>2
<1>6. \A r \in DOMAIN conf : r # 208 /\ r # 216 => c2[r] = c1[r]
  <2>1. c2 = c1 \/ c2 = [c1 EXCEPT ![208] = c1[212], ![216] = c1[220]]
    BY Zenon DEF SwitchEhci2Xhci
  <2>2. c1 = [r \in DOMAIN c1 |-> c1[r]] /\ DOMAIN c1 = DOMAIN conf
    BY <1>3, Zenon
  <2> HIDE DEF c1, c2
  <2>3. [c1 EXCEPT ![208] = c1[212], ![216] = c1[220]]
          = [r \in DOMAIN c1 |-> IF r = 216 THEN c1[220] ELSE IF r = 208 THEN c1[212] ELSE c1[r]]
    BY ZenonT(40), <2>2
  <2> QED
    BY <2>1, <2>2, <2>3
<1> HIDE DEF c1, c2, header
<1>7. /\ c1[cap] = on /\ c1[cap + 4] = "bsp" /\ c1[data] = "kXHCI"
      /\ wide => c1[cap + 8] = 0
      /\ header.per_vector_mask_capable => c1[data + 4] = 0
  <2>1. data \in {cap + 8, cap + 12} /\ (wide => data = cap + 12)
    OBVIOUS
  <2>2. /\ wide => cap + 8 \in upper \cup masks
        /\ header.per_vector_mask_capable => data + 4 \in upper \cup masks
    OBVIOUS
  <2> HIDE DEF data, upper, masks, wide
  <2> DEFINE Value(r) == CASE r = cap -> on
                           [] r = cap + 4 -> "bsp"
                           [] r = data -> "kXHCI"
                           [] r \in upper \cup masks -> 0
                           [] OTHER -> conf[r]
  <2>0. \A r \in DOMAIN conf : c1[r] = Value(r)
    BY <1>3, Zenon
  <2>9. data \in DOMAIN conf /\ cap \in DOMAIN conf /\ cap + 4 \in DOMAIN conf
    BY <1>5, <2>1
  <2>8. data # cap /\ data # cap + 4 /\ cap # cap + 4
    BY <1>2, <2>1
  <2>7. cap \notin upper \cup masks /\ cap + 4 \notin upper \cup masks /\ data \notin upper \cup masks
    BY <1>2, <2>1 DEF data, upper, masks, wide
  <2>3. c1[cap] = on
    BY <2>0, <2>7, <2>8, <2>9, Zenon
  <2>4. c1[cap + 4] = "bsp"
    BY <2>0, <2>7, <2>8, <2>9, Zenon
  <2>5. c1[data] = "kXHCI"
    BY <2>0, <2>7, <2>8, <2>9, Zenon
  <2>6. wide => c1[cap + 8] = 0
    BY <1>2, <1>3, <1>5, <2>1, <2>2
  <2>10. header.per_vector_mask_capable => c1[data + 4] = 0
    BY <1>2, <1>3, <1>5, <2>1, <2>2
  <2> QED
    BY <2>3, <2>4, <2>5, <2>6, <2>10
<1>9. /\ c2[cap] = on /\ c2[cap + 4] = "bsp" /\ c2[data] = "kXHCI"
      /\ wide => c2[cap + 8] = 0
      /\ header.per_vector_mask_capable => c2[data + 4] = 0
  <2>1. data \in {cap + 8, cap + 12} /\ data + 4 \in {cap + 12, cap + 16}
    BY <1>2
  <2> HIDE DEF data, wide
  <2> QED
    BY <1>5, <1>6, <1>7, <2>1
<1>10. MessageOf(c2, cap) =
         [enabled |-> on.msi_enable /\ (on.per_vector_mask_capable => c2[data + 4] = 0),
          high |-> IF wide THEN c2[cap + 8] ELSE 0, low |-> c2[cap + 4], data |-> c2[data]]
  BY <1>4, <1>9, Zenon DEF MessageOf
<1>11. on.msi_enable /\ (on.per_vector_mask_capable => c2[data + 4] = 0)
  BY <1>4, <1>9
<1>12. MessageOf(c2, cap) = [enabled |-> TRUE, high |-> 0, low |-> "bsp", data |-> "kXHCI"]
  BY <1>9, <1>10, <1>11, Zenon
<1> QED
  BY <1>12 DEF c2, c1, cap, conf

\* The places of the driver: from one of them on.
FromRun == {"run", "wait_running", "running"}
FromInterrupts == {"interrupts"} \cup FromRun
FromInterrupter == {"interrupter"} \cup FromInterrupts
FromEventRing == {"event_ring"} \cup FromInterrupter
FromCommandRing == {"command_ring"} \cup FromEventRing
FromScratchpads == {"scratchpads", "buffers", "contexts"} \cup FromCommandRing
FromHalt == {"halt", "wait_halted", "reset", "wait_reset", "wait_ready", "config"}
              \cup FromScratchpads
FromOwnership == {"ownership", "wait_owned"} \cup FromHalt
FromDevices == {"devices"} \cup FromOwnership

Dcbaa == AddressOf(pool, Area("device_context_pointers_"))
CommandRing == AddressOf(pool, Area("cr_"))
EventRing == AddressOf(pool, Area("er_"))
SegmentTable == AddressOf(pool, Area("erst_"))

\* The controller sends the message that ConfigureMSI was asked for.
MessageIsOn ==
  MessageOf(msi, Find_CapAddress(XhcDevice, kCapabilityMSI))
    = [enabled |-> TRUE, high |-> 0, low |-> "bsp", data |-> "kXHCI"]

\* The firmware and the driver own the controller together only while the driver waits
\* for the firmware to give it up; from the halt on the firmware does not own it.
OwnerOK ==
  /\ xhc.legsup.hc_bios_owned_semaphore = TRUE =>
       /\ machine.legacy
       /\ xhc.legsup.hc_os_owned_semaphore = TRUE => at = "wait_owned"
  /\ at \in FromHalt /\ XhcDevice # Nothing => xhc.legsup.hc_bios_owned_semaphore = FALSE

\* The controller is in a reset, or not ready, only where the driver waits for the end
\* of that; where the driver resets it, it is halted.
ReadyOK ==
  /\ xhc.cmd.host_controller_reset = TRUE => at = "wait_reset"
  /\ xhc.sts.controller_not_ready = TRUE => at \in {"wait_reset", "wait_ready"}
  /\ at = "reset" => xhc.sts.host_controller_halted = TRUE

\* What the driver has written stays as it was written, and is what it has been given;
\* the table of the event ring has not been asked for before.
RegistersOK ==
  /\ at \in FromOwnership => Dcbaa # 0
  /\ at \in FromScratchpads => xhc.CONFIG = kDeviceSize
  /\ at \in FromCommandRing => xhc.DCBAAP = Dcbaa
  /\ at \in FromEventRing =>
       /\ xhc.crcr = [ring_cycle_state |-> TRUE, pointer |-> CommandRing]
       /\ CommandRing # 0
  /\ at \in FromInterrupter =>
       /\ xhc.interrupter.ERSTSZ = 1
       /\ xhc.interrupter.ERDP = EventRing /\ EventRing # 0
       /\ xhc.interrupter.ERSTBA = SegmentTable /\ SegmentTable # 0
  /\ at \in FromInterrupts => xhc.interrupter.interrupt_enable = TRUE
  /\ at \in FromRun => xhc.cmd.interrupter_enable = TRUE

XhcInv ==
  /\ PoolInv /\ devices \in Seq(machine.functions)
  /\ xhc \in OperationalRegisters /\ xhc.disturbed = FALSE
  /\ at \in FromDevices \ {"running"} => XhcDevice # Nothing
  /\ at \in FromDevices /\ XhcDevice # Nothing => MessageIsOn
  /\ OwnerOK /\ ReadyOK
  /\ XhcDevice # Nothing => RegistersOK
  /\ at \notin FromInterrupter \cup {"exit"} => ~Asked(pool, Area("erst_"))

\* The invariant is about nothing but these.
LEMMA XhcSame ==
  ASSUME XhcInv, UNCHANGED <<at, machine, devices, msi, xhc, pool>>
  PROVE  XhcInv'
  BY DEF XhcInv, PoolInv, XhcDevice, MessageIsOn, OwnerOK, ReadyOK, RegistersOK, Dcbaa,
         CommandRing, EventRing, SegmentTable

\* Nothing is disturbed by a write where the driver waits for nothing.
LEMMA NotBusy ==
  ASSUME XhcInv, at \notin {"wait_reset", "wait_ready"}
  PROVE  /\ xhc.cmd.host_controller_reset = FALSE /\ xhc.sts.controller_not_ready = FALSE
         /\ ~Busy
         /\ \A registers : Write(registers) => xhc' = registers
<1>1. xhc.cmd.host_controller_reset \in BOOLEAN /\ xhc.sts.controller_not_ready \in BOOLEAN
  BY DEF XhcInv, OperationalRegisters, USBCMD, USBSTS
<1>2. xhc.cmd.host_controller_reset = FALSE /\ xhc.sts.controller_not_ready = FALSE
  BY <1>1 DEF XhcInv, ReadyOK
<1>3. ~Busy
  BY <1>2 DEF Busy
<1> QED
  BY <1>2, <1>3 DEF Write

\* Steps on which the driver goes on without touching the controller or the pool.
LEMMA OwnedXhc ==
  ASSUME XhcInv, Owned \/ Halted \/ ResetDone \/ Ready \/ Running
  PROVE  XhcInv'
<1>1. UNCHANGED <<machine, devices, msi, xhc, pool>>
  BY DEF Owned, Halted, ResetDone, Ready, Running, Keeps
<1>2. /\ PoolInv' = PoolInv /\ (devices \in Seq(machine.functions))' /\ XhcDevice' = XhcDevice
      /\ MessageIsOn' = MessageIsOn
      /\ Dcbaa' = Dcbaa /\ CommandRing' = CommandRing /\ EventRing' = EventRing
      /\ SegmentTable' = SegmentTable /\ Asked(pool, Area("erst_"))' = Asked(pool, Area("erst_"))
  BY <1>1 DEF XhcInv, PoolInv, XhcDevice, MessageIsOn, Dcbaa, CommandRing, EventRing, SegmentTable
<1>3. /\ xhc.legsup.hc_bios_owned_semaphore \in BOOLEAN /\ xhc.legsup.hc_os_owned_semaphore \in BOOLEAN
      /\ xhc.cmd.host_controller_reset \in BOOLEAN /\ xhc.sts.controller_not_ready \in BOOLEAN
      /\ xhc.sts.host_controller_halted \in BOOLEAN
  BY DEF XhcInv, OperationalRegisters, USBCMD, USBSTS, USBLEGSUP
<1> USE DEF FromDevices, FromOwnership, FromHalt, FromScratchpads, FromCommandRing,
            FromEventRing, FromInterrupter, FromInterrupts, FromRun
<1>4. CASE Owned
  BY <1>1, <1>2, <1>3, <1>4 DEF Owned, Goes, XhcInv, OwnerOK, ReadyOK, RegistersOK
<1>5. CASE Halted
  BY <1>1, <1>2, <1>3, <1>5 DEF Halted, Goes, XhcInv, OwnerOK, ReadyOK, RegistersOK
<1>6. CASE ResetDone
  BY <1>1, <1>2, <1>3, <1>6 DEF ResetDone, Goes, XhcInv, OwnerOK, ReadyOK, RegistersOK
<1>7. CASE Ready
  BY <1>1, <1>2, <1>3, <1>7 DEF Ready, Goes, XhcInv, OwnerOK, ReadyOK, RegistersOK
<1>8. CASE Running
  BY <1>1, <1>2, <1>3, <1>8 DEF Running, Goes, XhcInv, OwnerOK, ReadyOK, RegistersOK
<1> QED
  BY <1>4, <1>5, <1>6, <1>7, <1>8

\* What does not depend on the place and on the controller's registers.
LEMMA XhcFrame ==
  ASSUME UNCHANGED <<machine, devices, msi, pool>>
  PROVE  /\ PoolInv' = PoolInv /\ (devices \in Seq(machine.functions))' = (devices \in Seq(machine.functions))
         /\ XhcDevice' = XhcDevice /\ MessageIsOn' = MessageIsOn
         /\ Dcbaa' = Dcbaa /\ CommandRing' = CommandRing /\ EventRing' = EventRing
         /\ SegmentTable' = SegmentTable /\ Asked(pool, Area("erst_"))' = Asked(pool, Area("erst_"))
  BY DEF PoolInv, XhcDevice, MessageIsOn, Dcbaa, CommandRing, EventRing, SegmentTable

LEMMA XhcTypes ==
  ASSUME XhcInv
  PROVE  /\ xhc.legsup.hc_bios_owned_semaphore \in BOOLEAN /\ xhc.legsup.hc_os_owned_semaphore \in BOOLEAN
         /\ xhc.cmd.host_controller_reset \in BOOLEAN /\ xhc.sts.controller_not_ready \in BOOLEAN
         /\ xhc.sts.host_controller_halted \in BOOLEAN /\ xhc.cmd.run_stop \in BOOLEAN
         /\ xhc.disturbed = FALSE /\ xhc \in OperationalRegisters
         /\ Dcbaa \in Nat /\ CommandRing \in Nat /\ EventRing \in Nat /\ SegmentTable \in Nat
<1>1. PoolOK(pool) /\ xhc \in OperationalRegisters
  BY DEF XhcInv, PoolInv
<1>2. Dcbaa \in Nat /\ CommandRing \in Nat /\ EventRing \in Nat /\ SegmentTable \in Nat
  BY <1>1, AddressType DEF Dcbaa, CommandRing, EventRing, SegmentTable
<1> QED
  BY <1>1, <1>2 DEF XhcInv, OperationalRegisters, USBCMD, USBSTS, USBLEGSUP

LEMMA HaltXhc ==
  ASSUME XhcInv, Halt
  PROVE  XhcInv'
<1>1. at = "halt" /\ at' = "wait_halted" /\ UNCHANGED <<machine, devices, msi, pool>>
  BY DEF Halt, Goes, Keeps
<1>2. xhc' = [xhc EXCEPT !.cmd.interrupter_enable = FALSE,
                       !.cmd.run_stop = @ /\ xhc.sts.host_controller_halted]
  BY <1>1, NotBusy, XhcTypes DEF Halt
<1>3. xhc' \in OperationalRegisters
  BY <1>2, XhcTypes DEF OperationalRegisters, USBCMD, USBSTS, CRCR, InterrupterRegisterSet, USBLEGSUP
<1>4. /\ xhc'.cmd.host_controller_reset = xhc.cmd.host_controller_reset
      /\ xhc'.sts.host_controller_halted = xhc.sts.host_controller_halted
      /\ xhc'.sts.controller_not_ready = xhc.sts.controller_not_ready
      /\ xhc'.crcr = xhc.crcr
      /\ xhc'.DCBAAP = xhc.DCBAAP
      /\ xhc'.CONFIG = xhc.CONFIG
      /\ xhc'.interrupter.interrupt_enable = xhc.interrupter.interrupt_enable
      /\ xhc'.interrupter.ERSTSZ = xhc.interrupter.ERSTSZ
      /\ xhc'.interrupter.ERSTBA = xhc.interrupter.ERSTBA
      /\ xhc'.interrupter.ERDP = xhc.interrupter.ERDP
      /\ xhc'.legsup.hc_bios_owned_semaphore = xhc.legsup.hc_bios_owned_semaphore
      /\ xhc'.legsup.hc_os_owned_semaphore = xhc.legsup.hc_os_owned_semaphore
      /\ xhc'.disturbed = xhc.disturbed
  BY <1>2, XhcTypes DEF OperationalRegisters, USBCMD, USBSTS, CRCR, InterrupterRegisterSet, USBLEGSUP
<1> USE DEF FromDevices, FromOwnership, FromHalt, FromScratchpads, FromCommandRing,
            FromEventRing, FromInterrupter, FromInterrupts, FromRun
<1> QED
  BY <1>1, <1>3, <1>4, XhcFrame, XhcTypes DEF XhcInv, OwnerOK, ReadyOK, RegistersOK

\* The controller is halted, and nobody starts it, when it is reset.
LEMMA ResetXhc ==
  ASSUME XhcInv, Reset
  PROVE  XhcInv'
<1>1. at = "reset" /\ at' = "wait_reset" /\ UNCHANGED <<machine, devices, msi, pool>>
  BY DEF Reset, Goes, Keeps
<1>2. xhc' = [xhc EXCEPT !.cmd.host_controller_reset = TRUE, !.disturbed = FALSE]
  <2>1. xhc.sts.host_controller_halted = TRUE /\ xhc.disturbed = FALSE
    BY <1>1 DEF XhcInv, ReadyOK
  <2>2. xhc' = [xhc EXCEPT !.cmd.host_controller_reset = TRUE,
                           !.disturbed = xhc.disturbed \/ ~xhc.sts.host_controller_halted]
    BY <1>1, NotBusy DEF Reset
  <2>3. (xhc.disturbed \/ ~xhc.sts.host_controller_halted) = FALSE
    BY <2>1
  <2> QED
    BY <2>2, <2>3, Zenon
<1>3. xhc' \in OperationalRegisters
  BY <1>2, XhcTypes DEF OperationalRegisters, USBCMD, USBSTS, CRCR, InterrupterRegisterSet, USBLEGSUP
<1>4. /\ xhc'.cmd.run_stop = xhc.cmd.run_stop
      /\ xhc'.cmd.host_controller_reset = TRUE
      /\ xhc'.cmd.interrupter_enable = xhc.cmd.interrupter_enable
      /\ xhc'.sts.host_controller_halted = xhc.sts.host_controller_halted
      /\ xhc'.sts.controller_not_ready = xhc.sts.controller_not_ready
      /\ xhc'.crcr = xhc.crcr
      /\ xhc'.DCBAAP = xhc.DCBAAP
      /\ xhc'.CONFIG = xhc.CONFIG
      /\ xhc'.interrupter.interrupt_enable = xhc.interrupter.interrupt_enable
      /\ xhc'.interrupter.ERSTSZ = xhc.interrupter.ERSTSZ
      /\ xhc'.interrupter.ERSTBA = xhc.interrupter.ERSTBA
      /\ xhc'.interrupter.ERDP = xhc.interrupter.ERDP
      /\ xhc'.legsup.hc_bios_owned_semaphore = xhc.legsup.hc_bios_owned_semaphore
      /\ xhc'.legsup.hc_os_owned_semaphore = xhc.legsup.hc_os_owned_semaphore
      /\ xhc'.disturbed = FALSE
  BY <1>2, XhcTypes DEF OperationalRegisters, USBCMD, USBSTS, CRCR, InterrupterRegisterSet, USBLEGSUP
<1> USE DEF FromDevices, FromOwnership, FromHalt, FromScratchpads, FromCommandRing,
            FromEventRing, FromInterrupter, FromInterrupts, FromRun
<1> QED
  BY <1>1, <1>3, <1>4, XhcFrame, XhcTypes DEF XhcInv, OwnerOK, ReadyOK, RegistersOK

LEMMA SetMaxSlotsXhc ==
  ASSUME XhcInv, SetMaxSlots
  PROVE  XhcInv'
<1>1. at = "config" /\ at' = "scratchpads" /\ UNCHANGED <<machine, devices, msi, pool>>
  BY DEF SetMaxSlots, Goes, Keeps
<1>2. xhc' = [xhc EXCEPT !.CONFIG = kDeviceSize]
  BY <1>1, NotBusy, XhcTypes DEF SetMaxSlots
<1>3. xhc' \in OperationalRegisters
  BY <1>2, XhcTypes DEF OperationalRegisters, USBCMD, USBSTS, CRCR, InterrupterRegisterSet, USBLEGSUP, kDeviceSize
<1>4. /\ xhc'.cmd.run_stop = xhc.cmd.run_stop
      /\ xhc'.cmd.host_controller_reset = xhc.cmd.host_controller_reset
      /\ xhc'.cmd.interrupter_enable = xhc.cmd.interrupter_enable
      /\ xhc'.sts.host_controller_halted = xhc.sts.host_controller_halted
      /\ xhc'.sts.controller_not_ready = xhc.sts.controller_not_ready
      /\ xhc'.crcr = xhc.crcr
      /\ xhc'.DCBAAP = xhc.DCBAAP
      /\ xhc'.CONFIG = kDeviceSize
      /\ xhc'.interrupter.interrupt_enable = xhc.interrupter.interrupt_enable
      /\ xhc'.interrupter.ERSTSZ = xhc.interrupter.ERSTSZ
      /\ xhc'.interrupter.ERSTBA = xhc.interrupter.ERSTBA
      /\ xhc'.interrupter.ERDP = xhc.interrupter.ERDP
      /\ xhc'.legsup.hc_bios_owned_semaphore = xhc.legsup.hc_bios_owned_semaphore
      /\ xhc'.legsup.hc_os_owned_semaphore = xhc.legsup.hc_os_owned_semaphore
      /\ xhc'.disturbed = xhc.disturbed
  BY <1>2, XhcTypes DEF OperationalRegisters, USBCMD, USBSTS, CRCR, InterrupterRegisterSet, USBLEGSUP
<1> USE DEF FromDevices, FromOwnership, FromHalt, FromScratchpads, FromCommandRing,
            FromEventRing, FromInterrupter, FromInterrupts, FromRun
<1> QED
  BY <1>1, <1>3, <1>4, XhcFrame, XhcTypes DEF XhcInv, OwnerOK, ReadyOK, RegistersOK

LEMMA SetDeviceContextsXhc ==
  ASSUME XhcInv, SetDeviceContexts
  PROVE  XhcInv'
<1>1. at = "contexts" /\ at' = "command_ring" /\ UNCHANGED <<machine, devices, msi, pool>>
  BY DEF SetDeviceContexts, Goes, Keeps
<1>2. xhc' = [xhc EXCEPT !.DCBAAP = Dcbaa]
  BY <1>1, NotBusy, XhcTypes DEF SetDeviceContexts, Dcbaa
<1>3. xhc' \in OperationalRegisters
  BY <1>2, XhcTypes DEF OperationalRegisters, USBCMD, USBSTS, CRCR, InterrupterRegisterSet, USBLEGSUP
<1>4. /\ xhc'.cmd.run_stop = xhc.cmd.run_stop
      /\ xhc'.cmd.host_controller_reset = xhc.cmd.host_controller_reset
      /\ xhc'.cmd.interrupter_enable = xhc.cmd.interrupter_enable
      /\ xhc'.sts.host_controller_halted = xhc.sts.host_controller_halted
      /\ xhc'.sts.controller_not_ready = xhc.sts.controller_not_ready
      /\ xhc'.crcr = xhc.crcr
      /\ xhc'.DCBAAP = Dcbaa
      /\ xhc'.CONFIG = xhc.CONFIG
      /\ xhc'.interrupter.interrupt_enable = xhc.interrupter.interrupt_enable
      /\ xhc'.interrupter.ERSTSZ = xhc.interrupter.ERSTSZ
      /\ xhc'.interrupter.ERSTBA = xhc.interrupter.ERSTBA
      /\ xhc'.interrupter.ERDP = xhc.interrupter.ERDP
      /\ xhc'.legsup.hc_bios_owned_semaphore = xhc.legsup.hc_bios_owned_semaphore
      /\ xhc'.legsup.hc_os_owned_semaphore = xhc.legsup.hc_os_owned_semaphore
      /\ xhc'.disturbed = xhc.disturbed
  BY <1>2, XhcTypes DEF OperationalRegisters, USBCMD, USBSTS, CRCR, InterrupterRegisterSet, USBLEGSUP
<1> USE DEF FromDevices, FromOwnership, FromHalt, FromScratchpads, FromCommandRing,
            FromEventRing, FromInterrupter, FromInterrupts, FromRun
<1> QED
  BY <1>1, <1>3, <1>4, XhcFrame, XhcTypes DEF XhcInv, OwnerOK, ReadyOK, RegistersOK

LEMMA EnableInterrupterXhc ==
  ASSUME XhcInv, EnableInterrupter
  PROVE  XhcInv'
<1>1. at = "interrupter" /\ at' = "interrupts" /\ UNCHANGED <<machine, devices, msi, pool>>
  BY DEF EnableInterrupter, Goes, Keeps
<1>2. xhc' = [xhc EXCEPT !.interrupter.interrupt_enable = TRUE]
  BY <1>1, NotBusy, XhcTypes DEF EnableInterrupter
<1>3. xhc' \in OperationalRegisters
  BY <1>2, XhcTypes DEF OperationalRegisters, USBCMD, USBSTS, CRCR, InterrupterRegisterSet, USBLEGSUP
<1>4. /\ xhc'.cmd.run_stop = xhc.cmd.run_stop
      /\ xhc'.cmd.host_controller_reset = xhc.cmd.host_controller_reset
      /\ xhc'.cmd.interrupter_enable = xhc.cmd.interrupter_enable
      /\ xhc'.sts.host_controller_halted = xhc.sts.host_controller_halted
      /\ xhc'.sts.controller_not_ready = xhc.sts.controller_not_ready
      /\ xhc'.crcr = xhc.crcr
      /\ xhc'.DCBAAP = xhc.DCBAAP
      /\ xhc'.CONFIG = xhc.CONFIG
      /\ xhc'.interrupter.interrupt_enable = TRUE
      /\ xhc'.interrupter.ERSTSZ = xhc.interrupter.ERSTSZ
      /\ xhc'.interrupter.ERSTBA = xhc.interrupter.ERSTBA
      /\ xhc'.interrupter.ERDP = xhc.interrupter.ERDP
      /\ xhc'.legsup.hc_bios_owned_semaphore = xhc.legsup.hc_bios_owned_semaphore
      /\ xhc'.legsup.hc_os_owned_semaphore = xhc.legsup.hc_os_owned_semaphore
      /\ xhc'.disturbed = xhc.disturbed
  BY <1>2, XhcTypes DEF OperationalRegisters, USBCMD, USBSTS, CRCR, InterrupterRegisterSet, USBLEGSUP
<1> USE DEF FromDevices, FromOwnership, FromHalt, FromScratchpads, FromCommandRing,
            FromEventRing, FromInterrupter, FromInterrupts, FromRun
<1> QED
  BY <1>1, <1>3, <1>4, XhcFrame, XhcTypes DEF XhcInv, OwnerOK, ReadyOK, RegistersOK

LEMMA EnableInterruptsXhc ==
  ASSUME XhcInv, EnableInterrupts
  PROVE  XhcInv'
<1>1. at = "interrupts" /\ at' = "run" /\ UNCHANGED <<machine, devices, msi, pool>>
  BY DEF EnableInterrupts, Goes, Keeps
<1>2. xhc' = [xhc EXCEPT !.cmd.interrupter_enable = TRUE]
  BY <1>1, NotBusy, XhcTypes DEF EnableInterrupts
<1>3. xhc' \in OperationalRegisters
  BY <1>2, XhcTypes DEF OperationalRegisters, USBCMD, USBSTS, CRCR, InterrupterRegisterSet, USBLEGSUP
<1>4. /\ xhc'.cmd.run_stop = xhc.cmd.run_stop
      /\ xhc'.cmd.host_controller_reset = xhc.cmd.host_controller_reset
      /\ xhc'.cmd.interrupter_enable = TRUE
      /\ xhc'.sts.host_controller_halted = xhc.sts.host_controller_halted
      /\ xhc'.sts.controller_not_ready = xhc.sts.controller_not_ready
      /\ xhc'.crcr = xhc.crcr
      /\ xhc'.DCBAAP = xhc.DCBAAP
      /\ xhc'.CONFIG = xhc.CONFIG
      /\ xhc'.interrupter.interrupt_enable = xhc.interrupter.interrupt_enable
      /\ xhc'.interrupter.ERSTSZ = xhc.interrupter.ERSTSZ
      /\ xhc'.interrupter.ERSTBA = xhc.interrupter.ERSTBA
      /\ xhc'.interrupter.ERDP = xhc.interrupter.ERDP
      /\ xhc'.legsup.hc_bios_owned_semaphore = xhc.legsup.hc_bios_owned_semaphore
      /\ xhc'.legsup.hc_os_owned_semaphore = xhc.legsup.hc_os_owned_semaphore
      /\ xhc'.disturbed = xhc.disturbed
  BY <1>2, XhcTypes DEF OperationalRegisters, USBCMD, USBSTS, CRCR, InterrupterRegisterSet, USBLEGSUP
<1> USE DEF FromDevices, FromOwnership, FromHalt, FromScratchpads, FromCommandRing,
            FromEventRing, FromInterrupter, FromInterrupts, FromRun
<1> QED
  BY <1>1, <1>3, <1>4, XhcFrame, XhcTypes DEF XhcInv, OwnerOK, ReadyOK, RegistersOK

LEMMA RunXhc ==
  ASSUME XhcInv, Run
  PROVE  XhcInv'
<1>1. at = "run" /\ at' = "wait_running" /\ UNCHANGED <<machine, devices, msi, pool>>
  BY DEF Run, Goes, Keeps
<1>2. xhc' = [xhc EXCEPT !.cmd.run_stop = TRUE, !.sts.host_controller_halted = FALSE]
  BY <1>1, NotBusy, XhcTypes DEF Run, Started
<1>3. xhc' \in OperationalRegisters
  BY <1>2, XhcTypes DEF OperationalRegisters, USBCMD, USBSTS, CRCR, InterrupterRegisterSet, USBLEGSUP
<1>4. /\ xhc'.cmd.run_stop = TRUE
      /\ xhc'.cmd.host_controller_reset = xhc.cmd.host_controller_reset
      /\ xhc'.cmd.interrupter_enable = xhc.cmd.interrupter_enable
      /\ xhc'.sts.host_controller_halted = FALSE
      /\ xhc'.sts.controller_not_ready = xhc.sts.controller_not_ready
      /\ xhc'.crcr = xhc.crcr
      /\ xhc'.DCBAAP = xhc.DCBAAP
      /\ xhc'.CONFIG = xhc.CONFIG
      /\ xhc'.interrupter.interrupt_enable = xhc.interrupter.interrupt_enable
      /\ xhc'.interrupter.ERSTSZ = xhc.interrupter.ERSTSZ
      /\ xhc'.interrupter.ERSTBA = xhc.interrupter.ERSTBA
      /\ xhc'.interrupter.ERDP = xhc.interrupter.ERDP
      /\ xhc'.legsup.hc_bios_owned_semaphore = xhc.legsup.hc_bios_owned_semaphore
      /\ xhc'.legsup.hc_os_owned_semaphore = xhc.legsup.hc_os_owned_semaphore
      /\ xhc'.disturbed = xhc.disturbed
  BY <1>2, XhcTypes DEF OperationalRegisters, USBCMD, USBSTS, CRCR, InterrupterRegisterSet, USBLEGSUP
<1> USE DEF FromDevices, FromOwnership, FromHalt, FromScratchpads, FromCommandRing,
            FromEventRing, FromInterrupter, FromInterrupts, FromRun
<1> QED
  BY <1>1, <1>3, <1>4, XhcFrame, XhcTypes DEF XhcInv, OwnerOK, ReadyOK, RegistersOK

\* The steps of the controller and of the firmware.
LEMMA ControllerHaltsXhc ==
  ASSUME XhcInv, ControllerHalts
  PROVE  XhcInv'
<1>1. UNCHANGED <<at, machine, devices, msi, pool>>
  BY DEF ControllerHalts, OnlyController
<1>2. xhc' = [xhc EXCEPT !.sts.host_controller_halted = TRUE]
  BY DEF ControllerHalts
<1>3. xhc' \in OperationalRegisters
  BY <1>2, XhcTypes DEF OperationalRegisters, USBCMD, USBSTS, CRCR, InterrupterRegisterSet, USBLEGSUP
<1>4. /\ xhc'.cmd.run_stop = xhc.cmd.run_stop
      /\ xhc'.cmd.host_controller_reset = xhc.cmd.host_controller_reset
      /\ xhc'.cmd.interrupter_enable = xhc.cmd.interrupter_enable
      /\ xhc'.sts.host_controller_halted = TRUE
      /\ xhc'.sts.controller_not_ready = xhc.sts.controller_not_ready
      /\ xhc'.crcr = xhc.crcr
      /\ xhc'.DCBAAP = xhc.DCBAAP
      /\ xhc'.CONFIG = xhc.CONFIG
      /\ xhc'.interrupter.interrupt_enable = xhc.interrupter.interrupt_enable
      /\ xhc'.interrupter.ERSTSZ = xhc.interrupter.ERSTSZ
      /\ xhc'.interrupter.ERSTBA = xhc.interrupter.ERSTBA
      /\ xhc'.interrupter.ERDP = xhc.interrupter.ERDP
      /\ xhc'.legsup.hc_bios_owned_semaphore = xhc.legsup.hc_bios_owned_semaphore
      /\ xhc'.legsup.hc_os_owned_semaphore = xhc.legsup.hc_os_owned_semaphore
      /\ xhc'.disturbed = xhc.disturbed
  BY <1>2, XhcTypes DEF OperationalRegisters, USBCMD, USBSTS, CRCR, InterrupterRegisterSet, USBLEGSUP
<1> USE DEF FromDevices, FromOwnership, FromHalt, FromScratchpads, FromCommandRing,
            FromEventRing, FromInterrupter, FromInterrupts, FromRun
<1> QED
  BY <1>1, <1>3, <1>4, XhcFrame, XhcTypes DEF XhcInv, OwnerOK, ReadyOK, RegistersOK

LEMMA ControllerGetsReadyXhc ==
  ASSUME XhcInv, ControllerGetsReady
  PROVE  XhcInv'
<1>1. UNCHANGED <<at, machine, devices, msi, pool>>
  BY DEF ControllerGetsReady, OnlyController
<1>2. xhc' = [xhc EXCEPT !.sts.controller_not_ready = FALSE]
  BY DEF ControllerGetsReady
<1>3. xhc' \in OperationalRegisters
  BY <1>2, XhcTypes DEF OperationalRegisters, USBCMD, USBSTS, CRCR, InterrupterRegisterSet, USBLEGSUP
<1>4. /\ xhc'.cmd.run_stop = xhc.cmd.run_stop
      /\ xhc'.cmd.host_controller_reset = xhc.cmd.host_controller_reset
      /\ xhc'.cmd.interrupter_enable = xhc.cmd.interrupter_enable
      /\ xhc'.sts.host_controller_halted = xhc.sts.host_controller_halted
      /\ xhc'.sts.controller_not_ready = FALSE
      /\ xhc'.crcr = xhc.crcr
      /\ xhc'.DCBAAP = xhc.DCBAAP
      /\ xhc'.CONFIG = xhc.CONFIG
      /\ xhc'.interrupter.interrupt_enable = xhc.interrupter.interrupt_enable
      /\ xhc'.interrupter.ERSTSZ = xhc.interrupter.ERSTSZ
      /\ xhc'.interrupter.ERSTBA = xhc.interrupter.ERSTBA
      /\ xhc'.interrupter.ERDP = xhc.interrupter.ERDP
      /\ xhc'.legsup.hc_bios_owned_semaphore = xhc.legsup.hc_bios_owned_semaphore
      /\ xhc'.legsup.hc_os_owned_semaphore = xhc.legsup.hc_os_owned_semaphore
      /\ xhc'.disturbed = xhc.disturbed
  BY <1>2, XhcTypes DEF OperationalRegisters, USBCMD, USBSTS, CRCR, InterrupterRegisterSet, USBLEGSUP
<1> USE DEF FromDevices, FromOwnership, FromHalt, FromScratchpads, FromCommandRing,
            FromEventRing, FromInterrupter, FromInterrupts, FromRun
<1> QED
  BY <1>1, <1>3, <1>4, XhcFrame, XhcTypes DEF XhcInv, OwnerOK, ReadyOK, RegistersOK

LEMMA FirmwareYieldsXhc ==
  ASSUME XhcInv, FirmwareYields
  PROVE  XhcInv'
<1>1. UNCHANGED <<at, machine, devices, msi, pool>>
  BY DEF FirmwareYields, OnlyController
<1>2. xhc' = [xhc EXCEPT !.legsup.hc_bios_owned_semaphore = FALSE]
  BY DEF FirmwareYields
<1>3. xhc' \in OperationalRegisters
  BY <1>2, XhcTypes DEF OperationalRegisters, USBCMD, USBSTS, CRCR, InterrupterRegisterSet, USBLEGSUP
<1>4. /\ xhc'.cmd.run_stop = xhc.cmd.run_stop
      /\ xhc'.cmd.host_controller_reset = xhc.cmd.host_controller_reset
      /\ xhc'.cmd.interrupter_enable = xhc.cmd.interrupter_enable
      /\ xhc'.sts.host_controller_halted = xhc.sts.host_controller_halted
      /\ xhc'.sts.controller_not_ready = xhc.sts.controller_not_ready
      /\ xhc'.crcr = xhc.crcr
      /\ xhc'.DCBAAP = xhc.DCBAAP
      /\ xhc'.CONFIG = xhc.CONFIG
      /\ xhc'.interrupter.interrupt_enable = xhc.interrupter.interrupt_enable
      /\ xhc'.interrupter.ERSTSZ = xhc.interrupter.ERSTSZ
      /\ xhc'.interrupter.ERSTBA = xhc.interrupter.ERSTBA
      /\ xhc'.interrupter.ERDP = xhc.interrupter.ERDP
      /\ xhc'.legsup.hc_bios_owned_semaphore = FALSE
      /\ xhc'.legsup.hc_os_owned_semaphore = xhc.legsup.hc_os_owned_semaphore
      /\ xhc'.disturbed = xhc.disturbed
  BY <1>2, XhcTypes DEF OperationalRegisters, USBCMD, USBSTS, CRCR, InterrupterRegisterSet, USBLEGSUP
<1> USE DEF FromDevices, FromOwnership, FromHalt, FromScratchpads, FromCommandRing,
            FromEventRing, FromInterrupter, FromInterrupts, FromRun
<1> QED
  BY <1>1, <1>3, <1>4, XhcFrame, XhcTypes DEF XhcInv, OwnerOK, ReadyOK, RegistersOK

\* Only the driver starts a reset, before it writes any other register.
LEMMA ControllerResetsXhc ==
  ASSUME XhcInv, ControllerResets
  PROVE  XhcInv'
<1>1. UNCHANGED <<at, machine, devices, msi, pool>>
  BY DEF ControllerResets, OnlyController
<1>2. at = "wait_reset"
  BY XhcTypes DEF ControllerResets, XhcInv, ReadyOK
<1>3. xhc' = AfterReset(xhc.legsup, xhc.disturbed)
  BY DEF ControllerResets
<1>4. xhc' \in OperationalRegisters
  BY <1>3, XhcTypes DEF AfterReset, OperationalRegisters, USBCMD, USBSTS, CRCR, InterrupterRegisterSet, USBLEGSUP
<1>5. /\ xhc'.legsup = xhc.legsup /\ xhc'.disturbed = FALSE
      /\ xhc'.cmd.host_controller_reset = FALSE
  BY <1>3, XhcTypes DEF AfterReset
<1> USE DEF FromDevices, FromOwnership, FromHalt, FromScratchpads, FromCommandRing,
            FromEventRing, FromInterrupter, FromInterrupts, FromRun
<1> QED
  BY <1>1, <1>2, <1>4, <1>5, XhcFrame, XhcTypes DEF XhcInv, OwnerOK, ReadyOK, RegistersOK

\* The firmware starts and stops the controller only while it owns it, and then the
\* driver has not come to the halt.
LEMMA FirmwareDrivesXhc ==
  ASSUME XhcInv, FirmwareDrives
  PROVE  XhcInv'
<1> DEFINE OthersKeptNow ==
         /\ xhc'.cmd.host_controller_reset = xhc.cmd.host_controller_reset
         /\ xhc'.cmd.interrupter_enable = xhc.cmd.interrupter_enable
         /\ xhc'.sts.controller_not_ready = xhc.sts.controller_not_ready
         /\ xhc'.crcr = xhc.crcr
         /\ xhc'.DCBAAP = xhc.DCBAAP
         /\ xhc'.CONFIG = xhc.CONFIG
         /\ xhc'.interrupter.interrupt_enable = xhc.interrupter.interrupt_enable
         /\ xhc'.interrupter.ERSTSZ = xhc.interrupter.ERSTSZ
         /\ xhc'.interrupter.ERSTBA = xhc.interrupter.ERSTBA
         /\ xhc'.interrupter.ERDP = xhc.interrupter.ERDP
         /\ xhc'.legsup.hc_bios_owned_semaphore = xhc.legsup.hc_bios_owned_semaphore
         /\ xhc'.legsup.hc_os_owned_semaphore = xhc.legsup.hc_os_owned_semaphore
         /\ xhc'.disturbed = xhc.disturbed
<1> USE DEF OperationalRegisters, USBCMD, USBSTS, CRCR, InterrupterRegisterSet, USBLEGSUP
<1>1. UNCHANGED <<at, machine, devices, msi, pool>>
  BY DEF FirmwareDrives, OnlyController
<1>2. xhc' \in OperationalRegisters /\ OthersKeptNow
  <2>1. CASE xhc' = [xhc EXCEPT !.cmd.run_stop = FALSE]
    BY <2>1, XhcTypes
  <2>2. CASE xhc' = [xhc EXCEPT !.cmd.run_stop = TRUE, !.sts.host_controller_halted = FALSE]
    BY <2>2, XhcTypes
  <2> QED
    BY <2>1, <2>2, Zenon DEF FirmwareDrives, Started
<1>3. at # "reset"
  <2>1. xhc.legsup.hc_bios_owned_semaphore = TRUE
    BY XhcTypes DEF FirmwareDrives
  <2> QED
    BY <2>1 DEF XhcInv, OwnerOK, FromHalt, ReadyOK, FromDevices, FromOwnership
<1> QED
  BY <1>1, <1>2, <1>3, XhcFrame, XhcTypes
     DEF XhcInv, OwnerOK, ReadyOK, RegistersOK, FromDevices, FromOwnership, FromHalt,
         FromScratchpads, FromCommandRing, FromEventRing, FromInterrupter, FromInterrupts, FromRun

LEMMA HardwareXhc ==
  ASSUME XhcInv, Controller \/ FirmwareYields \/ FirmwareDrives
  PROVE  XhcInv'
  BY ControllerHaltsXhc, ControllerGetsReadyXhc, ControllerResetsXhc, FirmwareYieldsXhc,
     FirmwareDrivesXhc DEF Controller

\* The driver does not wait where there is no firmware, or where the firmware has given
\* the controller up already.
LEMMA RequestHCOwnershipXhc ==
  ASSUME XhcInv, RequestHCOwnership
  PROVE  XhcInv'
<1>1. at = "ownership" /\ UNCHANGED <<machine, devices, msi, pool>>
  BY DEF RequestHCOwnership, Goes, Keeps
<1>2. CASE machine.legacy /\ ~xhc.legsup.hc_os_owned_semaphore
  <2>1. at' = "wait_owned" /\ xhc' = [xhc EXCEPT !.legsup.hc_os_owned_semaphore = TRUE]
    BY <1>2 DEF RequestHCOwnership, Goes
  <2>2. xhc' \in OperationalRegisters
    BY <2>1, XhcTypes DEF OperationalRegisters, USBCMD, USBSTS, CRCR, InterrupterRegisterSet, USBLEGSUP
  <2>3. /\ xhc'.cmd.run_stop = xhc.cmd.run_stop
        /\ xhc'.cmd.host_controller_reset = xhc.cmd.host_controller_reset
        /\ xhc'.cmd.interrupter_enable = xhc.cmd.interrupter_enable
        /\ xhc'.sts.host_controller_halted = xhc.sts.host_controller_halted
        /\ xhc'.sts.controller_not_ready = xhc.sts.controller_not_ready
        /\ xhc'.crcr = xhc.crcr
        /\ xhc'.DCBAAP = xhc.DCBAAP
        /\ xhc'.CONFIG = xhc.CONFIG
        /\ xhc'.interrupter.interrupt_enable = xhc.interrupter.interrupt_enable
        /\ xhc'.interrupter.ERSTSZ = xhc.interrupter.ERSTSZ
        /\ xhc'.interrupter.ERSTBA = xhc.interrupter.ERSTBA
        /\ xhc'.interrupter.ERDP = xhc.interrupter.ERDP
        /\ xhc'.legsup.hc_bios_owned_semaphore = xhc.legsup.hc_bios_owned_semaphore
        /\ xhc'.disturbed = xhc.disturbed
    BY <2>1, XhcTypes DEF OperationalRegisters, USBCMD, USBSTS, CRCR, InterrupterRegisterSet, USBLEGSUP
  <2> USE DEF FromDevices, FromOwnership, FromHalt, FromScratchpads, FromCommandRing,
              FromEventRing, FromInterrupter, FromInterrupts, FromRun
  <2> QED
    BY <1>1, <1>2, <2>1, <2>2, <2>3, XhcFrame, XhcTypes DEF XhcInv, OwnerOK, ReadyOK, RegistersOK
<1>3. CASE ~(machine.legacy /\ ~xhc.legsup.hc_os_owned_semaphore)
  <2>1. at' = "halt" /\ xhc' = xhc
    BY <1>3 DEF RequestHCOwnership, Goes
  <2>2. xhc.legsup.hc_bios_owned_semaphore = FALSE
    BY <1>1, <1>3, XhcTypes DEF XhcInv, OwnerOK
  <2> USE DEF FromDevices, FromOwnership, FromHalt, FromScratchpads, FromCommandRing,
              FromEventRing, FromInterrupter, FromInterrupts, FromRun
  <2> QED
    BY <1>1, <2>1, <2>2, XhcFrame, XhcTypes DEF XhcInv, OwnerOK, ReadyOK, RegistersOK
<1> QED
  BY <1>2, <1>3

\* The names of what the controller is given; SameGiven: r is as q as far as they go.
Given == {"device_context_pointers_", "cr_", "er_", "erst_"}

SameGiven(q, r) ==
  \A name \in Given : /\ AddressOf(r, Area(name)) = AddressOf(q, Area(name))
                      /\ Asked(r, Area(name)) <=> Asked(q, Area(name))

LEMMA OthersGiven ==
  ASSUME NEW q, PoolOK(q), NEW what, \A name \in Given : Area(name) # what,
         NEW size, NEW alignment, NEW boundary
  PROVE  SameGiven(q, AllocMem(q, what, size, alignment, boundary))
<1> DEFINE r == AllocMem(q, what, size, alignment, boundary)
<1> SUFFICES ASSUME NEW name \in Given
             PROVE  /\ AddressOf(r, Area(name)) = AddressOf(q, Area(name))
                    /\ Asked(r, Area(name)) <=> Asked(q, Area(name))
  BY DEF SameGiven
<1>1. Area(name) # what
  OBVIOUS
<1> QED
  BY <1>1, OthersKept, Zenon

\* Nothing but the place is left to show where the driver only asks for memory, and not
\* for what it has been given already.
LEMMA AsksXhc ==
  ASSUME XhcInv, PoolInv', UNCHANGED <<machine, devices, msi, xhc>>,
         SameGiven(pool, pool'),
         \/ at = "running" /\ at' = "running"
         \/ at \in {"scratchpads", "buffers"} /\ at' \in {"buffers", "contexts"}
  PROVE  XhcInv'
<1>1. /\ XhcDevice' = XhcDevice /\ MessageIsOn' = MessageIsOn
      /\ (devices \in Seq(machine.functions))'
      /\ (xhc \in OperationalRegisters)' /\ xhc'.disturbed = FALSE
  BY DEF XhcInv, XhcDevice, MessageIsOn
<1>2. /\ Dcbaa' = Dcbaa /\ CommandRing' = CommandRing /\ EventRing' = EventRing
      /\ SegmentTable' = SegmentTable
      /\ Asked(pool, Area("erst_"))' = Asked(pool, Area("erst_"))
  BY DEF SameGiven, Given, Dcbaa, CommandRing, EventRing, SegmentTable, Asked
<1> USE DEF FromDevices, FromOwnership, FromHalt, FromScratchpads, FromCommandRing,
            FromEventRing, FromInterrupter, FromInterrupts, FromRun
<1>3. CASE at = "running" /\ at' = "running"
  BY <1>1, <1>2, <1>3 DEF XhcInv, OwnerOK, ReadyOK, RegistersOK
<1>4. CASE at \in {"scratchpads", "buffers"} /\ at' \in {"buffers", "contexts"}
  BY <1>1, <1>2, <1>4 DEF XhcInv, OwnerOK, ReadyOK, RegistersOK
<1> QED
  BY <1>3, <1>4

\* The scratchpad buffers, and the memory of a device, are nothing that the controller
\* has been given before.
LEMMA ScratchpadsXhc ==
  ASSUME XhcInv, AllocScratchpadArray \/ AllocScratchpad
  PROVE  XhcInv'
<1>1. PoolInv' /\ PoolOK(pool) /\ machine.scratchpads \in Nat
  BY ScratchpadsPool, MachinesAssumption DEF XhcInv, PoolInv
<1>2. /\ UNCHANGED <<machine, devices, msi, xhc>>
      /\ at \in {"scratchpads", "buffers"} /\ at' \in {"buffers", "contexts"}
      /\ SameGiven(pool, pool')
  <2>1. CASE AllocScratchpadArray
    <3>1. /\ UNCHANGED <<machine, devices, msi, xhc>>
          /\ at = "scratchpads" /\ at' \in {"buffers", "contexts"}
      BY <2>1 DEF AllocScratchpadArray, Goes, Keeps
    <3>2. CASE machine.scratchpads = 0
      BY <2>1, <3>1, <3>2 DEF AllocScratchpadArray, SameGiven
    <3>3. CASE machine.scratchpads # 0
      <4>1. pool' = AllocMem(pool, Area("scratchpad_buf_arr"), machine.scratchpads * PointerBytes, 64, 4096)
        BY <2>1, <3>3 DEF AllocScratchpadArray
      <4>2. machine.scratchpads * PointerBytes \in Nat \ {0}
        BY <1>1, <3>3, SizesAre
      <4>3. \A name \in Given : Area(name) # Area("scratchpad_buf_arr")
        BY NamesDiffer DEF Given
      <4> QED
        BY <1>1, <3>1, <4>1, <4>2, <4>3, OthersGiven
    <3> QED
      BY <3>2, <3>3
  <2>2. CASE AllocScratchpad
    <3>1. PICK i \in 1 .. machine.scratchpads :
                 /\ at = "buffers"
                 /\ pool' = AllocMem(pool, <<"scratchpad", i>>, 4096, 4096, 4096)
                 /\ at' = IF i = machine.scratchpads THEN "contexts" ELSE "buffers"
                 /\ Keeps /\ UNCHANGED xhc
      BY <2>2 DEF AllocScratchpad
    <3>2. at = "buffers" /\ at' \in {"buffers", "contexts"} /\ UNCHANGED <<machine, devices, msi, xhc>>
      BY <3>1 DEF Keeps
    <3>3. \A name \in Given : Area(name) # <<"scratchpad", i>>
      BY NamesDiffer DEF Given
    <3> QED
      BY <1>1, <3>1, <3>2, <3>3, SizesAre, OthersGiven
  <2> QED
    BY <2>1, <2>2
<1> QED
  BY <1>1, <1>2, AsksXhc

LEMMA AllocDeviceXhc ==
  ASSUME XhcInv, NEW slot \in 1 .. MaxDevices, AllocDevice(slot)
  PROVE  XhcInv'
<1> DEFINE p1 == AllocMem(pool, <<"device", slot>>, DeviceBytes, 64, 4096)
           p2 == AllocMem(p1, <<"ring", slot>>, RingBytes, 64, 4096)
           p3 == AllocMem(p2, <<"ring_buf_", slot>>, RingSize * TrbBytes, 64, 64 * 1024)
<1>1. PoolInv' /\ PoolOK(pool)
  BY AllocDevicePool DEF XhcInv, PoolInv
<1>2. /\ UNCHANGED <<machine, devices, msi, xhc>> /\ at = "running" /\ at' = "running"
      /\ pool' = p3
  BY DEF AllocDevice
<1>3. \A name \in Given : /\ Area(name) # <<"device", slot>> /\ Area(name) # <<"ring", slot>>
                          /\ Area(name) # <<"ring_buf_", slot>>
  BY NamesDiffer DEF Given
<1>4. PoolOK(p1) /\ SameGiven(pool, p1)
  BY <1>1, <1>3, SizesAre, AllocMemCalls, OthersGiven
<1> HIDE DEF p1
<1>5. PoolOK(p2) /\ SameGiven(p1, p2)
  BY <1>3, <1>4, SizesAre, AllocMemCalls, OthersGiven
<1> HIDE DEF p2
<1>6. SameGiven(p2, p3)
  BY <1>3, <1>5, SizesAre, OthersGiven
<1>7. SameGiven(pool, p3)
  <2> HIDE DEF p3
  <2> QED
    BY <1>4, <1>5, <1>6, Zenon DEF SameGiven
<1> QED
  BY <1>1, <1>2, <1>7, AsksXhc

\* The context array, the rings and the segment table, each asked for by its own name:
\* what has been given before stays given.
LEMMA InitializeDevicesXhc ==
  ASSUME XhcInv, InitializeDevices
  PROVE  XhcInv'
<1> DEFINE p1 == AllocMem(pool, Area("devices_"), (kDeviceSize + 1) * PointerBytes, 0, 0)
           p2 == AllocMem(p1, Area("device_context_pointers_"), (kDeviceSize + 1) * PointerBytes, 64, 4096)
<1>1. PoolInv' /\ PoolOK(pool)
  BY InitializeDevicesPool DEF XhcInv, PoolInv
<1>2. /\ UNCHANGED <<machine, devices, msi, xhc>> /\ at = "devices"
      /\ at' = IF AddressOf(p2, Area("devices_")) = 0
                  \/ AddressOf(p2, Area("device_context_pointers_")) = 0
               THEN "exit" ELSE "ownership"
      /\ pool' = IF AddressOf(p1, Area("devices_")) = 0 THEN p1 ELSE p2
  BY DEF InitializeDevices, Goes, Keeps
<1>3. PoolOK(p1)
  BY <1>1, SizesAre, AllocMemCalls
<1>4. ~Asked(p1, Area("erst_")) <=> ~Asked(pool, Area("erst_"))
  <2>1. Area("erst_") # Area("devices_")
    BY NamesDiffer
  <2> QED
    BY <1>1, <2>1, OthersKept
<1> HIDE DEF p1
<1>5. /\ AddressOf(p2, Area("devices_")) = AddressOf(p1, Area("devices_"))
      /\ ~Asked(p2, Area("erst_")) <=> ~Asked(p1, Area("erst_"))
  <2>1. /\ Area("erst_") # Area("device_context_pointers_")
        /\ Area("devices_") # Area("device_context_pointers_")
    BY NamesDiffer
  <2> QED
    BY <1>3, <2>1, OthersKept
<1> HIDE DEF p2
<1>6. at' = "exit" \/ (at' = "ownership" /\ Dcbaa' # 0)
  BY <1>2, <1>5 DEF Dcbaa
<1>7. ~Asked(pool, Area("erst_"))'
  <2>1. ~Asked(pool, Area("erst_"))
    BY <1>2 DEF XhcInv, FromInterrupter, FromInterrupts, FromRun
  <2>2. ~Asked(p1, Area("erst_")) /\ ~Asked(p2, Area("erst_"))
    BY <1>4, <1>5, <2>1
  <2> QED
    BY <1>2, <2>2
<1>8. /\ XhcDevice' = XhcDevice /\ MessageIsOn' = MessageIsOn
      /\ (devices \in Seq(machine.functions))'
      /\ (xhc \in OperationalRegisters)' /\ xhc'.disturbed = FALSE
  BY <1>2 DEF XhcInv, XhcDevice, MessageIsOn
<1> USE DEF FromDevices, FromOwnership, FromHalt, FromScratchpads, FromCommandRing,
            FromEventRing, FromInterrupter, FromInterrupts, FromRun
<1> QED
  BY <1>1, <1>2, <1>6, <1>7, <1>8 DEF XhcInv, OwnerOK, ReadyOK, RegistersOK

LEMMA InitializeCommandRingXhc ==
  ASSUME XhcInv, InitializeCommandRing
  PROVE  XhcInv'
<1> DEFINE p   == AllocMem(pool, Area("cr_"), RingSize * TrbBytes, 64, 64 * 1024)
           buf == AddressOf(p, Area("cr_"))
<1>1. PoolInv' /\ PoolOK(pool) /\ PoolOK(pool')
  BY RingsPool DEF XhcInv, PoolInv
<1>2. /\ UNCHANGED <<machine, devices, msi>> /\ at = "command_ring" /\ pool' = p
      /\ at' = IF buf = 0 THEN "exit" ELSE "event_ring"
      /\ buf = 0 => xhc' = xhc
      /\ buf # 0 => Write([xhc EXCEPT !.crcr = [ring_cycle_state |-> TRUE, pointer |-> buf]])
  BY DEF InitializeCommandRing, Goes, Keeps
<1>3. /\ AddressOf(p, Area("device_context_pointers_")) = Dcbaa
      /\ Asked(p, Area("erst_")) <=> Asked(pool, Area("erst_"))
  <2>1. Area("device_context_pointers_") # Area("cr_") /\ Area("erst_") # Area("cr_")
    BY NamesDiffer
  <2> QED
    BY <1>1, <2>1, OthersKept DEF Dcbaa
<1> HIDE DEF p
<1>4. Dcbaa' = Dcbaa /\ CommandRing' = buf /\ buf \in Nat
  BY <1>1, <1>2, <1>3, AddressType DEF Dcbaa, CommandRing
<1>5. ~Asked(pool, Area("erst_"))'
  <2>1. ~Asked(pool, Area("erst_"))
    BY <1>2 DEF XhcInv, FromInterrupter, FromInterrupts, FromRun
  <2> QED
    BY <1>2, <1>3, <2>1
<1> HIDE DEF buf
<1>6. /\ XhcDevice' = XhcDevice /\ MessageIsOn' = MessageIsOn
      /\ (devices \in Seq(machine.functions))'
  BY <1>2 DEF XhcInv, XhcDevice, MessageIsOn
<1>7. CASE buf = 0
  <2>1. xhc' = xhc /\ at' = "exit"
    BY <1>2, <1>7
  <2> QED
    BY <1>1, <1>2, <1>5, <1>6, <2>1
       DEF XhcInv, OwnerOK, ReadyOK, RegistersOK, FromDevices, FromOwnership, FromHalt,
           FromScratchpads, FromCommandRing, FromEventRing, FromInterrupter, FromInterrupts, FromRun
<1>8. CASE buf # 0
  <2>1. xhc' = [xhc EXCEPT !.crcr = [ring_cycle_state |-> TRUE, pointer |-> buf]]
    BY <1>2, <1>8, NotBusy
  <2>2. /\ xhc' \in OperationalRegisters /\ xhc'.disturbed = FALSE
        /\ xhc'.cmd = xhc.cmd /\ xhc'.sts = xhc.sts /\ xhc'.legsup = xhc.legsup
        /\ xhc'.CONFIG = xhc.CONFIG /\ xhc'.DCBAAP = xhc.DCBAAP
        /\ xhc'.crcr = [ring_cycle_state |-> TRUE, pointer |-> buf]
    BY <1>4, <2>1, XhcTypes DEF OperationalRegisters, CRCR
  <2>3. at' = "event_ring"
    BY <1>2, <1>8
  <2> QED
    BY <1>1, <1>2, <1>4, <1>5, <1>6, <1>8, <2>2, <2>3
       DEF XhcInv, OwnerOK, ReadyOK, RegistersOK, FromDevices, FromOwnership, FromHalt,
           FromScratchpads, FromCommandRing, FromEventRing, FromInterrupter, FromInterrupts, FromRun
<1> QED
  BY <1>7, <1>8

LEMMA InitializeEventRingXhc ==
  ASSUME XhcInv, InitializeEventRing
  PROVE  XhcInv'
<1> DEFINE p1  == AllocMem(pool, Area("er_"), RingSize * TrbBytes, 64, 64 * 1024)
           buf == AddressOf(p1, Area("er_"))
           p3  == AllocMem(p1, Area("erst_"), TrbBytes, 64, 64 * 1024)
           p2  == IF buf = 0 THEN p1 ELSE p3
           erst == AddressOf(p2, Area("erst_"))
<1>1. PoolInv' /\ PoolOK(pool) /\ PoolOK(pool')
  BY RingsPool DEF XhcInv, PoolInv
<1>2. /\ UNCHANGED <<machine, devices, msi>> /\ at = "event_ring" /\ pool' = p2
      /\ at' = IF erst = 0 THEN "exit" ELSE "interrupter"
      /\ erst = 0 => xhc' = xhc
      /\ erst # 0 => Write([xhc EXCEPT !.interrupter.ERSTSZ = 1, !.interrupter.ERDP = buf,
                                       !.interrupter.ERSTBA = erst])
  BY DEF InitializeEventRing, Goes, Keeps
<1>3. /\ AddressOf(p1, Area("device_context_pointers_")) = Dcbaa
      /\ AddressOf(p1, Area("cr_")) = CommandRing
      /\ Asked(p1, Area("erst_")) <=> Asked(pool, Area("erst_"))
  <2>1. /\ Area("device_context_pointers_") # Area("er_") /\ Area("erst_") # Area("er_")
        /\ Area("cr_") # Area("er_")
    BY NamesDiffer
  <2> QED
    BY <1>1, <2>1, OthersKept DEF Dcbaa, CommandRing
<1>4. PoolOK(p1)
  BY <1>1, SizesAre, AllocMemCalls
<1> HIDE DEF p1
<1>5. /\ AddressOf(p3, Area("device_context_pointers_")) = AddressOf(p1, Area("device_context_pointers_"))
      /\ AddressOf(p3, Area("cr_")) = AddressOf(p1, Area("cr_"))
      /\ AddressOf(p3, Area("er_")) = AddressOf(p1, Area("er_"))
  <2>1. /\ Area("device_context_pointers_") # Area("erst_") /\ Area("er_") # Area("erst_")
        /\ Area("cr_") # Area("erst_")
    BY NamesDiffer
  <2> QED
    BY <1>4, <2>1, OthersKept
<1> HIDE DEF p3
<1>6. erst # 0 => buf # 0
  <2>1. ~Asked(p1, Area("erst_"))
    BY <1>2, <1>3 DEF XhcInv, FromInterrupter, FromInterrupts, FromRun
  <2>2. AddressOf(p1, Area("erst_")) = 0
    BY <1>4, <2>1, AddressType
  <2> QED
    BY <2>2
<1>7. /\ Dcbaa' = Dcbaa /\ CommandRing' = CommandRing /\ EventRing' = buf /\ SegmentTable' = erst
      /\ buf \in Nat /\ erst \in Nat
  BY <1>1, <1>2, <1>3, <1>4, <1>5, AddressType DEF Dcbaa, CommandRing, EventRing, SegmentTable
<1> HIDE DEF buf, p2, erst
<1>8. /\ XhcDevice' = XhcDevice /\ MessageIsOn' = MessageIsOn
      /\ (devices \in Seq(machine.functions))'
  BY <1>2 DEF XhcInv, XhcDevice, MessageIsOn
<1>9. CASE erst = 0
  <2>1. xhc' = xhc /\ at' = "exit"
    BY <1>2, <1>9
  <2> QED
    BY <1>1, <1>2, <1>8, <2>1
       DEF XhcInv, OwnerOK, ReadyOK, RegistersOK, FromDevices, FromOwnership, FromHalt,
           FromScratchpads, FromCommandRing, FromEventRing, FromInterrupter, FromInterrupts, FromRun
<1>10. CASE erst # 0
  <2>1. xhc' = [xhc EXCEPT !.interrupter.ERSTSZ = 1, !.interrupter.ERDP = buf,
                           !.interrupter.ERSTBA = erst]
    BY <1>2, <1>10, NotBusy
  <2>2. /\ xhc' \in OperationalRegisters /\ xhc'.disturbed = FALSE
        /\ xhc'.cmd = xhc.cmd /\ xhc'.sts = xhc.sts /\ xhc'.legsup = xhc.legsup
        /\ xhc'.CONFIG = xhc.CONFIG /\ xhc'.DCBAAP = xhc.DCBAAP /\ xhc'.crcr = xhc.crcr
        /\ xhc'.interrupter.ERSTSZ = 1 /\ xhc'.interrupter.ERDP = buf
        /\ xhc'.interrupter.ERSTBA = erst
    BY <1>7, <2>1, XhcTypes DEF OperationalRegisters, InterrupterRegisterSet
  <2>3. at' = "interrupter"
    BY <1>2, <1>10
  <2> QED
    BY <1>1, <1>2, <1>6, <1>7, <1>8, <1>10, <2>2, <2>3
       DEF XhcInv, OwnerOK, ReadyOK, RegistersOK, FromDevices, FromOwnership, FromHalt,
           FromScratchpads, FromCommandRing, FromEventRing, FromInterrupter, FromInterrupts, FromRun
<1> QED
  BY <1>9, <1>10

\* The message is configured where there is a controller; where there is none, its
\* start is left out.
LEMMA FindControllerXhc ==
  ASSUME XhcInv, FindController
  PROVE  XhcInv'
<1>1. /\ UNCHANGED <<machine, devices, xhc, pool>> /\ at = "find"
      /\ at' = IF XhcDevice = Nothing THEN "running" ELSE "devices"
      /\ XhcDevice # Nothing =>
           msi' = SwitchEhci2Xhci(ConfigureMSI(XhcDevice, machine.conf, "bsp", "kXHCI", 0))
  BY Zenon DEF FindController, Goes
<1>2. XhcDevice' = XhcDevice /\ PoolInv' /\ (devices \in Seq(machine.functions))'
  BY <1>1 DEF XhcInv, XhcDevice, PoolInv
<1>3. XhcDevice # Nothing => MessageIsOn'
  <2> SUFFICES ASSUME XhcDevice # Nothing PROVE MessageIsOn'
    OBVIOUS
  <2>1. machine \in Machines /\ devices \in Seq(machine.functions)
    BY DEF XhcInv, PoolInv
  <2> QED
    BY <1>1, <1>2, <2>1, MessageConfigured, Zenon DEF MessageIsOn
<1>4. Asked(pool, Area("erst_"))' = Asked(pool, Area("erst_"))
  BY <1>1
<1> USE DEF FromDevices, FromOwnership, FromHalt, FromScratchpads, FromCommandRing,
            FromEventRing, FromInterrupter, FromInterrupts, FromRun
<1>5. CASE XhcDevice = Nothing
  <2>1. at' = "running"
    BY <1>1, <1>5
  <2> QED
    BY <1>1, <1>2, <1>4, <1>5, <2>1 DEF XhcInv, OwnerOK, ReadyOK
<1>6. CASE XhcDevice # Nothing
  <2>1. at' = "devices"
    BY <1>1, <1>6
  <2> QED
    BY <1>1, <1>2, <1>3, <1>4, <1>6, <2>1 DEF XhcInv, OwnerOK, ReadyOK, RegistersOK
<1> QED
  BY <1>5, <1>6

\* Before the start of the controller only the firmware touches it.
LEMMA EarlierXhc ==
  ASSUME XhcInv, UNCHANGED <<machine, xhc, pool>>, (devices \in Seq(machine.functions))',
         at \notin FromDevices \cup {"exit"}, at' \notin FromDevices
  PROVE  XhcInv'
<1>1. /\ PoolInv' /\ (xhc \in OperationalRegisters)' /\ xhc'.disturbed = FALSE
      /\ Asked(pool, Area("erst_"))' = Asked(pool, Area("erst_"))
  BY DEF XhcInv, PoolInv
<1> QED
  BY <1>1 DEF XhcInv, OwnerOK, ReadyOK, RegistersOK, FromDevices, FromOwnership, FromHalt,
              FromScratchpads, FromCommandRing, FromEventRing, FromInterrupter,
              FromInterrupts, FromRun

LEMMA BootStepsXhc ==
  ASSUME XhcInv, \/ InitializeMemory \/ InitializePCI \/ ReadTables \/ StartWait
                 \/ WaitOverflow \/ WaitEnd \/ StartPeriodic
  PROVE  XhcInv'
<1>1. /\ at \in {"memory", "pci", "tables", "calibrate", "wait_overflow", "wait_end", "periodic"}
      /\ at' \in {"memory", "pci", "tables", "calibrate", "wait_overflow", "wait_end", "periodic",
                 "find", "exit"}
  <2>1. InitializeMemory \/ InitializePCI \/ ReadTables \/ StartWait \/ StartPeriodic
          => /\ at \in {"memory", "pci", "tables", "calibrate", "periodic"}
             /\ at' \in {"memory", "pci", "tables", "calibrate", "wait_overflow", "wait_end",
                        "find", "exit"}
    BY Zenon DEF InitializeMemory, InitializePCI, ReadTables, StartWait, StartPeriodic, Goes
  <2>2. WaitOverflow \/ WaitEnd => /\ at \in {"wait_overflow", "wait_end"}
                                   /\ at' \in {"wait_overflow", "wait_end", "periodic"}
    BY Zenon DEF WaitOverflow, WaitEnd, ReadTimer
  <2> QED
    BY <2>1, <2>2
<1>2. at \notin FromDevices \cup {"exit"} /\ at' \notin FromDevices
  BY <1>1 DEF FromDevices, FromOwnership, FromHalt, FromScratchpads, FromCommandRing,
              FromEventRing, FromInterrupter, FromInterrupts, FromRun
<1>3. UNCHANGED <<machine, xhc, pool>>
  BY Zenon DEF InitializeMemory, InitializePCI, ReadTables, StartWait, WaitOverflow, WaitEnd,
               StartPeriodic, ReadTimer, Calibrating, Keeps
<1>4. (devices \in Seq(machine.functions))'
  <2>1. CASE InitializePCI
    <3>1. devices' = Scan(machine.functions)
      BY <2>1 DEF InitializePCI
    <3>2. Scan(machine.functions) \in Seq(machine.functions)
      BY MachinesAssumption DEF XhcInv, PoolInv
    <3> QED
      BY <1>3, <3>1, <3>2
  <2>2. CASE \/ InitializeMemory \/ ReadTables \/ StartWait \/ WaitOverflow \/ WaitEnd
             \/ StartPeriodic
    <3>1. devices' = devices
      BY <2>2, Zenon DEF InitializeMemory, ReadTables, StartWait, WaitOverflow, WaitEnd,
                         StartPeriodic, ReadTimer, Calibrating, Keeps
    <3> QED
      BY <1>3, <3>1 DEF XhcInv
  <2> QED
    BY <2>1, <2>2
<1> QED
  BY <1>2, <1>3, <1>4, EarlierXhc

LEMMA XhcInit == BootInit => XhcInv
<1> SUFFICES ASSUME BootInit PROVE XhcInv
  OBVIOUS
<1>1. /\ at = "memory" /\ devices = <<>> /\ xhc \in FirmwareLeaves(machine.legacy)
      /\ pool = NewPool(machine.pool_base)
  BY DEF BootInit
<1> DEFINE Leaves(l, running) ==
             [AfterReset(l, FALSE) EXCEPT
                !.cmd.run_stop = running, !.cmd.interrupter_enable = running,
                !.sts = [host_controller_halted |-> ~running, controller_not_ready |-> FALSE],
                !.CONFIG = 1]
           Semaphores == {x \in USBLEGSUP :
             /\ ~(x.hc_bios_owned_semaphore /\ x.hc_os_owned_semaphore)
             /\ x.hc_bios_owned_semaphore \/ x.hc_os_owned_semaphore => machine.legacy}
<1>2. xhc \in FirmwareLeaves(machine.legacy)
  BY <1>1
<1>3. PICK running \in BOOLEAN, l \in Semaphores : xhc = Leaves(l, running)
  <2>1. FirmwareLeaves(machine.legacy) = {Leaves(l, running) : running \in BOOLEAN, l \in Semaphores}
    BY DEF FirmwareLeaves
  <2> HIDE DEF Leaves, Semaphores
  <2> QED
    BY <1>2, <2>1
<1>4. /\ l \in USBLEGSUP
      /\ ~(l.hc_bios_owned_semaphore /\ l.hc_os_owned_semaphore)
      /\ l.hc_bios_owned_semaphore \/ l.hc_os_owned_semaphore => machine.legacy
      /\ xhc = Leaves(l, running)
  BY <1>3
<1>5. xhc \in OperationalRegisters
  BY <1>4 DEF AfterReset, OperationalRegisters, USBCMD, USBSTS, CRCR, InterrupterRegisterSet
<1>6. /\ xhc.legsup = l /\ xhc.disturbed = FALSE /\ xhc.cmd.host_controller_reset = FALSE
      /\ xhc.sts.controller_not_ready = FALSE
  BY <1>4 DEF AfterReset
<1>7. OwnerOK
  <2>1. /\ l.hc_bios_owned_semaphore \in BOOLEAN /\ l.hc_os_owned_semaphore \in BOOLEAN
        /\ machine.legacy \in BOOLEAN
    BY <1>4, MachinesAssumption, PoolInit DEF USBLEGSUP, PoolInv
  <2>2. at \notin FromHalt
    BY <1>1 DEF FromHalt, FromScratchpads, FromCommandRing, FromEventRing, FromInterrupter,
                FromInterrupts, FromRun
  <2> QED
    BY <1>4, <1>6, <2>1, <2>2 DEF OwnerOK
<1>8. ReadyOK
  BY <1>1, <1>6 DEF ReadyOK
<1>9. ~Asked(pool, Area("erst_"))
  BY <1>1 DEF NewPool, Asked
<1>10. devices \in Seq(machine.functions)
  BY <1>1
<1>11. at \notin FromDevices
  BY <1>1 DEF FromDevices, FromOwnership, FromHalt, FromScratchpads, FromCommandRing,
              FromEventRing, FromInterrupter, FromInterrupts, FromRun
<1>12. RegistersOK
  BY <1>11 DEF RegistersOK, FromDevices, FromOwnership, FromHalt, FromScratchpads,
              FromCommandRing, FromEventRing, FromInterrupter, FromInterrupts, FromRun
<1> QED
  BY <1>5, <1>6, <1>7, <1>8, <1>9, <1>10, <1>11, <1>12, PoolInit DEF XhcInv

LEMMA DriverXhc ==
  ASSUME XhcInv, Driver
  PROVE  XhcInv'
<1>1. CASE \/ FindController \/ InitializeDevices \/ RequestHCOwnership \/ Owned
           \/ Halt \/ Halted \/ Reset \/ ResetDone \/ Ready
  BY <1>1, FindControllerXhc, InitializeDevicesXhc, RequestHCOwnershipXhc, OwnedXhc,
     HaltXhc, ResetXhc
<1>2. CASE \/ SetMaxSlots \/ AllocScratchpadArray \/ AllocScratchpad \/ SetDeviceContexts
           \/ InitializeCommandRing \/ InitializeEventRing
  BY <1>2, SetMaxSlotsXhc, ScratchpadsXhc, SetDeviceContextsXhc, InitializeCommandRingXhc,
     InitializeEventRingXhc
<1>3. CASE EnableInterrupter \/ EnableInterrupts \/ Run \/ Running
  BY <1>3, EnableInterrupterXhc, EnableInterruptsXhc, RunXhc, OwnedXhc
<1> QED
  BY <1>1, <1>2, <1>3 DEF Driver

LEMMA XhcNext == XhcInv /\ [BootNext]_bootVars => XhcInv'
<1> SUFFICES ASSUME XhcInv, [BootNext]_bootVars PROVE XhcInv'
  OBVIOUS
<1>1. CASE MainTask
  BY <1>1, BootStepsXhc, DriverXhc DEF MainTask
<1>2. CASE KernelRuns
  <2>1. CASE \E slot \in 1 .. MaxDevices : AllocDevice(slot)
    BY <2>1, AllocDeviceXhc
  <2>2. CASE UNCHANGED xhcVars
    BY <2>2, XhcSame DEF xhcVars
  <2> QED
    BY <1>2, <2>1, <2>2 DEF KernelRuns
<1>3. CASE Hardware
  BY <1>3, HardwareXhc DEF Hardware
<1>4. CASE UNCHANGED bootVars
  BY <1>4, XhcSame DEF bootVars, xhcVars
<1> QED
  BY <1>1, <1>2, <1>3, <1>4 DEF BootNext

\* Whatever the machine, its firmware and its number of scratchpad buffers, and whichever
\* areas the pool has no room for: the controller is never reset while it runs or
\* written to while it is not ready, and it runs for the driver only with every register
\* and the message set up (Controller::Initialize and Run).
THEOREM XhcAlwaysProgrammed == BootSpec => []XhcIsProgrammed
<1>1. XhcInv => XhcIsProgrammed
  <2> SUFFICES ASSUME XhcInv PROVE XhcIsProgrammed
    OBVIOUS
  <2>1. ~xhc.disturbed
    BY DEF XhcInv
  <2>2. ASSUME at \in {"run", "wait_running", "running"}, XhcDevice # Nothing
        PROVE  Programmed /\ ~xhc.legsup.hc_bios_owned_semaphore
    <3> USE DEF FromDevices, FromOwnership, FromHalt, FromScratchpads, FromCommandRing,
                FromEventRing, FromInterrupter, FromInterrupts, FromRun
    <3>1. MessageIsOn /\ RegistersOK /\ xhc.legsup.hc_bios_owned_semaphore = FALSE
      BY <2>2 DEF XhcInv, OwnerOK
    <3>2. /\ xhc.CONFIG = kDeviceSize /\ xhc.DCBAAP = Dcbaa /\ Dcbaa # 0
          /\ xhc.crcr = [ring_cycle_state |-> TRUE, pointer |-> CommandRing] /\ CommandRing # 0
          /\ EventRing # 0 /\ SegmentTable # 0
          /\ xhc.cmd.interrupter_enable = TRUE
      BY <2>2, <3>1 DEF RegistersOK
    <3>3. xhc.interrupter = [interrupt_enable |-> TRUE, ERSTSZ |-> 1,
                             ERSTBA |-> SegmentTable, ERDP |-> EventRing]
      <4>1. /\ xhc.interrupter.interrupt_enable = TRUE /\ xhc.interrupter.ERSTSZ = 1
            /\ xhc.interrupter.ERSTBA = SegmentTable /\ xhc.interrupter.ERDP = EventRing
        BY <2>2, <3>1 DEF RegistersOK
      <4>2. xhc.interrupter \in InterrupterRegisterSet
        BY DEF XhcInv, OperationalRegisters
      <4> QED
        BY <4>1, <4>2 DEF InterrupterRegisterSet
    <3> QED
      BY <3>1, <3>2, <3>3
         DEF Programmed, MessageIsOn, Dcbaa, CommandRing, EventRing, SegmentTable
  <2> QED
    BY <2>1, <2>2 DEF XhcIsProgrammed
<1> QED
  BY <1>1, XhcInit, XhcNext, PTL DEF BootSpec
============================================================================
