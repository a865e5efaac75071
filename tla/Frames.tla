------------------------------- MODULE Frames -------------------------------
(***************************************************************************)
(* The physical memory (src/memory_manager.cpp): the bitmap of frames, set *)
(* up from the memory map the UEFI firmware has left, the heap, which is   *)
(* one large block of frames, and the search for free frames, which goes   *)
(* one frame at a time here as in the code.                                *)
(***************************************************************************)
EXTENDS Integers, Sequences

CONSTANTS
  FrameCount,   \* kFrameCount
  MemoryMaps,   \* the memory maps the firmware may leave
  HeapFrames,   \* kHeapFrames
  Requests      \* the numbers of frames that are asked for

Frames == 0 .. FrameCount - 1

\* A descriptor of the memory map, its addresses counted in frames;
\* kUEFIPageSize is kBytesPerFrame.
Descriptor == [start : Nat, pages : Nat, available : BOOLEAN]
FramesOf(d) == d.start .. d.start + d.pages - 1

\* The firmware promises nothing about the order of the descriptors.  That they
\* lie within kFrameCount is what the bitmap relies on.
ASSUME FramesAssumption ==
  /\ FrameCount \in Nat /\ HeapFrames \in Nat \ {0} /\ Requests \subseteq Nat \ {0}
  /\ MemoryMaps \subseteq Seq(Descriptor)
  /\ \A m \in MemoryMaps : \A i \in 1 .. Len(m) : m[i].start + m[i].pages <= FrameCount

VARIABLES
  memory_map,      \* the memory map of this machine
  iter,            \* the descriptor InitializeMemoryManager has come to
  available_end,
  allocated,       \* the frames whose bit in alloc_map_ is set
  range_begin, range_end,
  pc,              \* "map", "search", "idle", or "exit": no memory for the heap
  search,          \* Allocate: num_frames, start_frame_id and i
  blocks,          \* history: the blocks Allocate has handed out, the heap first
  failed           \* history: the request that has just failed; 0: none

vars == <<memory_map, iter, available_end, allocated, range_begin, range_end,
          pc, search, blocks, failed>>

NoSearch == [n |-> 0, start |-> 0, i |-> 0]
Block(start, n) == [start |-> start, n |-> n]
BlockFrames(b) == b.start .. b.start + b.n - 1

----------------------------------------------------------------------------
(* InitializeMemoryManager.                                                *)

\* Mutant: the gaps between descriptors are not marked.
ReadDescriptorNoGap ==
  LET d == memory_map[iter]
  IN  /\ pc = "map" /\ iter <= Len(memory_map)
      /\ iter' = iter + 1
      /\ allocated' = allocated \cup (IF d.available THEN {} ELSE FramesOf(d))
      /\ available_end' = IF d.available THEN d.start + d.pages ELSE available_end
      /\ UNCHANGED <<memory_map, range_begin, range_end, pc, search, blocks, failed>>

\* What lies between the last available descriptor and this one is marked as
\* allocated, and this one too unless it is available.
ReadDescriptor ==
  LET d == memory_map[iter]
  IN  /\ pc = "map" /\ iter <= Len(memory_map)
      /\ iter' = iter + 1
      /\ allocated' = allocated \cup (available_end .. d.start - 1)
                                \cup (IF d.available THEN {} ELSE FramesOf(d))
      /\ available_end' = IF d.available THEN d.start + d.pages ELSE available_end
      /\ UNCHANGED <<memory_map, range_begin, range_end, pc, search, blocks, failed>>

Begin(n, begin) ==
  /\ pc' = "search"
  /\ search' = [n |-> n, start |-> begin, i |-> 0]
  /\ failed' = 0

\* SetMemoryRange, and the heap is allocated.
InitializeHeap ==
  /\ pc = "map" /\ iter > Len(memory_map)
  /\ range_begin' = 1 /\ range_end' = available_end
  /\ Begin(HeapFrames, 1)
  /\ UNCHANGED <<memory_map, iter, available_end, allocated, blocks>>

----------------------------------------------------------------------------
(* Allocate and Free.                                                      *)

MapUnchanged == UNCHANGED <<memory_map, iter, available_end, range_begin, range_end>>

Allocate(n) ==
  /\ pc = "idle"
  /\ Begin(n, range_begin)
  /\ MapUnchanged /\ UNCHANGED <<allocated, blocks>>

Frame == search.start + search.i

Looking == pc = "search" /\ search.i < search.n

PastEnd == Frame >= range_end

\* Without memory for the heap the kernel exits.
NoEnoughMemory ==
  /\ Looking /\ PastEnd
  /\ pc' = IF blocks = {} THEN "exit" ELSE "idle"
  /\ search' = NoSearch
  /\ failed' = search.n
  /\ MapUnchanged /\ UNCHANGED <<allocated, blocks>>

\* Mutant: the search goes on one frame too late.
FrameTakenSkips ==
  /\ Looking /\ ~PastEnd /\ Frame \in allocated
  /\ search' = [search EXCEPT !.start = Frame + 2, !.i = 0]
  /\ MapUnchanged /\ UNCHANGED <<allocated, pc, blocks, failed>>

\* The frame is taken: the search starts again behind it.
FrameTaken ==
  /\ Looking /\ ~PastEnd /\ Frame \in allocated
  /\ search' = [search EXCEPT !.start = Frame + 1, !.i = 0]
  /\ MapUnchanged /\ UNCHANGED <<allocated, pc, blocks, failed>>

FrameFree ==
  /\ Looking /\ ~PastEnd /\ Frame \notin allocated
  /\ search' = [search EXCEPT !.i = @ + 1]
  /\ MapUnchanged /\ UNCHANGED <<allocated, pc, blocks, failed>>

\* Mutant: all but the last frame are marked.
FoundMarksTooFew ==
  /\ pc = "search" /\ search.i = search.n
  /\ allocated' = allocated \cup BlockFrames(Block(search.start, search.n - 1))
  /\ blocks' = blocks \cup {Block(search.start, search.n)}
  /\ pc' = "idle" /\ search' = NoSearch
  /\ MapUnchanged /\ UNCHANGED failed

Found ==
  /\ pc = "search" /\ search.i = search.n
  /\ allocated' = allocated \cup BlockFrames(Block(search.start, search.n))
  /\ blocks' = blocks \cup {Block(search.start, search.n)}
  /\ pc' = "idle" /\ search' = NoSearch
  /\ MapUnchanged /\ UNCHANGED failed

\* A block that has been handed out is given back.
Free(b) ==
  /\ pc = "idle"
  /\ allocated' = allocated \ BlockFrames(b)
  /\ blocks' = blocks \ {b}
  /\ failed' = 0
  /\ MapUnchanged /\ UNCHANGED <<pc, search>>

----------------------------------------------------------------------------
Init ==
  /\ memory_map \in MemoryMaps /\ iter = 1 /\ available_end = 0
  /\ allocated = {} /\ range_begin = 0 /\ range_end = FrameCount
  /\ pc = "map" /\ search = NoSearch
  /\ blocks = {} /\ failed = 0

Search == NoEnoughMemory \/ FrameTaken \/ FrameFree \/ Found

Next == \/ ReadDescriptor \/ InitializeHeap \/ Search
        \/ \E n \in Requests : Allocate(n)
        \/ \E b \in blocks : Free(b)

\* A search that has been started is carried on.
Spec == Init /\ [][Next]_vars /\ WF_vars(Search)

----------------------------------------------------------------------------
(* What must hold.                                                         *)

TypeOK ==
  /\ memory_map \in MemoryMaps /\ iter \in 1 .. Len(memory_map) + 1
  /\ available_end \in 0 .. FrameCount
  /\ allocated \subseteq Frames
  /\ range_begin \in 0 .. 1 /\ range_end \in 0 .. FrameCount
  /\ pc \in {"map", "search", "idle", "exit"}
  /\ search \in [n : Nat, start : Nat, i : Nat]
  /\ blocks \subseteq [start : Nat, n : Nat]
  /\ failed \in Nat

\* What has been handed out is marked, and no frame is handed out twice.
BlocksAreApart ==
  /\ \A b \in blocks : BlockFrames(b) \subseteq allocated
  /\ \A b, c \in blocks : b # c => BlockFrames(b) \cap BlockFrames(c) = {}

\* Only frames are handed out that the memory map calls available, in whatever
\* order its descriptors come, and never frame 0, whose address is the null pointer.
OnlyAvailable ==
  \A b \in blocks : \A f \in BlockFrames(b) :
    /\ f # 0
    /\ \E i \in 1 .. Len(memory_map) :
         memory_map[i].available /\ f \in FramesOf(memory_map[i])

\* start .. start + n - 1 could be handed out.
FreeRun(start, n) == /\ start >= range_begin /\ start + n <= range_end
                     /\ \A f \in start .. start + n - 1 : f \notin allocated

\* Allocate fails only if there are no n free frames in a row: the search passes
\* over none.
FailsOnlyWhenFull == failed # 0 => \A start \in Frames : ~FreeRun(start, failed)

============================================================================
