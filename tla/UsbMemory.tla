----------------------------- MODULE UsbMemory -----------------------------
(***************************************************************************)
(* The memory of the USB drivers (src/usb/memory.cpp): a pool from which   *)
(* areas are cut one behind the other and to which none comes back.        *)
(* Addresses and sizes are in bytes.  0 is the null pointer.               *)
(***************************************************************************)
EXTENDS Integers

kMemoryPoolSize == 4096 * 32

Ceil(value, alignment) == ((value + alignment - 1) \div alignment) * alignment

\* A pool: where memory_pool begins, alloc_ptr, and (history) the areas that have
\* been asked for, p being the address that was returned.
NewPool(base) == [base |-> base, alloc_ptr |-> base, areas |-> {}]

Aligned(p, alignment) == IF alignment > 0 THEN Ceil(p, alignment) ELSE p

\* The area must not cross the boundary.
Within(p, size, boundary) ==
  IF boundary > 0 /\ Ceil(p, boundary) < p + size THEN Ceil(p, boundary) ELSE p

\* Mutant: the boundary is looked at before the alignment.
AllocMemBoundaryFirst(pool, what, size, alignment, boundary) ==
  LET p    == Aligned(Within(pool.alloc_ptr, size, boundary), alignment)
      full == pool.base + kMemoryPoolSize < p + size
  IN  [pool EXCEPT !.alloc_ptr = IF full THEN p ELSE p + size,
                   !.areas = @ \cup {[what |-> what, p |-> IF full THEN 0 ELSE p, size |-> size,
                                      alignment |-> alignment, boundary |-> boundary]}]

\* The pool after AllocMem.  alloc_ptr has moved even if there is no room.
AllocMem(pool, what, size, alignment, boundary) ==
  LET p    == Within(Aligned(pool.alloc_ptr, alignment), size, boundary)
      full == pool.base + kMemoryPoolSize < p + size
  IN  [pool EXCEPT !.alloc_ptr = IF full THEN p ELSE p + size,
                   !.areas = @ \cup {[what |-> what, p |-> IF full THEN 0 ELSE p, size |-> size,
                                      alignment |-> alignment, boundary |-> boundary]}]

Asked(pool, what) == \E a \in pool.areas : a.what = what

\* What AllocMem has returned for the area called what; 0 also if nobody has asked.
AddressOf(pool, what) ==
  LET found == {a \in pool.areas : a.what = what}
  IN  IF found = {} THEN 0 ELSE (CHOOSE a \in found : TRUE).p

============================================================================
