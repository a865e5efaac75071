------------------------------- MODULE Rings -------------------------------
(***************************************************************************)
(* The rings between the xHCI driver and the controller                    *)
(* (src/usb/xhci/ring.cpp, ring.hpp): the driver writes a command or       *)
(* transfer ring and the controller reads it, the controller writes the    *)
(* event ring and the driver reads it.  Nobody tells the other how far he  *)
(* has come but by the cycle bits.                                         *)
(*                                                                         *)
(* A ring is a record with the memory, the variables of the writer and     *)
(* those of the reader, who sees nothing of the writer's but the memory.   *)
(* A TRB is written in two halves, low (data[0..2]) and high (data[3],     *)
(* with the type and the cycle bit), and the controller may look at any    *)
(* time in between.                                                        *)
(***************************************************************************)
EXTENDS Integers, Sequences

CONSTANTS
  Size,       \* buf_size of a command or transfer ring; the last place is for the link
  EventSize   \* buf_size of the event ring

ASSUME SizeAssumption == /\ Size \in Nat /\ Size >= 3
                         /\ EventSize \in Nat /\ EventSize >= 2

LinkPlace == Size - 1
Places == 0 .. LinkPlace
EventPlaces == 0 .. EventSize - 1

Zero == [type |-> "Reserved"]   \* memory after memset
Link == [type |-> "Link"]       \* back to the first place, with toggle_cycle

----------------------------------------------------------------------------
(* Command and transfer rings: Ring.                                       *)

\* write, cycle and step are the driver's: write_index_, cycle_bit_ and how far
\* Push has come.  deq, ccs and seen are the controller's: its dequeue pointer,
\* its cycle state and what it has read last.
NewRing == [low   |-> [i \in Places |-> Zero], high |-> [i \in Places |-> Zero],
            bit   |-> [i \in Places |-> 0],
            write |-> 0, cycle |-> 1, step |-> "ready",
            deq   |-> 0, ccs |-> 1, seen |-> <<Zero, Zero>>]

\* CopyToLast, its two halves.
CopyLow(r, x) == [r EXCEPT !.low[r.write] = x]
CopyHigh(r) == [r EXCEPT !.high[r.write] = r.low[r.write], !.bit[r.write] = r.cycle]

\* Push: CopyToLast; the last place but one is followed by the link.
BeginPush(r, x) == [CopyLow(r, x) EXCEPT !.step = "copying"]
Copied(r) == [CopyHigh(r) EXCEPT !.write = r.write + 1,
                                 !.step = IF r.write + 1 = LinkPlace THEN "fullLap" ELSE "ready"]
BeginLink(r) == [CopyLow(r, Link) EXCEPT !.step = "linking"]
Linked(r) == [CopyHigh(r) EXCEPT !.write = 0, !.cycle = 1 - r.cycle, !.step = "ready"]

\* Mutant: data[3] is written with the low half, before data[0..2].
PushStepHighFirst(r) == CASE r.step = "copying"  -> [Copied(r) EXCEPT !.low[r.write] = Zero]
                          [] r.step = "fullLap" -> BeginLink(r)
                          [] r.step = "linking"  -> Linked(r)

\* The steps of a Push that BeginPush has begun.
PushStep(r) == CASE r.step = "copying"  -> Copied(r)
                 [] r.step = "fullLap" -> BeginLink(r)
                 [] r.step = "linking"  -> Linked(r)

\* The controller: a TRB is there if its cycle bit is right.
HasTrb(r) == r.bit[r.deq] = r.ccs
NextTrb(r) == r.high[r.deq]
AtLink(r) == HasTrb(r) /\ NextTrb(r).type = "Link"
FollowLink(r) == [r EXCEPT !.deq = 0, !.ccs = 1 - r.ccs]
Take(r) == [r EXCEPT !.deq = r.deq + 1, !.seen = <<r.low[r.deq], r.high[r.deq]>>]

\* The TRBs between the two, first to last, each as the pair of its halves.
Count(r) == IF r.cycle = r.ccs THEN r.write - r.deq ELSE (LinkPlace - r.deq) + r.write
Place(r, k) == IF r.deq + k - 1 < LinkPlace THEN r.deq + k - 1 ELSE r.deq + k - 1 - LinkPlace
Contents(r) == [k \in 1 .. Count(r) |-> <<r.low[Place(r, k)], r.high[Place(r, k)]>>]

\* Push does not look whether there is room.  With one TRB more than this in a
\* ring the link may be given the wrong cycle bit before the controller has
\* followed it.
Capacity == Size - 2

----------------------------------------------------------------------------
(* The event ring: EventRing.                                              *)

\* enq and pcs are the controller's; erdp is the register ERDP, which the driver
\* writes and the controller reads; cycle is cycle_bit_; seen is what the driver
\* has handled last.
NewEventRing == [event |-> [i \in EventPlaces |-> Zero], bit |-> [i \in EventPlaces |-> 0],
                 enq |-> 0, pcs |-> 1, erdp |-> 0, cycle |-> 1, seen |-> Zero]

NextPlace(p) == IF p + 1 = EventSize THEN 0 ELSE p + 1

HasFront(e) == e.bit[e.erdp] = e.cycle
FrontOf(e) == e.event[e.erdp]

Popped(e) == [e EXCEPT !.erdp = NextPlace(e.erdp),
                       !.cycle = IF e.erdp + 1 = EventSize THEN 1 - e.cycle ELSE e.cycle,
                       !.seen = FrontOf(e)]

\* The controller keeps one place free.
HasRoom(e) == NextPlace(e.enq) # e.erdp
Posted(e, x) == [e EXCEPT !.event[e.enq] = x, !.bit[e.enq] = e.pcs,
                          !.enq = NextPlace(e.enq),
                          !.pcs = IF e.enq + 1 = EventSize THEN 1 - e.pcs ELSE e.pcs]

EventCount(e) == IF e.pcs = e.cycle THEN e.enq - e.erdp ELSE (EventSize - e.erdp) + e.enq
EventPlace(e, k) == IF e.erdp + k - 1 < EventSize THEN e.erdp + k - 1
                    ELSE e.erdp + k - 1 - EventSize
Pending(e) == [k \in 1 .. EventCount(e) |-> e.event[EventPlace(e, k)]]

============================================================================
