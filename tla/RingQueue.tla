----------------------------- MODULE RingQueue -----------------------------
(***************************************************************************)
(* One command or transfer ring, and the event ring, under every use that  *)
(* keeps the promise the rings rest on: no more TRBs on their way than     *)
(* there is room for.  Each implements a queue.                            *)
(***************************************************************************)
EXTENDS Rings

CONSTANTS Trbs, Events

\* Callers push any TRB but a link.
NoLinks == \A x \in Trbs : x.type # "Link"

VARIABLES ring, eventRing

vars == <<ring, eventRing>>

Init == ring = NewRing /\ eventRing = NewEventRing

\* The driver pushes.
Push(x) == ring.step = "ready" /\ Count(ring) < Capacity /\ ring' = BeginPush(ring, x)
GoOn == ring.step # "ready" /\ ring' = PushStep(ring)

\* The controller reads.
Fetch == HasTrb(ring) /\ ring' = IF AtLink(ring) THEN FollowLink(ring) ELSE Take(ring)

RingNext == GoOn \/ Fetch \/ \E x \in Trbs : Push(x)

\* The controller reports, the driver handles.
Post(x) == HasRoom(eventRing) /\ eventRing' = Posted(eventRing, x)
Pop == HasFront(eventRing) /\ eventRing' = Popped(eventRing)

EventNext == Pop \/ \E x \in Events : Post(x)

RingSpec == ring = NewRing /\ [][RingNext]_ring
EventSpec == eventRing = NewEventRing /\ [][EventNext]_eventRing

Next == \/ RingNext /\ UNCHANGED eventRing
        \/ EventNext /\ UNCHANGED ring

Spec == Init /\ [][Next]_vars

TrbsSent == INSTANCE TrbQueue
  WITH Trbs <- {<<x, x>> : x \in Trbs}, Room <- Capacity, Nothing <- <<Zero, Zero>>,
       queue <- Contents(ring), seen <- ring.seen

EventsSent == INSTANCE TrbQueue
  WITH Trbs <- Events, Room <- EventSize - 1, Nothing <- Zero,
       queue <- Pending(eventRing), seen <- eventRing.seen

============================================================================
