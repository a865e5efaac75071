----------------------------- MODULE RingProofs -----------------------------
(***************************************************************************)
(* A ring whose writer never has more TRBs on their way than there is room *)
(* for is a queue, although neither side is told where the other is; and   *)
(* so is the event ring, whose reader tells the writer.                    *)
(***************************************************************************)
EXTENDS RingQueue, SequenceTheorems, TLAPS

N == LinkPlace

Content == Trbs \cup {Zero, Link}

RingType ==
  ring \in [low : [Places -> Content], high : [Places -> Content], bit : [Places -> {0, 1}],
            write : Places, cycle : {0, 1}, step : {"ready", "copying", "fullLap", "linking"},
            deq : Places, ccs : {0, 1}, seen : Content \X Content]

\* The driver is past the last TRB of a lap exactly while it writes the link.
StepFits == ring.write = N <=> ring.step \in {"fullLap", "linking"}

\* The cycle bits show how far the driver has come in its lap.
BitsShow == \A i \in Places : ring.bit[i] = ring.cycle <=> i < ring.write

\* The controller is in the same lap, or in the one before and further on.
SameLap == ring.cycle = ring.ccs
Behind == IF SameLap THEN ring.deq <= ring.write ELSE ring.write < ring.deq
HasRoomLeft == /\ Count(ring) <= Capacity
               /\ ring.step = "copying" => Count(ring) < Capacity

\* A place between the two holds a TRB with both its halves.
Between(i) == IF SameLap THEN ring.deq <= i /\ i < ring.write
              ELSE ring.deq <= i \/ i < ring.write
WholeTrbs == \A i \in Places : Between(i) /\ i < N =>
               ring.high[i] = ring.low[i] /\ ring.low[i] \in Trbs

\* What Push has begun.
Begun == /\ ring.step = "copying" => ring.low[ring.write] \in Trbs
         /\ ring.step = "linking" => ring.low[N] = Link
LinkThere == ~SameLap => ring.high[N] = Link

RingInv == /\ RingType /\ StepFits /\ BitsShow /\ Behind /\ HasRoomLeft
           /\ WholeTrbs /\ Begun /\ LinkThere

----------------------------------------------------------------------------
LEMMA RingSizes == Size \in Nat /\ N \in Nat /\ N >= 2 /\ N = Size - 1 /\ Places = 0 .. N
                   /\ Capacity = N - 1
BY SizeAssumption DEF N, LinkPlace, Places, Capacity

\* An empty ring satisfies the invariant.
LEMMA RingInitially == ring = NewRing => RingInv
<1> USE RingSizes DEF N
<1>1. SUFFICES ASSUME ring = NewRing PROVE RingInv
  OBVIOUS
<1>2. RingType
  BY <1>1 DEF RingType, NewRing, Content
<1>3. StepFits /\ BitsShow /\ Behind /\ HasRoomLeft /\ WholeTrbs /\ Begun /\ LinkThere
  BY <1>1 DEF NewRing, StepFits, BitsShow, Behind, SameLap, HasRoomLeft, Count, WholeTrbs,
              Between, Begun, LinkThere
<1> QED BY <1>2, <1>3 DEF RingInv

\* The beginning of a push writes a low half at the place that is free.
LEMMA PushPreserves ==
  ASSUME RingInv, NEW x \in Trbs, Push(x)
  PROVE  RingInv'
<1> USE RingSizes DEF N, RingInv
<1>0. /\ ring.step = "ready" /\ ring.write < N
      /\ ring' = [ring EXCEPT !.low[ring.write] = x, !.step = "copying"]
  BY DEF Push, BeginPush, CopyLow, RingType, StepFits
<1>1. RingType'
  BY <1>0 DEF RingType, Content
<1>2. (StepFits /\ BitsShow /\ Behind /\ LinkThere)'
  BY <1>0 DEF RingType, StepFits, BitsShow, Behind, SameLap, LinkThere
<1>3. HasRoomLeft'
  BY <1>0 DEF RingType, HasRoomLeft, Count, Push
<1>4. WholeTrbs'
  BY <1>0 DEF RingType, WholeTrbs, Between, SameLap, Behind
<1>5. Begun'
  BY <1>0 DEF RingType, Begun
<1> QED BY <1>1, <1>2, <1>3, <1>4, <1>5

\* The second half of a TRB makes it visible, at a place that was free.
LEMMA CopiedPreserves ==
  ASSUME RingInv, ring.step = "copying", ring' = PushStep(ring)
  PROVE  RingInv'
<1> USE RingSizes DEF N, RingInv
<1>0. /\ ring.write < N
      /\ ring' = [ring EXCEPT !.high[ring.write] = ring.low[ring.write],
                              !.bit[ring.write] = ring.cycle, !.write = ring.write + 1,
                              !.step = IF ring.write + 1 = N THEN "fullLap" ELSE "ready"]
  BY DEF PushStep, Copied, CopyHigh, RingType, StepFits
<1>1. RingType'
  <2>1. /\ ring.low[ring.write] \in Content /\ ring.write \in Places
        /\ ring.write + 1 \in Places
    BY <1>0 DEF RingType
  <2>2. /\ [ring.high EXCEPT ![ring.write] = ring.low[ring.write]] \in [Places -> Content]
        /\ [ring.bit EXCEPT ![ring.write] = ring.cycle] \in [Places -> {0, 1}]
    BY <2>1 DEF RingType
  <2> QED BY <1>0, <2>1, <2>2 DEF RingType
<1>2. (StepFits /\ BitsShow)'
  BY <1>0 DEF RingType, StepFits, BitsShow
<1>3. (Behind /\ HasRoomLeft)'
  BY <1>0 DEF RingType, Behind, SameLap, HasRoomLeft, Count
<1>4. WholeTrbs'
  BY <1>0 DEF RingType, WholeTrbs, Between, SameLap, Behind, Begun
<1>5. (Begun /\ LinkThere)'
  BY <1>0 DEF RingType, Begun, LinkThere, SameLap
<1> QED BY <1>1, <1>2, <1>3, <1>4, <1>5

\* The low half of the link stands behind the last TRB.
LEMMA BeginLinkPreserves ==
  ASSUME RingInv, ring.step = "fullLap", ring' = PushStep(ring)
  PROVE  RingInv'
<1> USE RingSizes DEF N, RingInv
<1>0. /\ ring.write = N
      /\ ring' = [ring EXCEPT !.low[ring.write] = Link, !.step = "linking"]
  BY DEF PushStep, BeginLink, CopyLow, RingType, StepFits
<1>1. RingType'
  <2>1. Link \in Content /\ ring.write \in Places
    BY DEF RingType, Content
  <2>2. [ring.low EXCEPT ![ring.write] = Link] \in [Places -> Content]
    BY <2>1 DEF RingType
  <2> QED BY <1>0, <2>1, <2>2 DEF RingType
<1>2. (StepFits /\ BitsShow /\ Behind /\ LinkThere)'
  BY <1>0 DEF RingType, StepFits, BitsShow, Behind, SameLap, LinkThere
<1>3. HasRoomLeft'
  BY <1>0 DEF RingType, HasRoomLeft, Count
<1>4. WholeTrbs'
  BY <1>0 DEF RingType, WholeTrbs, Between, SameLap
<1>5. Begun'
  BY <1>0 DEF RingType, Begun
<1> QED BY <1>1, <1>2, <1>3, <1>4, <1>5

\* The link begins a new lap: the driver turns its cycle bit and the controller is behind.
LEMMA LinkedPreserves ==
  ASSUME RingInv, ring.step = "linking", ring' = PushStep(ring)
  PROVE  RingInv'
<1> USE RingSizes DEF N, RingInv
<1>0. /\ ring.write = N
      /\ ring' = [ring EXCEPT !.high[ring.write] = ring.low[ring.write],
                              !.bit[ring.write] = ring.cycle, !.write = 0,
                              !.cycle = 1 - ring.cycle, !.step = "ready"]
  BY DEF PushStep, Linked, CopyHigh, RingType, StepFits
<1>a. SameLap /\ ring.deq >= 1
  BY <1>0 DEF RingType, Behind, SameLap, HasRoomLeft, Count
<1>1. RingType'
  <2>1. /\ ring.low[ring.write] \in Content /\ ring.write \in Places /\ 0 \in Places
        /\ 1 - ring.cycle \in {0, 1}
    BY DEF RingType
  <2>2. /\ [ring.high EXCEPT ![ring.write] = ring.low[ring.write]] \in [Places -> Content]
        /\ [ring.bit EXCEPT ![ring.write] = ring.cycle] \in [Places -> {0, 1}]
    BY <2>1 DEF RingType
  <2> QED BY <1>0, <2>1, <2>2 DEF RingType
<1>2. (StepFits /\ BitsShow)'
  BY <1>0 DEF RingType, StepFits, BitsShow
<1>3. (Behind /\ HasRoomLeft)'
  BY <1>0, <1>a DEF RingType, Behind, SameLap, HasRoomLeft, Count
<1>4. WholeTrbs'
  BY <1>0, <1>a DEF RingType, WholeTrbs, Between, SameLap
<1>5. (Begun /\ LinkThere)'
  BY <1>0, <1>a DEF RingType, Begun, LinkThere, SameLap
<1> QED BY <1>1, <1>2, <1>3, <1>4, <1>5

\* What the controller finds at its place.
LEMMA WhatIsThere ==
  ASSUME RingInv, NoLinks, HasTrb(ring)
  PROVE  /\ AtLink(ring) <=> ring.deq = N
         /\ ring.deq = N => ~SameLap
         /\ ring.deq < N => Between(ring.deq)
<1> USE RingSizes DEF N, RingInv
<1>1. /\ SameLap => ring.deq < ring.write
      /\ ~SameLap => ring.write <= ring.deq
  BY DEF HasTrb, BitsShow, RingType, SameLap
<1>2. ring.deq = N => ~SameLap
  BY <1>1 DEF RingType
<1>3. ring.deq < N => Between(ring.deq)
  BY <1>1 DEF RingType, Between
<1>4. ring.deq < N => ~AtLink(ring)
  BY <1>3 DEF RingType, WholeTrbs, AtLink, NextTrb, NoLinks
<1>5. ring.deq = N => AtLink(ring)
  BY <1>2 DEF LinkThere, AtLink, NextTrb, Link
<1> QED BY <1>2, <1>3, <1>4, <1>5 DEF RingType

\* A step of the controller stays behind the driver, in this lap or the one before.
LEMMA FetchPreserves ==
  ASSUME RingInv, NoLinks, Fetch
  PROVE  RingInv'
<1> USE RingSizes DEF N, RingInv
<1>0. HasTrb(ring)
  BY DEF Fetch
<1>1. CASE ring.deq = N
  <2>0. ring' = [ring EXCEPT !.deq = 0, !.ccs = 1 - ring.ccs] /\ ~SameLap
    BY <1>0, <1>1, WhatIsThere DEF Fetch, FollowLink
  <2>1. RingType'
    <3>1. 0 \in Places /\ 1 - ring.ccs \in {0, 1}
      BY DEF RingType
    <3> QED BY <2>0, <3>1 DEF RingType
  <2>2. (StepFits /\ BitsShow /\ Behind /\ Begun /\ LinkThere)'
    BY <2>0, <1>1 DEF RingType, StepFits, BitsShow, Behind, SameLap, Begun, LinkThere
  <2>4. HasRoomLeft'
    <3>1. ring.cycle # ring.ccs /\ ring.cycle = 1 - ring.ccs
      BY <2>0 DEF RingType, SameLap
    <3>2. /\ ring'.cycle = ring'.ccs /\ ring'.deq = 0 /\ ring'.write = ring.write
          /\ ring'.step = ring.step
      BY <2>0, <3>1 DEF RingType
    <3>3. Count(ring) = ring.write
      BY <1>1, <3>1 DEF RingType, Count
    <3>4. Count(ring)' = ring.write
      BY <3>2 DEF RingType, Count
    <3> QED BY <3>2, <3>3, <3>4 DEF HasRoomLeft
  <2>3. WholeTrbs'
    BY <2>0, <1>1 DEF RingType, WholeTrbs, Between, SameLap
  <2> QED BY <2>1, <2>2, <2>3, <2>4
<1>2. CASE ring.deq < N
  <2>0. /\ ring' = [ring EXCEPT !.deq = ring.deq + 1,
                                !.seen = <<ring.low[ring.deq], ring.high[ring.deq]>>]
        /\ Between(ring.deq)
    BY <1>0, <1>2, WhatIsThere DEF Fetch, Take
  <2>1. RingType'
    <3>1. ring.deq + 1 \in Places
      BY <1>2 DEF RingType
    <3>2. <<ring.low[ring.deq], ring.high[ring.deq]>> \in Content \X Content
      BY DEF RingType
    <3> QED BY <2>0, <3>1, <3>2 DEF RingType
  <2>2. (StepFits /\ BitsShow /\ Begun /\ LinkThere)'
    BY <2>0, <1>2 DEF RingType, StepFits, BitsShow, SameLap, Begun, LinkThere
  <2>3. (Behind /\ HasRoomLeft)'
    BY <2>0, <1>2 DEF RingType, Behind, Between, SameLap, HasRoomLeft, Count
  <2>4. WholeTrbs'
    BY <2>0, <1>2 DEF RingType, WholeTrbs, Between, SameLap, Behind
  <2> QED BY <2>1, <2>2, <2>3, <2>4
<1> QED BY <1>1, <1>2 DEF RingType

\* Every step of a ring preserves the invariant.
LEMMA RingStep == ASSUME NoLinks, RingInv, [RingNext]_ring PROVE RingInv'
<1>1. CASE UNCHANGED ring
  BY <1>1 DEF RingInv, RingType, StepFits, BitsShow, Behind, SameLap, HasRoomLeft, Count,
              WholeTrbs, Between, Begun, LinkThere
<1>2. CASE GoOn
  <2>1. ring.step \in {"copying", "fullLap", "linking"} /\ ring' = PushStep(ring)
    BY <1>2 DEF GoOn, RingInv, RingType
  <2> QED BY <2>1, CopiedPreserves, BeginLinkPreserves, LinkedPreserves
<1>3. CASE Fetch
  BY <1>3, FetchPreserves
<1>4. ASSUME NEW x \in Trbs, Push(x) PROVE RingInv'
  BY <1>4, PushPreserves
<1> QED BY <1>1, <1>2, <1>3, <1>4 DEF RingNext

----------------------------------------------------------------------------
(* Every step sends a TRB, receives one, or changes nothing of the queue.  *)

\* A function is the sequence it is to be if it has its length and members.
LEMMA Appended ==
  ASSUME NEW S, NEW s \in Seq(S), NEW e \in S, NEW t,
         t = [k \in 1 .. Len(s) + 1 |-> t[k]],
         \A k \in 1 .. Len(s) : t[k] = s[k],
         t[Len(s) + 1] = e
  PROVE  t = Append(s, e)
<1> DEFINE a == Append(s, e)
<1>1. /\ a \in Seq(S) /\ Len(a) = Len(s) + 1
      /\ \A k \in 1 .. Len(s) : a[k] = s[k]
      /\ a[Len(s) + 1] = e
  BY AppendProperties
<1>2. a \in [1 .. Len(s) + 1 -> S] /\ Len(s) \in Nat
  BY <1>1, LenProperties
<1> HIDE DEF a
<1>3. \A k \in 1 .. Len(s) + 1 : t[k] = a[k]
  BY SMTT(40), <1>1, <1>2
<1>4. t = a
  BY <1>2, <1>3
<1> QED BY <1>4 DEF a

\* A function is the rest of a sequence if it holds its members one place earlier.
LEMMA TailOf ==
  ASSUME NEW S, NEW s \in Seq(S), NEW t, s # << >>,
         t = [k \in 1 .. Len(s) - 1 |-> t[k]],
         \A k \in 1 .. Len(s) - 1 : t[k] = s[k + 1]
  PROVE  t = Tail(s)
<1>1. /\ Tail(s) \in Seq(S) /\ Len(Tail(s)) = Len(s) - 1
      /\ \A k \in 1 .. Len(Tail(s)) : Tail(s)[k] = s[k + 1]
  BY HeadTailProperties
<1>2. Tail(s) \in [1 .. Len(s) - 1 -> S]
  BY <1>1, LenProperties
<1> QED BY <1>1, <1>2

\* The queue of a ring: its length, and what it is at each place.
LEMMA ContentsIs ==
  ASSUME RingInv
  PROVE  /\ Count(ring) \in Nat
         /\ Contents(ring) \in Seq(Content \X Content)
         /\ Len(Contents(ring)) = Count(ring)
         /\ \A k \in 1 .. Count(ring) :
              /\ Place(ring, k) \in 0 .. N - 1
              /\ Contents(ring)[k] = <<ring.low[Place(ring, k)], ring.high[Place(ring, k)]>>
<1> USE RingSizes DEF N, RingInv
<1>1. Count(ring) \in Nat
  BY DEF RingType, Count, Behind, SameLap
<1>2. ASSUME NEW k \in 1 .. Count(ring)
      PROVE  Place(ring, k) \in 0 .. N - 1
  BY <1>2 DEF RingType, Count, Place, Behind, SameLap, HasRoomLeft
<1>3. ASSUME NEW k \in 1 .. Count(ring)
      PROVE  <<ring.low[Place(ring, k)], ring.high[Place(ring, k)]>> \in Content \X Content
  BY <1>2 DEF RingType
<1> QED BY <1>1, <1>2, <1>3 DEF Contents

\* An empty ring is an empty queue.
LEMMA InitialQueue == ring = NewRing => TrbsSent!Init
<1>1. ASSUME ring = NewRing PROVE Contents(ring) = << >> /\ ring.seen = <<Zero, Zero>>
  BY <1>1 DEF NewRing, Contents, Count
<1> QED BY <1>1 DEF TrbsSent!Init

\* The second half of a TRB sends it.
LEMMA CopiedSends ==
  ASSUME RingInv, RingInv', ring.step = "copying", ring' = PushStep(ring)
  PROVE  \E y \in {<<x, x>> : x \in Trbs} : TrbsSent!Send(y)
<1> USE RingSizes DEF N
<1> DEFINE x == ring.low[ring.write]
<1>0. /\ ring.write < N
      /\ ring' = [ring EXCEPT !.high[ring.write] = ring.low[ring.write],
                              !.bit[ring.write] = ring.cycle, !.write = ring.write + 1,
                              !.step = IF ring.write + 1 = N THEN "fullLap" ELSE "ready"]
  BY DEF PushStep, Copied, CopyHigh, RingInv, RingType, StepFits
<1>1. x \in Trbs /\ Count(ring) < Capacity
  BY DEF RingInv, Begun, HasRoomLeft
<1>2. Count(ring)' = Count(ring) + 1 /\ ring'.seen = ring.seen
  BY <1>0 DEF RingInv, RingType, Count
<1>3. ASSUME NEW k \in 1 .. Count(ring)
      PROVE  /\ Place(ring, k)' = Place(ring, k)
             /\ Place(ring, k) # ring.write
  BY SMTT(40), <1>0, <1>1 DEF RingInv, RingType, Place, Count, Behind, SameLap
<1>4. Place(ring', Count(ring) + 1) = ring.write
  <2>1. CASE SameLap
    <3>1. Count(ring) = ring.write - ring.deq
      BY <2>1 DEF SameLap, Count
    <3>2. ring.deq + (Count(ring) + 1) - 1 = ring.write
      BY <3>1 DEF RingInv, RingType
    <3> QED BY <1>0, <3>2 DEF RingInv, RingType, Place
  <2>2. CASE ~SameLap
    <3>1. Count(ring) = (N - ring.deq) + ring.write
      BY <2>2 DEF SameLap, Count
    <3>2. ring.deq + (Count(ring) + 1) - 1 = N + ring.write
      BY <3>1 DEF RingInv, RingType
    <3>3. ring'.deq = ring.deq /\ ring.write \in 0 .. N /\ ring.deq \in Int
      BY <1>0 DEF RingInv, RingType
    <3>4. ring'.deq + (Count(ring) + 1) - 1 = N + ring.write
      BY <3>2, <3>3
    <3>5. Count(ring) \in Int
      BY ContentsIs
    <3> QED BY <3>3, <3>4, <3>5 DEF Place
  <2> QED BY <2>1, <2>2
<1>5. \A i \in Places : /\ ring'.low[i] = ring.low[i]
                        /\ ring'.high[i] = IF i = ring.write THEN x ELSE ring.high[i]
  BY <1>0 DEF RingInv, RingType
<1>6. /\ Contents(ring) \in Seq(Content \X Content)
      /\ Len(Contents(ring)) = Count(ring) /\ Count(ring) \in Nat
      /\ \A k \in 1 .. Count(ring) : Place(ring, k) \in Places
  BY ContentsIs
<1>7. \A k \in 1 .. Count(ring) : Contents(ring)'[k] = Contents(ring)[k]
  BY <1>2, <1>3, <1>5, <1>6 DEF Contents
<1>8. Contents(ring)'[Count(ring) + 1] = <<x, x>>
  <2>1. ring.write \in Places /\ Count(ring) + 1 \in 1 .. Count(ring)'
    BY <1>2, <1>6 DEF RingInv, RingType
  <2> QED BY <1>4, <1>5, <2>1 DEF Contents
<1>9. Contents(ring)' = Append(Contents(ring), <<x, x>>)
  <2>1. Contents(ring)' = [k \in 1 .. Len(Contents(ring)) + 1 |-> Contents(ring)'[k]]
    BY <1>2, <1>6 DEF Contents
  <2>2. <<x, x>> \in Content \X Content
    BY <1>1 DEF Content
  <2>3. /\ \A k \in 1 .. Len(Contents(ring)) : Contents(ring)'[k] = Contents(ring)[k]
        /\ Contents(ring)'[Len(Contents(ring)) + 1] = <<x, x>>
    BY <1>6, <1>7, <1>8
  <2> HIDE DEF x
  <2> QED BY <1>6, <2>1, <2>2, <2>3, Appended
<1> QED BY <1>1, <1>2, <1>6, <1>9 DEF TrbsSent!Send

\* The rest of a push sends nothing.
LEMMA LinkingKeepsQueue ==
  ASSUME RingInv, ring.step \in {"fullLap", "linking"}, ring' = PushStep(ring)
  PROVE  Contents(ring)' = Contents(ring) /\ ring'.seen = ring.seen
<1> USE RingSizes DEF N
<1>1. ring.write = N /\ SameLap /\ ring.deq <= N
  BY DEF RingInv, RingType, StepFits, Behind, SameLap
<1>2. /\ ring'.seen = ring.seen /\ ring'.deq = ring.deq /\ ring'.ccs = ring.ccs
      /\ \A i \in 0 .. N - 1 : ring'.low[i] = ring.low[i] /\ ring'.high[i] = ring.high[i]
  BY <1>1 DEF RingInv, RingType, PushStep, BeginLink, Linked, CopyLow, CopyHigh
<1>3. Count(ring') = Count(ring)
  <2>1. CASE ring.step = "fullLap"
    BY <1>1, <2>1 DEF RingInv, RingType, PushStep, BeginLink, CopyLow, Count
  <2>2. CASE ring.step = "linking"
    <3>1. ring'.write = 0 /\ ring'.cycle = 1 - ring.cycle
      BY <2>2 DEF RingInv, RingType, PushStep, Linked, CopyHigh
    <3>2. Count(ring) = N - ring.deq
      BY <1>1 DEF SameLap, Count
    <3>3. ring'.cycle # ring'.ccs
      BY <1>1, <1>2, <3>1 DEF SameLap, RingInv, RingType
    <3> QED BY <1>2, <3>1, <3>2, <3>3 DEF Count, RingInv, RingType
  <2> QED BY <2>1, <2>2
<1>4. \A k \in 1 .. Count(ring) : Place(ring', k) = Place(ring, k)
  BY <1>2 DEF Place
<1>5. \A k \in 1 .. Count(ring) : Place(ring, k) \in 0 .. N - 1
  BY ContentsIs
<1> QED BY <1>2, <1>3, <1>4, <1>5 DEF Contents

\* The controller takes the first TRB, or follows the link and takes none.
LEMMA FetchReceives ==
  ASSUME RingInv, NoLinks, Fetch
  PROVE  TrbsSent!Receive \/ (Contents(ring)' = Contents(ring) /\ ring'.seen = ring.seen)
<1> USE RingSizes DEF N
<1>0. HasTrb(ring)
  BY DEF Fetch
<1>a. /\ Contents(ring) \in Seq(Content \X Content)
      /\ Len(Contents(ring)) = Count(ring) /\ Count(ring) \in Nat
      /\ \A k \in 1 .. Count(ring) : Place(ring, k) \in 0 .. N - 1
  BY ContentsIs
<1>1. CASE ring.deq = N
  <2>1. ring' = [ring EXCEPT !.deq = 0, !.ccs = 1 - ring.ccs] /\ ring.cycle # ring.ccs
    BY <1>0, <1>1, WhatIsThere DEF Fetch, FollowLink, SameLap
  <2>2. /\ ring'.seen = ring.seen /\ ring'.low = ring.low /\ ring'.high = ring.high
        /\ ring'.deq = 0 /\ ring'.write = ring.write /\ ring'.cycle = ring'.ccs
    BY <2>1 DEF RingInv, RingType
  <2>3. Count(ring) = ring.write /\ ring.write \in 0 .. N
    BY <1>1, <2>1 DEF RingInv, RingType, Count
  <2>4. Count(ring') = ring.write
    BY <2>2, <2>3 DEF Count
  <2>5. \A k \in 1 .. Count(ring) : Place(ring', k) = Place(ring, k)
    <3>1. \A k \in 1 .. Count(ring) : Place(ring, k) = k - 1
      BY <1>1, <2>3 DEF Place
    <3>2. \A k \in 1 .. Count(ring) : k - 1 < N
      BY <3>1, <1>a
    <3>3. \A k \in 1 .. Count(ring) : Place(ring', k) = k - 1
      BY <2>2, <2>3, <3>2 DEF Place
    <3> QED BY <3>1, <3>3
  <2> QED BY <2>2, <2>3, <2>4, <2>5 DEF Contents
<1>2. CASE ring.deq < N
  <2>1. /\ ring' = [ring EXCEPT !.deq = ring.deq + 1,
                                !.seen = <<ring.low[ring.deq], ring.high[ring.deq]>>]
        /\ Between(ring.deq)
    BY <1>0, <1>2, WhatIsThere DEF Fetch, Take, RingInv, RingType
  <2>2. /\ ring'.seen = <<ring.low[ring.deq], ring.high[ring.deq]>>
        /\ ring'.low = ring.low /\ ring'.high = ring.high /\ ring'.write = ring.write
        /\ ring'.deq = ring.deq + 1 /\ ring'.cycle = ring.cycle /\ ring'.ccs = ring.ccs
    BY <2>1 DEF RingInv, RingType
  <2>3. Count(ring) >= 1
    BY <1>2, <2>1 DEF Between, SameLap, Count, RingInv, RingType, Behind
  <2>4. Count(ring') = Count(ring) - 1
    BY <2>2 DEF Count, RingInv, RingType
  <2>5. \A k \in 1 .. Count(ring) - 1 : Place(ring', k) = Place(ring, k + 1)
    BY <2>2 DEF Place, RingInv, RingType
  <2>6. Place(ring, 1) = ring.deq
    BY <1>2 DEF Place, RingInv, RingType
  <2>7. Contents(ring) # << >> /\ Head(Contents(ring)) = ring'.seen
    <3>1. Contents(ring) # << >> /\ Head(Contents(ring)) = Contents(ring)[1]
      BY <1>a, <2>3, HeadTailProperties, EmptySeq
    <3> QED BY <1>a, <2>2, <2>3, <2>6, <3>1 DEF Contents
  <2>8. /\ Contents(ring)' = [k \in 1 .. Len(Contents(ring)) - 1 |-> Contents(ring)'[k]]
        /\ \A k \in 1 .. Len(Contents(ring)) - 1 : Contents(ring)'[k] = Contents(ring)[k + 1]
    BY <1>a, <2>2, <2>4, <2>5 DEF Contents
  <2>9. Contents(ring)' = Tail(Contents(ring))
    BY <1>a, <2>7, <2>8, TailOf
  <2> QED BY <2>7, <2>9 DEF TrbsSent!Receive
<1> QED BY <1>1, <1>2 DEF RingInv, RingType

\* A push that has only begun sends nothing yet.
LEMMA BegunKeepsQueue ==
  ASSUME RingInv, NEW x \in Trbs, Push(x)
  PROVE  Contents(ring)' = Contents(ring) /\ ring'.seen = ring.seen
<1> USE RingSizes DEF N
<1>1. ring.write < N /\ Count(ring) < Capacity
  BY DEF Push, RingInv, RingType, StepFits
<1>2. /\ ring'.seen = ring.seen /\ ring'.deq = ring.deq /\ ring'.ccs = ring.ccs
      /\ ring'.high = ring.high /\ ring'.write = ring.write /\ ring'.cycle = ring.cycle
      /\ \A i \in Places : i # ring.write => ring'.low[i] = ring.low[i]
  BY <1>1 DEF RingInv, RingType, Push, BeginPush, CopyLow
<1>3. Count(ring') = Count(ring) /\ \A k \in 1 .. Count(ring) : Place(ring', k) = Place(ring, k)
  BY <1>2 DEF Count, Place
<1>4. \A k \in 1 .. Count(ring) : Place(ring, k) \in 0 .. N - 1
  BY ContentsIs
<1>5. ASSUME NEW k \in 1 .. Count(ring) PROVE Place(ring, k) # ring.write
  BY <1>1 DEF RingInv, RingType, Place, Count, Behind, SameLap
<1> QED BY <1>2, <1>3, <1>4, <1>5 DEF Contents

\* A command or transfer ring whose writer keeps to its room is a queue of whole
\* TRBs, whatever the two sides do in between, in rings of every size
\* (src/usb/xhci/ring.cpp:33-55).
THEOREM RingIsQueue == ASSUME NoLinks PROVE RingSpec => TrbsSent!Spec
<1>1. ring = NewRing => RingInv /\ TrbsSent!Init
  BY RingInitially, InitialQueue
<1>2. RingInv /\ [RingNext]_ring => RingInv'
  BY RingStep
<1>3. RingInv /\ RingInv' /\ [RingNext]_ring => [TrbsSent!Next]_<<Contents(ring), ring.seen>>
  <2> SUFFICES ASSUME RingInv, RingInv', [RingNext]_ring
               PROVE  TrbsSent!Next \/ (Contents(ring)' = Contents(ring) /\ ring'.seen = ring.seen)
    OBVIOUS
  <2>1. CASE UNCHANGED ring
    <3>1. Contents(ring)' = Contents(ring)
      BY <2>1 DEF Contents, Count, Place
    <3> QED BY <2>1, <3>1
  <2>2. CASE GoOn
    <3>1. ring.step \in {"copying", "fullLap", "linking"} /\ ring' = PushStep(ring)
      BY <2>2 DEF GoOn, RingInv, RingType
    <3> QED BY <3>1, CopiedSends, LinkingKeepsQueue DEF TrbsSent!Next
  <2>3. CASE Fetch
    BY <2>3, FetchReceives DEF TrbsSent!Next
  <2>4. ASSUME NEW x \in Trbs, Push(x)
        PROVE  Contents(ring)' = Contents(ring) /\ ring'.seen = ring.seen
    BY <2>4, BegunKeepsQueue
  <2> QED BY <2>1, <2>2, <2>3, <2>4 DEF RingNext
<1> QED BY <1>1, <1>2, <1>3, PTL DEF RingSpec, TrbsSent!Spec

----------------------------------------------------------------------------
(* The event ring.                                                         *)

EventContent == Events \cup {Zero}

EventType ==
  eventRing \in [event : [EventPlaces -> EventContent], bit : [EventPlaces -> {0, 1}],
                enq : EventPlaces, pcs : {0, 1}, erdp : EventPlaces, cycle : {0, 1},
                seen : EventContent]

\* The cycle bits show how far the controller has come in its lap.
EventBits == \A i \in EventPlaces : eventRing.bit[i] = eventRing.pcs <=> i < eventRing.enq

EventSameLap == eventRing.pcs = eventRing.cycle
EventBehind == IF EventSameLap THEN eventRing.erdp <= eventRing.enq
               ELSE eventRing.enq < eventRing.erdp
Unhandled(i) == IF EventSameLap THEN eventRing.erdp <= i /\ i < eventRing.enq
                ELSE eventRing.erdp <= i \/ i < eventRing.enq
EventsThere == \A i \in EventPlaces : Unhandled(i) => eventRing.event[i] \in Events

EventInv == EventType /\ EventBits /\ EventBehind /\ EventsThere

\* What the assumption on the size of the event ring says of its places.
LEMMA EventSizes == EventSize \in Nat /\ EventSize >= 2 /\ EventPlaces = 0 .. EventSize - 1
BY SizeAssumption DEF EventPlaces

\* The empty event ring satisfies its invariant and is an empty queue.
LEMMA EventInitially == eventRing = NewEventRing => EventInv /\ EventsSent!Init
<1> SUFFICES ASSUME eventRing = NewEventRing PROVE EventInv /\ EventsSent!Init
  OBVIOUS
<1>1. EventType
  BY EventSizes DEF EventType, NewEventRing, EventContent
<1>2. EventBits /\ EventBehind /\ EventsThere
  BY EventSizes DEF NewEventRing, EventBits, EventBehind, EventSameLap, EventsThere, Unhandled
<1>3. Pending(eventRing) = << >> /\ eventRing.seen = Zero
  BY DEF NewEventRing, Pending, EventCount
<1> QED BY <1>1, <1>2, <1>3 DEF EventInv, EventsSent!Init

\* What the invariant says of the fields, and what is pending.
LEMMA EventFacts ==
  ASSUME EventInv
  PROVE  /\ eventRing.enq \in 0 .. EventSize - 1 /\ eventRing.erdp \in 0 .. EventSize - 1
         /\ eventRing.pcs \in {0, 1} /\ eventRing.cycle \in {0, 1}
         /\ EventCount(eventRing) \in 0 .. EventSize - 1
         /\ Pending(eventRing) \in Seq(Events)
         /\ Len(Pending(eventRing)) = EventCount(eventRing)
         /\ \A k \in 1 .. EventCount(eventRing) :
              EventPlace(eventRing, k) \in EventPlaces /\ Unhandled(EventPlace(eventRing, k))
<1> USE EventSizes
<1>1. /\ eventRing.enq \in 0 .. EventSize - 1 /\ eventRing.erdp \in 0 .. EventSize - 1
      /\ eventRing.pcs \in {0, 1} /\ eventRing.cycle \in {0, 1}
  BY DEF EventInv, EventType
<1>2. EventCount(eventRing) \in 0 .. EventSize - 1
  BY <1>1 DEF EventInv, EventBehind, EventSameLap, EventCount
<1>3. \A k \in 1 .. EventCount(eventRing) :
        EventPlace(eventRing, k) \in EventPlaces /\ Unhandled(EventPlace(eventRing, k))
  BY SMTT(40), <1>1 DEF EventInv, EventBehind, EventSameLap, EventCount, EventPlace, Unhandled
<1>4. \A k \in 1 .. EventCount(eventRing) : eventRing.event[EventPlace(eventRing, k)] \in Events
  BY <1>3 DEF EventInv, EventsThere
<1> QED BY <1>1, <1>2, <1>3, <1>4 DEF Pending

\* An event that is posted is sent, and the invariant of the event ring stays.
LEMMA PostPreserves ==
  ASSUME EventInv, NEW x \in Events, Post(x)
  PROVE  EventInv' /\ EventsSent!Send(x)
<1> DEFINE c == EventCount(eventRing)
           p == Pending(eventRing)
<1> USE EventSizes
<1>1. /\ eventRing.enq \in 0 .. EventSize - 1 /\ eventRing.erdp \in 0 .. EventSize - 1
      /\ eventRing.pcs \in {0, 1} /\ eventRing.cycle \in {0, 1}
      /\ c \in 0 .. EventSize - 1 /\ p \in Seq(Events) /\ Len(p) = c
      /\ \A k \in 1 .. c : EventPlace(eventRing, k) \in EventPlaces
                           /\ Unhandled(EventPlace(eventRing, k))
  BY EventFacts
<1>2. /\ eventRing'.event = [eventRing.event EXCEPT ![eventRing.enq] = x]
      /\ eventRing'.bit = [eventRing.bit EXCEPT ![eventRing.enq] = eventRing.pcs]
      /\ eventRing'.enq = NextPlace(eventRing.enq)
      /\ eventRing'.pcs = IF eventRing.enq + 1 = EventSize THEN 1 - eventRing.pcs
                          ELSE eventRing.pcs
      /\ eventRing'.erdp = eventRing.erdp /\ eventRing'.cycle = eventRing.cycle
      /\ eventRing'.seen = eventRing.seen
  BY DEF Post, Posted, EventInv, EventType
<1>3. NextPlace(eventRing.enq) # eventRing.erdp /\ NextPlace(eventRing.enq) \in EventPlaces
  BY <1>1 DEF Post, HasRoom, NextPlace
<1>4. EventType'
  <2>1. /\ eventRing'.event \in [EventPlaces -> EventContent]
        /\ eventRing'.bit \in [EventPlaces -> {0, 1}]
        /\ eventRing'.enq \in EventPlaces /\ eventRing'.pcs \in {0, 1}
    BY <1>1, <1>2, <1>3 DEF EventInv, EventType, EventContent
  <2> QED BY <1>2, <2>1 DEF EventInv, EventType, Post, Posted
<1>5. EventBits'
  BY <1>1, <1>2 DEF EventInv, EventType, EventBits, NextPlace
<1>6. EventBehind'
  BY <1>1, <1>2, <1>3 DEF EventInv, EventBehind, EventSameLap, NextPlace
<1>7. EventsThere'
  <2>1. \A i \in EventPlaces : eventRing'.event[i] = IF i = eventRing.enq THEN x ELSE eventRing.event[i]
    BY <1>2 DEF EventInv, EventType
  <2>2. \A i \in EventPlaces : Unhandled(i)' => Unhandled(i) \/ i = eventRing.enq
    BY <1>1, <1>2, <1>3 DEF EventInv, EventBehind, EventSameLap, Unhandled, NextPlace
  <2> QED BY <2>1, <2>2 DEF EventInv, EventsThere
<1>8. EventCount(eventRing') = c + 1 /\ c < EventSize - 1
  <2>1. CASE eventRing.enq + 1 = EventSize
    <3>1. eventRing.pcs = eventRing.cycle /\ eventRing.erdp # 0
      BY <1>1, <1>3, <2>1 DEF EventInv, EventBehind, EventSameLap, NextPlace
    <3>2. eventRing'.enq = 0 /\ eventRing'.pcs # eventRing.cycle
      BY <1>1, <1>2, <2>1, <3>1 DEF NextPlace
    <3> QED BY <1>1, <1>2, <2>1, <3>1, <3>2 DEF EventCount
  <2>2. CASE eventRing.enq + 1 # EventSize
    <3>1. eventRing'.enq = eventRing.enq + 1 /\ eventRing'.pcs = eventRing.pcs
      BY <1>2, <2>2 DEF NextPlace
    <3>2. eventRing.pcs # eventRing.cycle => eventRing.enq + 1 < eventRing.erdp
      BY <1>1, <1>3, <2>2 DEF EventInv, EventBehind, EventSameLap, NextPlace
    <3>3. CASE eventRing.pcs = eventRing.cycle
      BY <1>1, <1>2, <2>2, <3>1, <3>3 DEF EventCount
    <3>4. CASE eventRing.pcs # eventRing.cycle
      BY <1>1, <1>2, <2>2, <3>1, <3>2, <3>4 DEF EventCount
    <3> QED BY <3>3, <3>4
  <2> QED BY <2>1, <2>2
<1>9. Pending(eventRing)' = Append(p, x)
  <2>1. \A k \in 1 .. c + 1 : EventPlace(eventRing', k) = EventPlace(eventRing, k)
    BY <1>2 DEF EventPlace
  <2>2. EventPlace(eventRing, c + 1) = eventRing.enq
    BY SMTT(40), <1>1, <1>8 DEF EventInv, EventBehind, EventSameLap, EventCount, EventPlace
  <2>3. \A k \in 1 .. c : EventPlace(eventRing, k) # eventRing.enq
    BY <1>1 DEF EventInv, EventBehind, EventSameLap, Unhandled
  <2>4. \A k \in 1 .. c : Pending(eventRing)'[k] = p[k]
    BY <1>1, <1>2, <1>8, <2>1, <2>3 DEF Pending, EventInv, EventType
  <2>5. Pending(eventRing)'[c + 1] = x
    BY <1>1, <1>2, <1>8, <2>1, <2>2 DEF Pending, EventInv, EventType
  <2>6. Pending(eventRing)' = [k \in 1 .. Len(p) + 1 |-> Pending(eventRing)'[k]]
    BY <1>1, <1>8 DEF Pending
  <2>7. /\ \A k \in 1 .. Len(p) : Pending(eventRing)'[k] = p[k]
        /\ Pending(eventRing)'[Len(p) + 1] = x
    BY <1>1, <2>4, <2>5
  <2>8. p \in Seq(Events) /\ x \in Events
    BY <1>1
  <2>9. \A t : /\ t = [k \in 1 .. Len(p) + 1 |-> t[k]]
               /\ \A k \in 1 .. Len(p) : t[k] = p[k]
               /\ t[Len(p) + 1] = x
               => t = Append(p, x)
    BY <2>8, Appended
  <2> QED BY <2>6, <2>7, <2>9
<1> QED BY <1>1, <1>2, <1>4, <1>5, <1>6, <1>7, <1>8, <1>9 DEF EventInv, EventsSent!Send

\* The event at the front is the first of those that wait.
LEMMA FrontIsFirst ==
  ASSUME EventInv, HasFront(eventRing)
  PROVE  /\ Pending(eventRing) # << >>
         /\ Head(Pending(eventRing)) = FrontOf(eventRing)
<1> USE EventSizes
<1>1. /\ eventRing.enq \in 0 .. EventSize - 1 /\ eventRing.erdp \in 0 .. EventSize - 1
      /\ eventRing.pcs \in {0, 1} /\ eventRing.cycle \in {0, 1}
      /\ EventCount(eventRing) \in 0 .. EventSize - 1
      /\ Pending(eventRing) \in Seq(Events) /\ Len(Pending(eventRing)) = EventCount(eventRing)
  BY EventFacts
<1>2. EventSameLap <=> eventRing.erdp < eventRing.enq
  BY <1>1 DEF HasFront, EventInv, EventBits, EventBehind, EventSameLap
<1>3. EventCount(eventRing) >= 1
  BY <1>1, <1>2 DEF EventInv, EventBehind, EventSameLap, EventCount
<1>4. EventPlace(eventRing, 1) = eventRing.erdp
  BY <1>1 DEF EventPlace
<1>5. Pending(eventRing)[1] = FrontOf(eventRing)
  BY <1>1, <1>3, <1>4 DEF Pending, FrontOf
<1>6. Pending(eventRing) # << >> /\ Head(Pending(eventRing)) = Pending(eventRing)[1]
  <2> DEFINE p == Pending(eventRing)
  <2>1. p \in Seq(Events) /\ Len(p) >= 1
    BY <1>1, <1>3
  <2> HIDE DEF p
  <2>2. p # << >> /\ Head(p) = p[1]
    BY <2>1
  <2> QED BY <2>2 DEF p
<1> QED BY <1>5, <1>6

\* Pop receives the oldest event, and the invariant of the event ring stays.
LEMMA PopPreserves ==
  ASSUME EventInv, Pop
  PROVE  EventInv' /\ EventsSent!Receive
<1> DEFINE c == EventCount(eventRing)
           p == Pending(eventRing)
<1> USE EventSizes
<1>1. /\ eventRing.enq \in 0 .. EventSize - 1 /\ eventRing.erdp \in 0 .. EventSize - 1
      /\ eventRing.pcs \in {0, 1} /\ eventRing.cycle \in {0, 1}
      /\ c \in 0 .. EventSize - 1 /\ p \in Seq(Events) /\ Len(p) = c
  BY EventFacts
<1>2. /\ eventRing'.event = eventRing.event /\ eventRing'.bit = eventRing.bit
      /\ eventRing'.enq = eventRing.enq /\ eventRing'.pcs = eventRing.pcs
      /\ eventRing'.erdp = NextPlace(eventRing.erdp)
      /\ eventRing'.cycle = IF eventRing.erdp + 1 = EventSize THEN 1 - eventRing.cycle
                            ELSE eventRing.cycle
      /\ eventRing'.seen = eventRing.event[eventRing.erdp]
  BY DEF Pop, Popped, FrontOf, EventInv, EventType
<1>3. Unhandled(eventRing.erdp) /\ NextPlace(eventRing.erdp) \in EventPlaces
  <2>1. EventSameLap <=> eventRing.erdp < eventRing.enq
    BY <1>1 DEF Pop, HasFront, EventInv, EventBits, EventBehind, EventSameLap
  <2> QED BY <1>1, <2>1 DEF Unhandled, NextPlace, EventSameLap
<1>4. EventType'
  <2>1. eventRing'.erdp \in EventPlaces /\ eventRing'.cycle \in {0, 1}
        /\ eventRing'.seen \in EventContent
    BY <1>1, <1>2, <1>3 DEF EventInv, EventType
  <2> QED BY <1>2, <2>1 DEF EventInv, EventType, Pop, Popped
<1>5. EventBits' /\ EventBehind'
  BY <1>1, <1>2, <1>3 DEF EventInv, EventBits, EventBehind, EventSameLap, Unhandled, NextPlace
<1>6. EventsThere'
  <2>1. \A i \in EventPlaces : Unhandled(i)' => Unhandled(i)
    BY <1>1, <1>2, <1>3 DEF EventInv, EventBehind, EventSameLap, Unhandled, NextPlace
  <2> QED BY <1>2, <2>1 DEF EventInv, EventsThere
<1>7. EventCount(eventRing') = c - 1 /\ c >= 1
  BY SMTT(40), <1>1, <1>2, <1>3 DEF EventInv, EventBehind, EventSameLap, EventCount, Unhandled, NextPlace
<1>8. EventPlace(eventRing, 1) = eventRing.erdp
  BY <1>1 DEF EventPlace
<1>9. \A k \in 1 .. c - 1 : EventPlace(eventRing', k) = EventPlace(eventRing, k + 1)
  <2> SUFFICES ASSUME NEW k \in 1 .. c - 1
               PROVE  EventPlace(eventRing', k) = EventPlace(eventRing, k + 1)
    OBVIOUS
  <2>1. k \in Nat /\ k >= 1 /\ k <= EventSize - 2
    BY <1>1
  <2>2. CASE eventRing.erdp + 1 = EventSize
    <3>1. eventRing'.erdp = 0
      BY <1>2, <2>2 DEF NextPlace
    <3>2. EventPlace(eventRing', k) = k - 1
      BY <2>1, <3>1 DEF EventPlace
    <3>3. EventPlace(eventRing, k + 1) = k - 1
      BY <1>1, <2>1, <2>2 DEF EventPlace
    <3> QED BY <3>2, <3>3
  <2>3. CASE eventRing.erdp + 1 # EventSize
    <3>1. eventRing'.erdp = eventRing.erdp + 1
      BY <1>2, <2>3 DEF NextPlace
    <3>2. eventRing.erdp \in Int /\ k \in Int /\ EventSize \in Int
      BY <1>1, <2>1
    <3>3. EventPlace(eventRing', k) = IF eventRing.erdp + k < EventSize THEN eventRing.erdp + k
                                      ELSE eventRing.erdp + k - EventSize
      BY <3>1, <3>2 DEF EventPlace
    <3>4. EventPlace(eventRing, k + 1) = IF eventRing.erdp + k < EventSize THEN eventRing.erdp + k
                                         ELSE eventRing.erdp + k - EventSize
      BY <3>2 DEF EventPlace
    <3> QED BY <3>3, <3>4
  <2> QED BY <2>2, <2>3
<1>10. p # << >> /\ Head(p) = eventRing'.seen
  <2>1. p # << >> /\ Head(p) = p[1]
    BY <1>1, <1>7, HeadTailProperties, EmptySeq
  <2> QED BY <1>1, <1>2, <1>7, <1>8, <2>1 DEF Pending
<1>11. Pending(eventRing)' = Tail(p)
  <2>1. /\ Pending(eventRing)' = [k \in 1 .. Len(p) - 1 |-> Pending(eventRing)'[k]]
        /\ \A k \in 1 .. Len(p) - 1 : Pending(eventRing)'[k] = p[k + 1]
    BY <1>1, <1>2, <1>7, <1>9 DEF Pending
  <2> HIDE DEF p
  <2> QED BY <1>1, <1>10, <2>1, TailOf
<1> QED BY <1>4, <1>5, <1>6, <1>10, <1>11 DEF EventInv, EventsSent!Receive

\* The event ring is a queue of one event less than it has places: no event is lost,
\* handled twice or out of order, in rings of every size (src/usb/xhci/ring.cpp:57-115).
THEOREM EventRingIsQueue == EventSpec => EventsSent!Spec
<1>1. eventRing = NewEventRing => EventInv /\ EventsSent!Init
  BY EventInitially
<1>2. EventInv /\ [EventNext]_eventRing => EventInv'
  <2> SUFFICES ASSUME EventInv, [EventNext]_eventRing PROVE EventInv'
    OBVIOUS
  <2>1. CASE UNCHANGED eventRing
    BY <2>1 DEF EventInv, EventType, EventBits, EventBehind, EventSameLap, EventsThere, Unhandled
  <2> QED BY <2>1, PostPreserves, PopPreserves DEF EventNext
<1>3. EventInv /\ [EventNext]_eventRing
        => [EventsSent!Next]_<<Pending(eventRing), eventRing.seen>>
  <2> SUFFICES ASSUME EventInv, [EventNext]_eventRing
               PROVE  \/ EventsSent!Next
                      \/ Pending(eventRing)' = Pending(eventRing)
                         /\ eventRing'.seen = eventRing.seen
    OBVIOUS
  <2>1. CASE UNCHANGED eventRing
    BY <2>1 DEF Pending, EventCount, EventPlace
  <2> QED BY <2>1, PostPreserves, PopPreserves DEF EventNext, EventsSent!Next
<1> QED BY <1>1, <1>2, <1>3, PTL DEF EventSpec, EventsSent!Spec

============================================================================
