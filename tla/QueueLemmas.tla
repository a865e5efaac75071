---------------------------- MODULE QueueLemmas ----------------------------
(***************************************************************************)
(* Lemmas about queues that the proofs about the kernel's run queues and   *)
(* about the rings and queues of its drivers need: what taking from the    *)
(* front and putting at either end do to the elements of a sequence, and   *)
(* to how many of them are of a kind.                                      *)
(***************************************************************************)
EXTENDS Counting, FiniteSetsExt, SequencesExt, FiniteSetTheorems, SequenceTheorems,
        WellFoundedInduction, TLAPS

\* A sequence is empty exactly if it has no elements.
LEMMA EmptyToSet ==
  ASSUME NEW S, NEW s \in Seq(S)
  PROVE  s = << >> <=> ToSet(s) = {}
BY EmptySeq, LenProperties DEF ToSet

\* The front of a queue is one of its elements, of the type of the elements.
LEMMA HeadInSet ==
  ASSUME NEW S, NEW s \in Seq(S), s # << >>
  PROVE  Head(s) \in ToSet(s) /\ ToSet(s) \subseteq S
BY HeadTailProperties, EmptySeq, LenProperties DEF ToSet

\* pop_front takes exactly the front out of a queue without duplicates.
LEMMA TailOfQueue ==
  ASSUME NEW S, NEW s \in Seq(S), s # << >>, IsInjective(s)
  PROVE  /\ Tail(s) \in Seq(S)
         /\ ToSet(Tail(s)) = ToSet(s) \ {Head(s)}
         /\ IsInjective(Tail(s))
<1>1. /\ Tail(s) \in Seq(S)
      /\ Len(Tail(s)) = Len(s) - 1
      /\ \A i \in 1 .. Len(Tail(s)) : Tail(s)[i] = s[i + 1]
      /\ Head(s) = s[1]
  BY HeadTailProperties
<1>2. /\ DOMAIN Tail(s) = 1 .. (Len(s) - 1)
      /\ DOMAIN s = 1 .. Len(s)
      /\ Len(s) \in Nat \ {0}
  BY <1>1, LenProperties, EmptySeq
<1>3. \A i \in 1 .. (Len(s) - 1) : Tail(s)[i] = s[i + 1]
  BY <1>1
<1>4. \A i, j \in DOMAIN s : s[i] = s[j] => i = j
  BY DEF IsInjective
<1>5. IsInjective(Tail(s))
  BY <1>2, <1>3, <1>4 DEF IsInjective
<1>6. ToSet(Tail(s)) \subseteq ToSet(s) \ {Head(s)}
  BY <1>1, <1>2, <1>3, <1>4 DEF ToSet
<1>7. ASSUME NEW x \in ToSet(s), x # Head(s) PROVE x \in ToSet(Tail(s))
  <2>1. PICK i \in DOMAIN s : s[i] = x
    BY DEF ToSet
  <2>2. i # 1 /\ i - 1 \in DOMAIN Tail(s)
    BY <1>1, <1>2, <1>7, <2>1
  <2> QED
    BY <1>2, <1>3, <2>1, <2>2 DEF ToSet
<1> QED
  BY <1>1, <1>5, <1>6, <1>7

\* push_back adds an element, and no duplicate if it was not there.
LEMMA AppendToQueue ==
  ASSUME NEW S, NEW s \in Seq(S), NEW x \in S
  PROVE  /\ Append(s, x) \in Seq(S)
         /\ Append(s, x) # << >>
         /\ ToSet(Append(s, x)) = ToSet(s) \cup {x}
         /\ IsInjective(s) /\ x \notin ToSet(s) => IsInjective(Append(s, x))
         /\ s # << >> => Head(Append(s, x)) = Head(s)
<1>1. /\ Append(s, x) \in Seq(S)
      /\ Append(s, x) # << >>
      /\ Len(Append(s, x)) = Len(s) + 1
      /\ \A i \in 1 .. Len(s) : Append(s, x)[i] = s[i]
      /\ Append(s, x)[Len(s) + 1] = x
  BY AppendProperties
<1>2. /\ DOMAIN s = 1 .. Len(s) /\ Len(s) \in Nat
      /\ DOMAIN Append(s, x) = 1 .. (Len(s) + 1)
  BY <1>1, LenProperties
<1>3. ToSet(Append(s, x)) = ToSet(s) \cup {x}
  BY <1>1, <1>2 DEF ToSet
<1>4. ASSUME IsInjective(s), x \notin ToSet(s) PROVE IsInjective(Append(s, x))
  BY <1>1, <1>2, <1>4 DEF IsInjective, ToSet
<1>5. s # << >> => Head(Append(s, x)) = Head(s)
  BY HeadTailAppend
<1> QED
  BY <1>1, <1>3, <1>4, <1>5

\* push_front, likewise; the element is the new front.
LEMMA PushFrontOfQueue ==
  ASSUME NEW S, NEW s \in Seq(S), NEW x \in S
  PROVE  /\ <<x>> \o s \in Seq(S)
         /\ <<x>> \o s # << >>
         /\ Head(<<x>> \o s) = x
         /\ ToSet(<<x>> \o s) = ToSet(s) \cup {x}
         /\ IsInjective(s) /\ x \notin ToSet(s) => IsInjective(<<x>> \o s)
<1> DEFINE q == <<x>> \o s
<1>1. <<x>> \in Seq(S) /\ Len(<<x>>) = 1 /\ <<x>>[1] = x
  OBVIOUS
<1>2. /\ q \in Seq(S)
      /\ Len(q) = Len(s) + 1
      /\ \A i \in 1 .. Len(q) : q[i] = IF i = 1 THEN x ELSE s[i - 1]
  BY <1>1, ConcatProperties, LenProperties
<1>3. /\ DOMAIN s = 1 .. Len(s) /\ Len(s) \in Nat
      /\ DOMAIN q = 1 .. (Len(s) + 1)
  BY <1>2, LenProperties
<1>4. q # << >>
  BY <1>2, <1>3, EmptySeq
<1>5. Head(q) = x
  BY <1>2, <1>3, <1>4, HeadTailProperties
<1>6. ToSet(q) = ToSet(s) \cup {x}
  <2>1. ToSet(q) \subseteq ToSet(s) \cup {x}
    BY <1>2, <1>3 DEF ToSet
  <2>2. ASSUME NEW y \in ToSet(s) PROVE y \in ToSet(q)
    <3>1. PICK i \in DOMAIN s : s[i] = y
      BY DEF ToSet
    <3>2. i + 1 \in DOMAIN q /\ q[i + 1] = y
      BY <1>2, <1>3, <3>1
    <3> QED
      BY <3>2 DEF ToSet
  <2>3. x \in ToSet(q)
    BY <1>2, <1>3 DEF ToSet
  <2> QED
    BY <2>1, <2>2, <2>3
<1>7. ASSUME IsInjective(s), x \notin ToSet(s) PROVE IsInjective(q)
  BY <1>2, <1>3, <1>7 DEF IsInjective, ToSet
<1> QED
  BY <1>2, <1>4, <1>5, <1>6, <1>7

\* A stretch of a sequence, of the same type.
LEMMA StretchOfQueue ==
  ASSUME NEW S, NEW s \in Seq(S), NEW a \in Nat, NEW b \in Nat,
         1 <= a, b <= Len(s), a <= b + 1
  PROVE  /\ SubSeq(s, a, b) \in Seq(S)
         /\ Len(SubSeq(s, a, b)) = b - a + 1
         /\ \A i \in 1 .. b - a + 1 : SubSeq(s, a, b)[i] = s[a + i - 1]
<1>1. \A i \in a .. b : s[i] \in S
  BY ElementOfSeq, LenProperties
<1>2. a \in Int /\ b \in Int
  OBVIOUS
<1>3. /\ SubSeq(s, a, b) \in Seq(S)
      /\ Len(SubSeq(s, a, b)) = IF a <= b THEN b - a + 1 ELSE 0
      /\ \A i \in 1 .. b - a + 1 : SubSeq(s, a, b)[i] = s[a + i - 1]
  BY <1>1, <1>2, SubSeqProperties
<1> QED
  BY <1>3

\* The least element of a set of naturals that is not empty.
LEMMA LeastExists ==
  ASSUME NEW S \in SUBSET Nat, S # {}
  PROVE  Min(S) \in S /\ \A x \in S : Min(S) <= x
<1> DEFINE R == {p \in Nat \X Nat : p[1] < p[2]}
<1>1. IsWellFoundedOn(R, Nat)
  BY NatLessThanWellFounded DEF OpToRel
<1>2. PICK m \in S : \A y \in S : ~ (<<y, m>> \in R)
  <2> HIDE DEF R
  <2> QED BY <1>1, WFMin
<1>3. \A y \in S : m <= y
  <2> SUFFICES ASSUME NEW y \in S, y < m PROVE FALSE
    OBVIOUS
  <2>1. <<y, m>> \in R
    OBVIOUS
  <2> QED BY <1>2, <2>1
<1> QED
  BY <1>3 DEF Min

----------------------------------------------------------------------------
(* How many elements are of a kind.                                        *)

\* The positions of a sequence are finitely many.
LEMMA CountType ==
  ASSUME NEW A, NEW q \in Seq(A), NEW S
  PROVE  /\ IsFiniteSet(Positions(q, S))
         /\ CountIn(q, S) \in Nat
         /\ CountIn(q, S) = 0 <=> ToSet(q) \cap S = {}
<1> DEFINE P == Positions(q, S)
<1>1. DOMAIN q = 1 .. Len(q) /\ Len(q) \in Nat
  BY LenProperties
<1>2. IsFiniteSet(1 .. Len(q))
  BY <1>1, FS_Interval
<1>3. IsFiniteSet(P) /\ CountIn(q, S) = Cardinality(P)
  BY <1>1, <1>2, FS_Subset DEF CountIn, Positions
<1>4. P = {} <=> ToSet(q) \cap S = {}
  BY DEF ToSet, Positions
<1> QED
  BY <1>3, <1>4, FS_CardinalityType, FS_EmptySet

\* An empty queue has none.
LEMMA CountEmpty ==
  ASSUME NEW S
  PROVE  CountIn(<< >>, S) = 0
<1>1. << >> \in Seq({}) /\ ToSet(<< >>) = {}
  BY DEF ToSet
<1> QED
  BY <1>1, CountType

\* push_back adds one if the element is of the kind.
LEMMA CountAppend ==
  ASSUME NEW A, NEW q \in Seq(A), NEW x \in A, NEW S
  PROVE  /\ CountIn(q, S) \in Nat
         /\ CountIn(Append(q, x), S) = IF x \in S THEN CountIn(q, S) + 1 ELSE CountIn(q, S)
<1> DEFINE n == Len(q) + 1
           P == Positions(q, S)
           Q == Positions(Append(q, x), S)
<1>1. /\ Append(q, x) \in Seq(A)
      /\ Len(Append(q, x)) = Len(q) + 1
      /\ \A i \in 1 .. Len(q) : Append(q, x)[i] = q[i]
      /\ Append(q, x)[Len(q) + 1] = x
  BY AppendProperties
<1>2. /\ DOMAIN q = 1 .. Len(q) /\ Len(q) \in Nat
      /\ DOMAIN Append(q, x) = 1 .. (Len(q) + 1)
  BY <1>1, LenProperties
<1>3. Q = IF x \in S THEN P \cup {n} ELSE P
  BY <1>1, <1>2 DEF Positions
<1>4. n \notin P
  BY <1>2 DEF Positions
<1>5. IsFiniteSet(P) /\ Cardinality(P) \in Nat
  BY CountType DEF CountIn
<1>6. Cardinality(P \cup {n}) = Cardinality(P) + 1
  BY <1>4, <1>5, FS_AddElement
<1> HIDE DEF P, Q
<1>7. Cardinality(Q) = IF x \in S THEN Cardinality(P) + 1 ELSE Cardinality(P)
  BY <1>3, <1>6
<1> QED
  BY <1>5, <1>7 DEF CountIn, P, Q

\* pop_front takes one away if the front was of the kind.
LEMMA CountTail ==
  ASSUME NEW A, NEW q \in Seq(A), q # << >>, NEW S
  PROVE  /\ Tail(q) \in Seq(A) /\ CountIn(Tail(q), S) \in Nat
         /\ CountIn(q, S) = IF Head(q) \in S THEN CountIn(Tail(q), S) + 1 ELSE CountIn(Tail(q), S)
<1> DEFINE P == Positions(q, S)
           Q == Positions(Tail(q), S)
           R == P \ {1}
           f == [i \in Q |-> i + 1]
<1>1. /\ Tail(q) \in Seq(A)
      /\ Len(Tail(q)) = Len(q) - 1
      /\ \A i \in 1 .. Len(Tail(q)) : Tail(q)[i] = q[i + 1]
      /\ Head(q) = q[1]
  BY HeadTailProperties
<1>2. /\ DOMAIN q = 1 .. Len(q) /\ Len(q) \in Nat \ {0}
      /\ DOMAIN Tail(q) = 1 .. (Len(q) - 1)
  BY <1>1, LenProperties, EmptySeq
<1>3. \A i \in 1 .. Len(q) - 1 : Tail(q)[i] = q[i + 1]
  BY <1>1
<1>4. Q \subseteq Nat /\ R \subseteq Nat
  BY <1>2 DEF Positions
<1>5. \A i \in Q : i + 1 \in R
  BY <1>2, <1>3 DEF Positions
<1>6. \A j \in R : j - 1 \in Q
  <2> SUFFICES ASSUME NEW j \in R PROVE j - 1 \in Q
    OBVIOUS
  <2>1. j \in 2 .. Len(q) /\ q[j] \in S
    BY <1>2 DEF Positions
  <2>2. j - 1 \in 1 .. Len(q) - 1 /\ (j - 1) + 1 = j
    BY <1>2, <2>1
  <2> QED BY <1>2, <1>3, <2>1, <2>2 DEF Positions
<1>7. f \in Bijection(Q, R)
  <2> HIDE DEF Q, R
  <2>1. f \in [Q -> R]
    BY <1>5
  <2>2. \A i, j \in Q : f[i] = f[j] => i = j
    BY <1>4
  <2>3. \A j \in R : \E i \in Q : f[i] = j
    <3> SUFFICES ASSUME NEW j \in R PROVE \E i \in Q : f[i] = j
      OBVIOUS
    <3>1. j - 1 \in Q /\ f[j - 1] = j
      BY <1>4, <1>6
    <3> QED BY <3>1
  <2> HIDE DEF f
  <2> QED BY <2>1, <2>2, <2>3 DEF Bijection, Injection, Surjection, IsInjective
<1>8. IsFiniteSet(Q) /\ Cardinality(Q) \in Nat /\ IsFiniteSet(P)
  <2>1. IsFiniteSet(P)
    BY CountType
  <2>2. IsFiniteSet(Q) /\ CountIn(Tail(q), S) \in Nat
    BY <1>1, CountType
  <2> QED BY <2>1, <2>2 DEF CountIn
<1>9. Cardinality(R) = Cardinality(Q)
  <2> HIDE DEF f, Q, R
  <2> QED BY <1>7, <1>8, FS_Bijection DEF ExistsBijection
<1>10. 1 \in P <=> Head(q) \in S
  BY <1>1, <1>2 DEF Positions
<1>11. Cardinality(R) = IF 1 \in P THEN Cardinality(P) - 1 ELSE Cardinality(P)
  <2> HIDE DEF P
  <2> QED BY <1>8, FS_RemoveElement
<1>12. Cardinality(P) \in Nat
  BY <1>8, FS_CardinalityType
<1> HIDE DEF P, Q, R
<1>13. Cardinality(P) = IF Head(q) \in S THEN Cardinality(Q) + 1 ELSE Cardinality(Q)
  BY <1>8, <1>9, <1>10, <1>11, <1>12
<1> QED
  BY <1>1, <1>8, <1>13 DEF P, Q, CountIn


----------------------------------------------------------------------------
(* Sequences made of sets.                                                 *)

\* A finite set has a sequence of its elements.
LEMMA SetToSeqType ==
  ASSUME NEW S, IsFiniteSet(S)
  PROVE  SetToSeq(S) \in Seq(S)
<1>1. Cardinality(S) \in Nat /\ ExistsBijection(1 .. Cardinality(S), S)
  BY FS_CardinalityType
<1>2. \E f \in [1 .. Cardinality(S) -> S] : IsInjective(f)
  BY <1>1 DEF ExistsBijection, Bijection, Injection
<1>3. SetToSeq(S) \in [1 .. Cardinality(S) -> S]
  BY <1>2 DEF SetToSeq
<1> QED
  BY <1>1, <1>3

\* What is left of a stretch when its first element has been gone through, and when the
\* queue grows; and the whole of a queue is such a stretch.
LEMMA StretchMoves ==
  ASSUME NEW S, NEW s \in Seq(S), NEW a \in Nat, 1 <= a, a <= Len(s) + 1
  PROVE  /\ SubSeq(s, a, Len(s)) \in Seq(S)
         /\ a <= Len(s) => /\ SubSeq(s, a, Len(s)) # << >>
                           /\ Head(SubSeq(s, a, Len(s))) = s[a]
                           /\ Tail(SubSeq(s, a, Len(s))) = SubSeq(s, a + 1, Len(s))
         /\ \A x \in S : SubSeq(Append(s, x), a, Len(Append(s, x)))
                           = Append(SubSeq(s, a, Len(s)), x)
         /\ SubSeq(s, 1, Len(s)) = s
<1>0. Len(s) \in Nat
  BY LenProperties
<1> DEFINE n == Len(s)
           r == SubSeq(s, a, n)
<1>1. /\ r \in Seq(S) /\ Len(r) = n - a + 1
      /\ \A i \in 1 .. n - a + 1 : r[i] = s[a + i - 1]
  BY <1>0, StretchOfQueue
<1>2. ASSUME a <= n
      PROVE  r # << >> /\ Head(r) = s[a] /\ Tail(r) = SubSeq(s, a + 1, n)
  <2> DEFINE t == SubSeq(s, a + 1, n)
  <2>1. /\ t \in Seq(S) /\ Len(t) = n - a
        /\ \A i \in 1 .. n - a : t[i] = s[a + i]
    <3>1. a + 1 \in Nat /\ 1 <= a + 1 /\ a + 1 <= n + 1
      BY <1>0, <1>2
    <3>2. /\ t \in Seq(S) /\ Len(t) = n - (a + 1) + 1
          /\ \A i \in 1 .. n - (a + 1) + 1 : t[i] = s[(a + 1) + i - 1]
      BY <1>0, <3>1, StretchOfQueue
    <3> HIDE DEF t
    <3> QED BY <1>0, <3>2
  <2> HIDE DEF r, t
  <2>2. r # << >>
    BY <1>0, <1>1, <1>2, EmptySeq
  <2>3. /\ Head(r) = r[1] /\ Tail(r) \in Seq(S) /\ Len(Tail(r)) = Len(r) - 1
        /\ \A i \in 1 .. Len(Tail(r)) : Tail(r)[i] = r[i + 1]
    BY <1>1, <2>2, HeadTailProperties
  <2>4. Head(r) = s[a]
    BY <1>0, <1>1, <1>2, <2>3
  <2>5. Len(Tail(r)) = n - a
    BY <1>0, <1>1, <2>3
  <2>6. \A i \in 1 .. n - a : Tail(r)[i] = t[i]
    BY <1>0, <1>1, <2>1, <2>3, <2>5
  <2> DEFINE u == Tail(r)
  <2>7. u \in Seq(S) /\ Len(u) = n - a /\ \A i \in 1 .. n - a : u[i] = t[i]
    BY <2>3, <2>5, <2>6
  <2> HIDE DEF u
  <2>8. u = t
    BY <1>0, <2>1, <2>7, SeqEqual
  <2> QED BY <2>2, <2>4, <2>8 DEF t, u
<1>3. ASSUME NEW x \in S
      PROVE  SubSeq(Append(s, x), a, Len(Append(s, x))) = Append(r, x)
  <2> DEFINE q == Append(s, x)
  <2>1. /\ q \in Seq(S) /\ Len(q) = n + 1 /\ q[n + 1] = x
        /\ \A i \in 1 .. n : q[i] = s[i]
    BY AppendProperties
  <2> HIDE DEF q, r
  <2> DEFINE t == SubSeq(q, a, Len(q))
             u == Append(r, x)
  <2>2. /\ t \in Seq(S) /\ Len(t) = Len(q) - a + 1
        /\ \A i \in 1 .. Len(q) - a + 1 : t[i] = q[a + i - 1]
    <3>1. Len(q) \in Nat /\ a <= Len(q) + 1
      BY <1>0, <2>1
    <3> QED BY <2>1, <3>1, StretchOfQueue
  <2>3. /\ u \in Seq(S) /\ Len(u) = Len(r) + 1 /\ u[Len(r) + 1] = x
        /\ \A i \in 1 .. Len(r) : u[i] = r[i]
    <3>1. r \in Seq(S)
      BY <1>1
    <3> QED BY <3>1, AppendProperties
  <2> HIDE DEF t, u
  <2>4. Len(t) = n - a + 2 /\ Len(u) = n - a + 2
    BY <1>0, <1>1, <2>1, <2>2, <2>3
  <2>5. ASSUME NEW i \in 1 .. n - a + 2 PROVE t[i] = u[i]
    <3>1. t[i] = q[a + i - 1]
      BY <1>0, <2>1, <2>2
    <3>2. CASE i = n - a + 2
      BY <1>0, <1>1, <2>1, <2>3, <3>1, <3>2
    <3>3. CASE i # n - a + 2
      <4>1. i \in 1 .. n - a + 1 /\ a + i - 1 \in 1 .. n
        BY <1>0, <3>3
      <4> QED BY <1>1, <2>1, <2>3, <3>1, <4>1
    <3> QED BY <3>2, <3>3
  <2>6. t = u
    BY <1>0, <2>2, <2>3, <2>4, <2>5, SeqEqual
  <2> QED BY <2>6 DEF t, u, q
<1>4. SubSeq(s, 1, n) = s
  <2> DEFINE t == SubSeq(s, 1, n)
  <2>1. /\ t \in Seq(S) /\ Len(t) = n - 1 + 1
        /\ \A i \in 1 .. n - 1 + 1 : t[i] = s[1 + i - 1]
    BY <1>0, StretchOfQueue
  <2> HIDE DEF t
  <2>2. t = s
    <3>1. Len(t) = Len(s) /\ \A i \in 1 .. Len(s) : t[i] = s[i]
      BY <1>0, <2>1
    <3> QED BY <2>1, <3>1, SeqEqual
  <2> QED BY <2>2 DEF t
<1> QED BY <1>1, <1>2, <1>3, <1>4

\* A bounded set of numbers has a greatest one.
LEMMA GreatestExists ==
  ASSUME NEW S \in SUBSET Nat, S # {}, NEW bound \in Nat, \A x \in S : x <= bound
  PROVE  \E m \in S : \A x \in S : x <= m
<1> DEFINE B == {b \in Nat : \A x \in S : x <= b}
<1>1. B \in SUBSET Nat /\ B # {}
  BY DEF B
<1>2. Min(B) \in B /\ \A b \in B : Min(B) <= b
  <2> HIDE DEF B
  <2> QED BY <1>1, LeastExists
<1> DEFINE m == Min(B)
<1>3. m \in Nat /\ \A x \in S : x <= m
  BY <1>2
<1>4. \A b \in Nat : (\A x \in S : x <= b) => m <= b
  BY <1>2
<1> HIDE DEF m, B
<1>5. m \in S
  <2> SUFFICES ASSUME m \notin S PROVE FALSE
    OBVIOUS
  <2>1. ASSUME NEW x \in S PROVE x \in Nat /\ x < m
    <3>1. x \in Nat /\ x <= m /\ x # m
      BY <1>3
    <3> QED BY <1>3, <3>1
  <2>2. m - 1 \in Nat /\ \A x \in S : x <= m - 1
    <3>1. PICK y \in S : TRUE
      OBVIOUS
    <3>2. y \in Nat /\ y < m
      BY <2>1
    <3>3. m - 1 \in Nat
      BY <1>3, <3>2
    <3>4. ASSUME NEW x \in S PROVE x <= m - 1
      BY <1>3, <2>1
    <3> QED BY <3>3, <3>4
  <2> QED BY <1>3, <1>4, <2>2
<1> QED BY <1>3, <1>5

\* A bounded set of numbers can be listed in increasing order.
LEMMA IncreasingExists ==
  ASSUME NEW T \in SUBSET Nat, NEW bound \in Nat, \A x \in T : x <= bound
  PROVE  \E s \in [1 .. Cardinality(T) -> T] : \A i, j \in DOMAIN s : i < j => s[i] < s[j]
<1> DEFINE Listed(U) == \E s \in [1 .. Cardinality(U) -> U] :
                          \A i, j \in DOMAIN s : i < j => s[i] < s[j]
           Bad == {n \in Nat : \E U \in SUBSET T : Cardinality(U) = n /\ ~Listed(U)}
<1>1. \A U \in SUBSET T : IsFiniteSet(U) /\ Cardinality(U) \in Nat /\ U \in SUBSET Nat
  BY FS_BoundedSetOfNaturals, FS_CardinalityType
<1>2. Bad = {}
  <2> SUFFICES ASSUME Bad # {} PROVE FALSE
    OBVIOUS
  <2>1. Bad \in SUBSET Nat
    OBVIOUS
  <2>2. Min(Bad) \in Bad /\ \A n \in Bad : Min(Bad) <= n
    <3> HIDE DEF Bad
    <3> QED BY <2>1, LeastExists
  <2>3. PICK U \in SUBSET T : Cardinality(U) = Min(Bad) /\ ~Listed(U)
    BY <2>2
  <2>4. \A V \in SUBSET T : Cardinality(V) < Cardinality(U) => Listed(V)
    <3> SUFFICES ASSUME NEW V \in SUBSET T, Cardinality(V) < Cardinality(U), ~Listed(V)
                 PROVE  FALSE
      OBVIOUS
    <3>1. Cardinality(V) \in Nat /\ Cardinality(U) \in Nat
      BY <1>1
    <3>2. Cardinality(V) \in Bad
      BY <3>1 DEF Bad
    <3> HIDE DEF Bad, Listed
    <3> QED BY <2>2, <2>3, <3>1, <3>2
  <2> HIDE DEF Bad
  <2>5. IsFiniteSet(U) /\ Cardinality(U) \in Nat /\ U \in SUBSET Nat
    BY <1>1
  <2>6. CASE U = {}
    <3>1. Cardinality(U) = 0
      BY <2>6, FS_EmptySet
    <3> DEFINE e == [i \in 1 .. 0 |-> 0]
    <3>2. e \in [1 .. Cardinality(U) -> U] /\ DOMAIN e = {}
      BY <3>1
    <3> QED BY <2>3, <3>2
  <2>7. CASE U # {}
    <3>1. \A x \in U : x <= bound
      OBVIOUS
    <3>2. PICK m \in U : \A x \in U : x <= m
      BY <2>5, <2>7, <3>1, GreatestExists
    <3> DEFINE V == U \ {m}
               n == Cardinality(U)
    <3>3. V \in SUBSET T /\ Cardinality(V) = n - 1 /\ n \in Nat
      BY <2>5, FS_RemoveElement
    <3>4. Listed(V)
      <4> HIDE DEF V, Listed
      <4> QED BY <2>4, <3>3
    <3>5. PICK s \in [1 .. n - 1 -> V] : \A i, j \in 1 .. n - 1 : i < j => s[i] < s[j]
      <4>1. PICK s \in [1 .. Cardinality(V) -> V] :
                   \A i, j \in DOMAIN s : i < j => s[i] < s[j]
        BY <3>4
      <4>2. s \in [1 .. n - 1 -> V] /\ DOMAIN s = 1 .. n - 1
        BY <3>3, <4>1
      <4> QED BY <4>1, <4>2
    <3> DEFINE t == [i \in 1 .. n |-> IF i < n THEN s[i] ELSE m]
    <3>6. \A i \in 1 .. n - 1 : s[i] \in U /\ s[i] \in Nat /\ s[i] < m
      <4>1. ASSUME NEW i \in 1 .. n - 1 PROVE s[i] \in U /\ s[i] \in Nat /\ s[i] < m
        <5>1. s[i] \in V
          BY <3>5
        <5>2. s[i] \in U /\ s[i] # m /\ s[i] \in Nat /\ m \in Nat /\ s[i] <= m
          BY <2>5, <3>2, <5>1
        <5> QED BY <5>2
      <4> QED BY <4>1
    <3>7. t \in [1 .. n -> U] /\ DOMAIN t = 1 .. n
      BY <3>2, <3>3, <3>6
    <3>8. \A i, j \in 1 .. n : i < j => t[i] < t[j]
      <4> SUFFICES ASSUME NEW i \in 1 .. n, NEW j \in 1 .. n, i < j PROVE t[i] < t[j]
        OBVIOUS
      <4>1. i \in 1 .. n - 1 /\ t[i] = s[i] /\ n \in Nat
        BY <3>3
      <4>2. CASE j < n
        <5>1. j \in 1 .. n - 1 /\ t[j] = s[j]
          BY <3>3, <4>2
        <5> QED BY <3>5, <4>1, <5>1
      <4>3. CASE ~(j < n)
        BY <3>6, <4>1, <4>3
      <4> QED BY <4>2, <4>3
    <3> HIDE DEF t, n
    <3>9. Listed(U)
      BY <3>7, <3>8 DEF n
    <3> QED BY <2>3, <3>9
  <2> QED BY <2>6, <2>7
<1>3. T \in SUBSET T /\ Cardinality(T) \in Nat
  BY <1>1
<1>4. Listed(T)
  <2> SUFFICES ASSUME ~Listed(T) PROVE FALSE
    OBVIOUS
  <2> HIDE DEF Listed
  <2>1. Cardinality(T) \in Bad
    BY <1>3
  <2> QED BY <1>2, <2>1
<1> QED BY <1>4
============================================================================
