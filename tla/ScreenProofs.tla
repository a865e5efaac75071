---------------------------- MODULE ScreenProofs ----------------------------
(***************************************************************************)
(* Theorems about what is seen: the layers of the screen, and the line     *)
(* editor of the terminal.                                                 *)
(***************************************************************************)
EXTENDS Layers, Terminal, QueueLemmas

----------------------------------------------------------------------------
(* The layers.                                                             *)

\* The cells of the screen that a layer covers, and what the screen should show.
Covered(d, id) == PaintedCells(d, id, ScreenCells)
Full(d, c) == Painted(d, d.stack, ScreenCells)[c]

\* A cell is up to date in both buffers.
Fresh(d, c) == d.back[c] = Full(d, c) /\ d.screen[c] = Full(d, c)

\* From d to e nothing is lost at a cell: the same layer is to be seen there, and what
\* was up to date still is.
Kept(d, e, c) == /\ Full(e, c)[1] = Full(d, c)[1]
                 /\ d.back[c] = Full(d, c) => e.back[c] = Full(e, c)
                 /\ Fresh(d, c) => Fresh(e, c)

\* A layer is in the stack at most once, the background is in it, and the mouse, if
\* it is there, is the last.
DeskOK(d) ==
  /\ d = [stack |-> d.stack, pos |-> d.pos, lit |-> d.lit, active |-> d.active,
          back |-> d.back, screen |-> d.screen]
  /\ d.stack \in Seq(Layer) /\ d.pos \in [Layer -> Int] /\ d.lit \in [Draggable -> BOOLEAN]
  /\ d.active \in Draggable \cup {NoLayer}
  /\ IsInjective(d.stack)
  /\ Shows(d, Background) /\ d.pos[Background] = 0
  /\ \A i \in DOMAIN d.stack : d.stack[i] = Mouse => i = Len(d.stack)

\* The stack as it is after the start, without the layers of a set.
StackOK(d, absent) ==
  /\ Len(d.stack) >= 3 /\ d.stack[1] = Background /\ d.stack[2] = ConsoleLayer
  /\ d.stack[Len(d.stack)] = Mouse
  /\ \A id \in Layer : Shows(d, id) <=> id \notin absent

\* The terminal before its start, and the layer that has been erased and is inserted next.
Absent ==
  {id \in Layer : (id = TerminalWindow /\ ~started) \/ (stage = "insert" /\ id = job.to)}

ActiveOK(d) ==
  /\ d.active # NoLayer =>
       \E i \in DOMAIN d.stack : /\ d.stack[i] = d.active
                                 /\ i >= Len(d.stack) - (IF d.active = TerminalWindow THEN 2 ELSE 1)
  /\ \A id \in Draggable : d.lit[id] <=> d.active = id

\* In the middle of Activate, first no title is lit, and then that of the layer which is
\* on its way to its place below the mouse.
ActiveAt(d, label, to, by) ==
  /\ label = "raise" => \A id \in Draggable : ~d.lit[id]
  /\ label \in {"updown", "insert"} =>
       d.active = to /\ \A id \in Draggable : d.lit[id] <=> to = id
  /\ label = "insert" => by = Len(d.stack)
  /\ label \notin {"raise", "updown", "insert"} => ActiveOK(d)

\* The cells that a loop of Draw draws and copies.
RepaintedBy(d, w) ==
  {c \in ScreenCells \cap w.area :
     \E i \in w.from .. Len(d.stack) : c \in PaintedCells(d, d.stack[i], w.area)}

\* In the loop, the back buffer is up to date in these cells wherever the layer to be
\* seen has been drawn.
DrawOK(d, w) ==
  \/ w = NoDraw
  \/ /\ w = [from |-> w.from, next |-> w.next, area |-> w.area]
     /\ w.from \in Nat \ {0} /\ w.next \in w.from .. Len(d.stack) + 1
     /\ \A c \in RepaintedBy(d, w), i \in 1 .. w.next - 1 :
          d.stack[i] = Full(d, c)[1] => d.back[c] = Full(d, c)

\* The parts of Stale that are not about the drawing of the AHCI task.
Waiting ==
  UNION {IF mouseSeen THEN {} ELSE {desk.pos[Mouse]},
         IF asked > 0 THEN Area(desk, TerminalWindow) \ {desk.pos[TerminalWindow]} ELSE {}}
Open == UNION {Repainted, ToDraw, Waiting}

\* While the AHCI task draws and the stack stays as it is, the back buffer is up to
\* date in the console's area wherever the layer to be seen has been drawn, but for
\* what others are about to draw.
LogOK ==
  log.next # 0 =>
    /\ log.next >= 3 => log.found
    /\ ~raced =>
         /\ log.end = Len(desk.stack)
         /\ \A c \in (ScreenCells \cap Area(desk, ConsoleLayer)) \ Open, i \in 1 .. log.next - 1 :
              desk.stack[i] = Full(desk, c)[1] => desk.back[c] = Full(desk, c)

Ends == {"top", "events", "sti"}
Jobs == [id : Layer \cup {NoLayer}, then : Ends \cup {"drag", "activate"},
         to : Draggable \cup {NoLayer}, by : Int, end : Ends]

LayersType ==
  /\ drag \in Draggable \cup {NoLayer}
  /\ drag = TerminalWindow => started
  /\ started \in BOOLEAN /\ pressed \in BOOLEAN /\ raced \in BOOLEAN /\ mouseSeen \in BOOLEAN
  /\ keys \in Nat /\ asked \in Nat
  /\ keys > 0 \/ asked > 0 => started
  /\ log \in [next : Nat, end : Nat, found : BOOLEAN]

\* What there is to do is there where it is needed.
JobOK ==
  /\ stage \in Ends \cup {"wait", "moved", "drag", "activate", "raise", "updown", "insert"}
  /\ job \in Jobs
  /\ stage = "moved" => job.id \in Layer
  /\ stage = "drag" \/ (stage = "moved" /\ job.then = "drag") => drag \in Draggable
  /\ stage \in {"updown", "insert"} => job.to \in Draggable /\ draw = NoDraw

LayersInv ==
  /\ DeskOK(desk) /\ StackOK(desk, Absent) /\ ActiveAt(desk, stage, job.to, job.by)
  /\ desk.pos[Mouse] \in ScreenCells /\ LayersType /\ JobOK /\ DrawOK(desk, draw)
  /\ \A c \in ScreenCells \ Stale : Fresh(desk, c)
  /\ LogOK

\* The highest layer in the stack that covers a cell.
IsTop(d, c, l) ==
  \E i \in DOMAIN d.stack :
    /\ d.stack[i] = l /\ c \in Covered(d, l)
    /\ \A j \in DOMAIN d.stack : c \in Covered(d, d.stack[j]) => j <= i

\* The layers are different.
LEMMA LayerNames ==
  /\ Background \in Layer /\ ConsoleLayer \in Layer /\ Mouse \in Layer
  /\ Draggable \subseteq Layer
  /\ MainWindow \in Draggable /\ TextWindow \in Draggable /\ TerminalWindow \in Draggable
  /\ Background \notin Draggable /\ ConsoleLayer \notin Draggable /\ Mouse \notin Draggable
  /\ Background # ConsoleLayer /\ Background # Mouse /\ ConsoleLayer # Mouse
  /\ MainWindow # TextWindow /\ MainWindow # TerminalWindow /\ TextWindow # TerminalWindow
  /\ NoLayer \notin Layer
  /\ Layer = {Background, ConsoleLayer, Mouse, MainWindow, TextWindow, TerminalWindow}
BY DEF Layer, Draggable, Background, ConsoleLayer, MainWindow, TextWindow, TerminalWindow,
       Mouse, NoLayer

\* The area of a layer begins at its place, and its look tells which layer it is.
LEMMA AreaFacts ==
  ASSUME NEW d, d.pos \in [Layer -> Int], NEW id \in Layer
  PROVE  /\ d.pos[id] \in Int /\ Width[id] \in Nat \ {0}
         /\ d.pos[id] \in Area(d, id)
         /\ \A c \in Area(d, id) : c \in Int /\ c - d.pos[id] \in 0 .. Width[id] - 1
         /\ \A c : Look(d, id, c)[1] = id
<1>1. d.pos[id] \in Int /\ Width[id] \in Nat \ {0}
  BY LayersAssumption
<1>2. \A c : Look(d, id, c)[1] = id
  BY DEF Look
<1> QED
  BY <1>1, <1>2 DEF Area

\* What drawing a layer writes.
LEMMA PaintedCellsFacts ==
  ASSUME NEW d, d.pos \in [Layer -> Int], NEW id \in Layer, NEW area, NEW c
  PROVE  /\ c \in PaintedCells(d, id, area) <=>
              /\ c \in ScreenCells
              /\ IF id = Mouse THEN c = d.pos[Mouse] ELSE c \in Area(d, id) /\ c \in area
         /\ c \in Covered(d, id) <=>
              /\ c \in ScreenCells
              /\ IF id = Mouse THEN c = d.pos[Mouse] ELSE c \in Area(d, id)
         /\ c \in Covered(d, id) => c \in Area(d, id) /\ c \in ScreenCells
<1>1. d.pos[id] \in Area(d, id)
  BY AreaFacts
<1>2. CASE id = Mouse
  BY <1>1, <1>2 DEF PaintedCells, Covered
<1>3. CASE id # Mouse
  BY <1>3 DEF PaintedCells, Covered
<1> QED
  BY <1>2, <1>3

\* After the layers of a sequence are drawn, a cell where none was drawn is what it was.
LEMMA NothingPainted ==
  ASSUME NEW d, NEW s, NEW area, NEW c \in ScreenCells,
         \A i \in DOMAIN s : c \notin PaintedCells(d, s[i], area)
  PROVE  Painted(d, s, area)[c] = d.back[c]
<1>1. {i \in DOMAIN s : c \in PaintedCells(d, s[i], area)} = {}
  OBVIOUS
<1> QED
  BY <1>1 DEF Painted

\* Otherwise it shows the last of the layers that were drawn there.
LEMMA LastPainted ==
  ASSUME NEW d, NEW s \in Seq(Layer), NEW area, NEW c \in ScreenCells, NEW i \in DOMAIN s,
         c \in PaintedCells(d, s[i], area),
         \A j \in DOMAIN s : c \in PaintedCells(d, s[j], area) => j <= i
  PROVE  Painted(d, s, area)[c] = Look(d, s[i], c - d.pos[s[i]])
<1> DEFINE over == {j \in DOMAIN s : c \in PaintedCells(d, s[j], area)}
<1>1. Painted(d, s, area)[c] = IF over = {} THEN d.back[c]
                               ELSE Look(d, s[Max(over)], c - d.pos[s[Max(over)]])
  BY DEF Painted
<1>2. i \in over /\ \A j \in over : j <= i
  OBVIOUS
<1>3. over \in SUBSET Nat
  BY LenProperties
<1> HIDE DEF over
<1>4. \A j \in over : i >= j
  BY <1>2, <1>3
<1>5. Max(over) \in over /\ \A j \in over : Max(over) >= j
  BY ONLY <1>2, <1>4, Zenon DEF Max
<1>6. over # {} /\ Max(over) = i
  BY <1>2, <1>3, <1>5
<1> QED
  BY <1>1, <1>6

\* There is a highest layer at every cell: the background is everywhere.
LEMMA TopExists ==
  ASSUME NEW d, DeskOK(d), NEW c \in ScreenCells
  PROVE  \E l \in Layer : IsTop(d, c, l)
<1> DEFINE S == {i \in DOMAIN d.stack : c \in Covered(d, d.stack[i])}
<1>1. /\ d.stack \in Seq(Layer) /\ d.pos \in [Layer -> Int] /\ d.pos[Background] = 0
      /\ DOMAIN d.stack = 1 .. Len(d.stack) /\ Len(d.stack) \in Nat
      /\ \A i \in DOMAIN d.stack : d.stack[i] \in Layer
  BY LenProperties, ElementOfSeq DEF DeskOK
<1>2. PICK b \in DOMAIN d.stack : d.stack[b] = Background
  BY <1>1 DEF DeskOK, Shows, Contains
<1>3. c \in Covered(d, Background)
  <2>1. c \in Area(d, Background)
    BY <1>1, LayersAssumption DEF Area, ScreenCells
  <2> QED BY <1>1, <2>1, LayerNames, PaintedCellsFacts
<1>4. S \in SUBSET Nat /\ S # {} /\ \A i \in S : i <= Len(d.stack)
  BY <1>1, <1>2, <1>3
<1>5. PICK m \in S : \A i \in S : i <= m
  BY <1>1, <1>4, GreatestExists
<1> QED
  BY <1>1, <1>5 DEF IsTop

\* There is only one, and the screen should show it.
LEMMA TopFacts ==
  ASSUME NEW d, DeskOK(d), NEW c \in ScreenCells, NEW l \in Layer, IsTop(d, c, l)
  PROVE  /\ Full(d, c) = Look(d, l, c - d.pos[l]) /\ Full(d, c)[1] = l
         /\ c \in Covered(d, l)
<1>1. d.stack \in Seq(Layer) /\ d.pos \in [Layer -> Int]
  BY DEF DeskOK
<1>2. PICK i \in DOMAIN d.stack : /\ d.stack[i] = l /\ c \in Covered(d, l)
                                  /\ \A j \in DOMAIN d.stack :
                                       c \in Covered(d, d.stack[j]) => j <= i
  BY DEF IsTop
<1>3. Full(d, c) = Look(d, l, c - d.pos[l])
  <2>1. /\ c \in PaintedCells(d, d.stack[i], ScreenCells)
        /\ \A j \in DOMAIN d.stack : c \in PaintedCells(d, d.stack[j], ScreenCells) => j <= i
    BY <1>2 DEF Covered
  <2>2. Painted(d, d.stack, ScreenCells)[c] = Look(d, d.stack[i], c - d.pos[d.stack[i]])
    <3>1. \A s \in Seq(Layer) : \A k \in DOMAIN s :
             /\ c \in PaintedCells(d, s[k], ScreenCells)
             /\ \A j \in DOMAIN s : c \in PaintedCells(d, s[j], ScreenCells) => j <= k
             => Painted(d, s, ScreenCells)[c] = Look(d, s[k], c - d.pos[s[k]])
      BY LastPainted
    <3>2. \A k \in DOMAIN d.stack :
             /\ c \in PaintedCells(d, d.stack[k], ScreenCells)
             /\ \A j \in DOMAIN d.stack : c \in PaintedCells(d, d.stack[j], ScreenCells) => j <= k
             => Painted(d, d.stack, ScreenCells)[c] = Look(d, d.stack[k], c - d.pos[d.stack[k]])
      BY <1>1, <3>1
    <3> QED BY ONLY <2>1, <3>2
  <2> QED BY <1>2, <2>2 DEF Full
<1> QED
  BY <1>1, <1>2, <1>3, AreaFacts

\* Two desks that differ in nothing but their buffers.
SameDesk(d, e) ==
  e.stack = d.stack /\ e.pos = d.pos /\ e.lit = d.lit /\ e.active = d.active

\* What should be seen depends neither on the buffers nor on what is active.
LEMMA SameLook ==
  ASSUME NEW d, DeskOK(d), NEW e, DeskOK(e), e.stack = d.stack, e.pos = d.pos, e.lit = d.lit,
         NEW c \in ScreenCells
  PROVE  Full(e, c) = Full(d, c)
<1>1. PICK l \in Layer : IsTop(d, c, l)
  BY TopExists
<1>2. \A id : Covered(e, id) = Covered(d, id) /\ Look(e, id, c - e.pos[id]) = Look(d, id, c - d.pos[id])
  BY DEF Covered, PaintedCells, Area, Look
<1>3. IsTop(e, c, l)
  BY <1>1, <1>2 DEF IsTop
<1>4. Full(d, c) = Look(d, l, c - d.pos[l]) /\ Full(e, c) = Look(e, l, c - e.pos[l])
  BY <1>1, <1>3, TopFacts
<1> QED
  BY <1>2, <1>4

LEMMA SameFull ==
  ASSUME NEW d, DeskOK(d), NEW e, DeskOK(e), SameDesk(d, e), NEW c \in ScreenCells
  PROVE  Full(e, c) = Full(d, c)
BY SameLook DEF SameDesk

\* The layers from one of the stack upwards are drawn: wherever one of them is drawn,
\* the back buffer shows what it should.
LEMMA StretchPainted ==
  ASSUME NEW d, DeskOK(d), NEW k \in 1 .. Len(d.stack), NEW area, NEW c \in ScreenCells,
         NEW s, s = SubSeq(d.stack, k, Len(d.stack))
  PROVE  /\ (\E i \in k .. Len(d.stack) : c \in PaintedCells(d, d.stack[i], area))
              => Painted(d, s, area)[c] = Full(d, c)
         /\ (\A i \in k .. Len(d.stack) : c \notin PaintedCells(d, d.stack[i], area))
              => Painted(d, s, area)[c] = d.back[c]
<1> DEFINE n == Len(d.stack)
<1>1. /\ d.stack \in Seq(Layer) /\ d.pos \in [Layer -> Int]
      /\ n \in Nat /\ DOMAIN d.stack = 1 .. n /\ \A i \in 1 .. n : d.stack[i] \in Layer
      /\ \A i \in 1 .. n : d.stack[i] = Mouse => i = n
  BY LenProperties, ElementOfSeq DEF DeskOK
<1>2. /\ s \in Seq(Layer) /\ Len(s) = n - k + 1 /\ DOMAIN s = 1 .. n - k + 1
      /\ \A i \in 1 .. n - k + 1 : s[i] = d.stack[k + i - 1]
  BY <1>1, StretchOfQueue, LenProperties
<1> HIDE DEF n
<1>3. k \in 1 .. n
  BY DEF n
<1>4. ASSUME \A i \in k .. n : c \notin PaintedCells(d, d.stack[i], area)
      PROVE  Painted(d, s, area)[c] = d.back[c]
  <2>1. ASSUME NEW i \in DOMAIN s PROVE c \notin PaintedCells(d, s[i], area)
    <3>0. i \in 1 .. n - k + 1 /\ n \in Nat
      BY ONLY <1>1, <1>2, i \in DOMAIN s
    <3>1. k + i - 1 \in k .. n /\ s[i] = d.stack[k + i - 1]
      BY ONLY <1>2, <1>3, <3>0
    <3> QED BY <1>4, <3>1
  <2> QED BY ONLY <2>1, c \in ScreenCells, NothingPainted, ZenonT(40)
<1>5. ASSUME NEW i \in k .. n, c \in PaintedCells(d, d.stack[i], area)
      PROVE  Painted(d, s, area)[c] = Full(d, c)
  <2>1. PICK l \in Layer : IsTop(d, c, l)
    BY TopExists
  <2>2. PICK t \in 1 .. n : /\ d.stack[t] = l /\ c \in Covered(d, l)
                            /\ \A j \in 1 .. n : c \in Covered(d, d.stack[j]) => j <= t
    BY <1>1, <2>1 DEF IsTop
  <2>3. i \in 1 .. n /\ d.stack[i] \in Layer
    BY <1>1, <1>3
  <2>4. c \in Covered(d, d.stack[i]) /\ (d.stack[i] # Mouse => c \in area)
    BY <1>1, <1>5, <2>3, PaintedCellsFacts
  <2>5. i <= t /\ t \in k .. n
    BY <1>1, <1>3, <2>2, <2>3, <2>4
  <2>6. c \in PaintedCells(d, l, area)
    <3>1. CASE d.stack[i] = Mouse
      <4>1. i = n /\ t = n
        BY <1>1, <2>3, <2>5, <3>1
      <4> QED BY <1>5, <2>2, <4>1
    <3>2. CASE d.stack[i] # Mouse
      BY <1>1, <2>2, <2>4, <3>2, PaintedCellsFacts
    <3> QED BY <3>1, <3>2
  <2>7. t - k + 1 \in DOMAIN s /\ s[t - k + 1] = l
    <3>1. t - k + 1 \in 1 .. n - k + 1 /\ k + (t - k + 1) - 1 = t
      BY <1>1, <1>3, <2>5
    <3> QED BY <1>2, <2>2, <3>1
  <2>8. ASSUME NEW j \in DOMAIN s, c \in PaintedCells(d, s[j], area) PROVE j <= t - k + 1
    <3>0. j \in 1 .. n - k + 1 /\ n \in Nat
      BY ONLY <1>1, <1>2, j \in DOMAIN s
    <3>1. k + j - 1 \in 1 .. n /\ s[j] = d.stack[k + j - 1] /\ j \in Nat
      BY ONLY <1>2, <1>3, <3>0
    <3>2. c \in Covered(d, d.stack[k + j - 1])
      BY <1>1, <2>8, <3>1, PaintedCellsFacts
    <3>3. k + j - 1 <= t
      BY <2>2, <3>1, <3>2
    <3> QED BY <1>1, <1>3, <2>5, <3>1, <3>3
  <2>9. Painted(d, s, area)[c] = Look(d, l, c - d.pos[l])
    <3>1. \A q \in Seq(Layer) : \A p \in DOMAIN q :
            /\ c \in PaintedCells(d, q[p], area)
            /\ \A j \in DOMAIN q : c \in PaintedCells(d, q[j], area) => j <= p
            => Painted(d, q, area)[c] = Look(d, q[p], c - d.pos[q[p]])
      BY LastPainted
    <3>2. \A p \in DOMAIN s :
            /\ c \in PaintedCells(d, s[p], area)
            /\ \A j \in DOMAIN s : c \in PaintedCells(d, s[j], area) => j <= p
            => Painted(d, s, area)[c] = Look(d, s[p], c - d.pos[s[p]])
      BY ONLY <1>2, <3>1
    <3>3. \A j \in DOMAIN s : c \in PaintedCells(d, s[j], area) => j <= t - k + 1
      BY <2>8
    <3> QED BY ONLY <2>6, <2>7, <3>2, <3>3
  <2> QED BY <2>1, <2>9, TopFacts
<1> QED
  BY <1>4, <1>5 DEF n

\* Drawing them and copying the area to the screen.
LEMMA StretchDrawn ==
  ASSUME NEW d, DeskOK(d), NEW k \in 1 .. Len(d.stack), NEW area,
         NEW s, s = SubSeq(d.stack, k, Len(d.stack)),
         NEW e, e = Shown(DrawSeq(d, s, area), area)
  PROVE  /\ DeskOK(e) /\ SameDesk(d, e)
         /\ \A c \in ScreenCells :
              /\ Kept(d, e, c)
              /\ (\E i \in k .. Len(d.stack) : c \in PaintedCells(d, d.stack[i], area)) /\ c \in area
                   => Fresh(e, c)
<1> DEFINE back == Painted(d, s, area)
           screen == [c \in ScreenCells |-> IF c \in area THEN back[c] ELSE d.screen[c]]
<1>1. e = [stack |-> d.stack, pos |-> d.pos, lit |-> d.lit, active |-> d.active,
           back |-> back, screen |-> screen]
  <2>1. d = [stack |-> d.stack, pos |-> d.pos, lit |-> d.lit, active |-> d.active,
             back |-> d.back, screen |-> d.screen]
    BY DEF DeskOK
  <2>2. DrawSeq(d, s, area) = [d EXCEPT !.back = back]
    BY DEF DrawSeq
  <2> HIDE DEF back
  <2>3. DrawSeq(d, s, area) = [stack |-> d.stack, pos |-> d.pos, lit |-> d.lit, active |-> d.active,
                               back |-> back, screen |-> d.screen]
    BY ONLY <2>1, <2>2
  <2> DEFINE m == DrawSeq(d, s, area)
  <2>4. e = [m EXCEPT !.screen = [c \in ScreenCells |-> IF c \in area THEN m.back[c] ELSE m.screen[c]]]
    BY DEF Shown
  <2> HIDE DEF m
  <2>5. m.back = back /\ m.screen = d.screen
    BY ONLY <2>3 DEF m
  <2>6. e = [m EXCEPT !.screen = screen]
    BY <2>4, <2>5
  <2> HIDE DEF screen
  <2> QED BY ONLY <2>3, <2>6 DEF m
<1>2. \A c \in ScreenCells : screen[c] = IF c \in area THEN back[c] ELSE d.screen[c]
  OBVIOUS
<1>3. \A c \in ScreenCells :
        /\ (\E i \in k .. Len(d.stack) : c \in PaintedCells(d, d.stack[i], area)) => back[c] = Full(d, c)
        /\ (\A i \in k .. Len(d.stack) : c \notin PaintedCells(d, d.stack[i], area)) => back[c] = d.back[c]
  BY ZenonT(40), StretchPainted
<1> HIDE DEF back, screen
<1>4. SameDesk(d, e) /\ e.back = back /\ e.screen = screen
  BY <1>1 DEF SameDesk
<1>5. DeskOK(e)
  BY <1>1, <1>4 DEF DeskOK, SameDesk, Shows
<1>6. ASSUME NEW c \in ScreenCells
      PROVE  /\ Kept(d, e, c)
             /\ (\E i \in k .. Len(d.stack) : c \in PaintedCells(d, d.stack[i], area)) /\ c \in area
                  => Fresh(e, c)
  <2>1. Full(e, c) = Full(d, c)
    BY <1>4, <1>5, SameFull
  <2>2. e.back[c] = Full(d, c) \/ e.back[c] = d.back[c]
    BY <1>3, <1>4
  <2>3. e.screen[c] = IF c \in area THEN e.back[c] ELSE d.screen[c]
    BY <1>2, <1>4
  <2>4. Kept(d, e, c)
    BY <2>1, <2>2, <2>3 DEF Kept, Fresh
  <2>5. (\E i \in k .. Len(d.stack) : c \in PaintedCells(d, d.stack[i], area)) => e.back[c] = Full(e, c)
    BY <1>3, <1>4, <2>1
  <2> QED BY <2>3, <2>4, <2>5 DEF Fresh
<1> QED
  BY <1>4, <1>5, <1>6

\* A layer that is shown has a place in the stack.
LEMMA IndexFacts ==
  ASSUME NEW d, NEW id, Shows(d, id), d.stack \in Seq(Layer)
  PROVE  /\ Index(d, id) \in 1 .. Len(d.stack) /\ d.stack[Index(d, id)] = id
         /\ IsInjective(d.stack) => \A i \in DOMAIN d.stack : d.stack[i] = id => i = Index(d, id)
<1>1. DOMAIN d.stack = 1 .. Len(d.stack)
  BY LenProperties
<1>2. \E i \in DOMAIN d.stack : d.stack[i] = id
  BY <1>1 DEF Shows, Contains
<1>3. Index(d, id) \in DOMAIN d.stack /\ d.stack[Index(d, id)] = id
  BY <1>2 DEF Index
<1> QED
  BY <1>1, <1>3 DEF IsInjective

\* A drawing of an area that nothing comes between.
LEMMA ScreenAreaDrawn ==
  ASSUME NEW d, DeskOK(d), NEW area, NEW e, e = DrawnAtOnce(d, 1, area)
  PROVE  /\ DeskOK(e) /\ SameDesk(d, e)
         /\ \A c \in ScreenCells : Kept(d, e, c) /\ (c \in area => Fresh(e, c))
<1> DEFINE s == SubSeq(d.stack, 1, Len(d.stack))
<1>1. /\ d.stack \in Seq(Layer) /\ d.pos \in [Layer -> Int] /\ d.pos[Background] = 0
      /\ Len(d.stack) \in Nat
  BY LenProperties DEF DeskOK
<1>2. PICK b \in 1 .. Len(d.stack) : d.stack[b] = Background
  BY DEF DeskOK, Shows, Contains
<1>3. 1 \in 1 .. Len(d.stack)
  BY <1>1, <1>2
<1>4. ASSUME NEW c \in ScreenCells, c \in area
      PROVE  \E i \in 1 .. Len(d.stack) : c \in PaintedCells(d, d.stack[i], area)
  <2>1. c \in Area(d, Background)
    BY <1>1, LayersAssumption DEF Area, ScreenCells
  <2>2. c \in PaintedCells(d, Background, area)
    BY <1>1, <1>4, <2>1, LayerNames, PaintedCellsFacts
  <2> QED BY <1>2, <2>2
<1>5. e = Shown(DrawSeq(d, s, area), area)
  BY DEF DrawnAtOnce
<1>6. /\ DeskOK(e) /\ SameDesk(d, e)
      /\ \A c \in ScreenCells :
           /\ Kept(d, e, c)
           /\ (\E i \in 1 .. Len(d.stack) : c \in PaintedCells(d, d.stack[i], area)) /\ c \in area
                => Fresh(e, c)
  <2> HIDE DEF s
  <2>1. s = SubSeq(d.stack, 1, Len(d.stack))
    BY DEF s
  <2> QED BY <1>3, <1>5, <2>1, StretchDrawn
<1> QED
  BY <1>4, <1>6

\* Copying an area to the screen.
LEMMA ShownFacts ==
  ASSUME NEW d, DeskOK(d), NEW area, NEW e, e = Shown(d, area)
  PROVE  /\ DeskOK(e) /\ SameDesk(d, e) /\ e.back = d.back
         /\ \A c \in ScreenCells : /\ Kept(d, e, c) /\ Full(e, c) = Full(d, c)
                                   /\ e.screen[c] = IF c \in area THEN d.back[c] ELSE d.screen[c]
<1> DEFINE screen == [c \in ScreenCells |-> IF c \in area THEN d.back[c] ELSE d.screen[c]]
<1>1. e = [d EXCEPT !.screen = screen]
  BY DEF Shown
<1>2. \A c \in ScreenCells : screen[c] = IF c \in area THEN d.back[c] ELSE d.screen[c]
  OBVIOUS
<1> HIDE DEF screen
<1>3. e = [stack |-> d.stack, pos |-> d.pos, lit |-> d.lit, active |-> d.active,
           back |-> d.back, screen |-> screen]
  <2>1. d = [stack |-> d.stack, pos |-> d.pos, lit |-> d.lit, active |-> d.active,
             back |-> d.back, screen |-> d.screen]
    BY DEF DeskOK
  <2> QED BY ONLY <1>1, <2>1
<1>4. SameDesk(d, e) /\ e.back = d.back /\ e.screen = screen
  BY <1>3 DEF SameDesk
<1>5. DeskOK(e)
  BY <1>3, <1>4 DEF DeskOK, SameDesk, Shows
<1>6. \A c \in ScreenCells : Full(e, c) = Full(d, c)
  BY <1>4, <1>5, SameFull
<1> QED
  BY <1>2, <1>4, <1>5, <1>6 DEF Kept, Fresh

\* A window with new contents: what it shows is old, but for its title.
LEMMA RewrittenFacts ==
  ASSUME NEW d, DeskOK(d), NEW id \in Layer, NEW e, e = Rewritten(d, id)
  PROVE  /\ DeskOK(e) /\ SameDesk(d, e)
         /\ \A c \in ScreenCells : c \notin Covered(d, id) => Kept(d, e, c)
         /\ \A c \in ScreenCells : id \in Draggable /\ c = d.pos[id] => Kept(d, e, c)
<1>1. e = [stack |-> d.stack, pos |-> d.pos, lit |-> d.lit, active |-> d.active,
           back |-> Aged(d.back, id), screen |-> Aged(d.screen, id)]
  <2>1. d = [stack |-> d.stack, pos |-> d.pos, lit |-> d.lit, active |-> d.active,
             back |-> d.back, screen |-> d.screen]
    BY DEF DeskOK
  <2>2. e = [d EXCEPT !.back = Aged(d.back, id), !.screen = Aged(d.screen, id)]
    BY DEF Rewritten
  <2> QED BY ONLY <2>1, <2>2
<1>2. SameDesk(d, e) /\ e.back = Aged(d.back, id) /\ e.screen = Aged(d.screen, id)
  BY <1>1 DEF SameDesk
<1>3. DeskOK(e)
  BY <1>1, <1>2 DEF DeskOK, SameDesk, Shows
<1>4. ASSUME NEW c \in ScreenCells, Full(d, c) # <<id, "new">> PROVE Kept(d, e, c)
  <2>1. Full(e, c) = Full(d, c)
    BY <1>2, <1>3, SameFull
  <2>2. \A b : b[c] = Full(d, c) => Aged(b, id)[c] = Full(d, c)
    BY <1>4 DEF Aged
  <2> QED BY <1>2, <2>1, <2>2 DEF Kept, Fresh
<1>5. ASSUME NEW c \in ScreenCells, c \notin Covered(d, id) \/ (id \in Draggable /\ c = d.pos[id])
      PROVE  Full(d, c) # <<id, "new">>
  <2>1. PICK l \in Layer : IsTop(d, c, l)
    BY TopExists
  <2>2. Full(d, c) = Look(d, l, c - d.pos[l]) /\ Full(d, c)[1] = l /\ c \in Covered(d, l)
    BY <2>1, TopFacts
  <2>3. CASE l # id
    BY <2>2, <2>3
  <2>4. CASE l = id
    <3>1. c - d.pos[id] = 0 /\ id \in Draggable
      BY <1>5, <2>2, <2>4, AreaFacts DEF DeskOK
    <3>2. Full(d, c) = <<id, IF d.lit[id] THEN "lit" ELSE "dark">>
      BY <2>2, <2>4, <3>1 DEF Look
    <3> QED BY <3>2
  <2> QED BY <2>3, <2>4
<1> QED
  BY <1>2, <1>3, <1>4, <1>5

\* One after the other.
LEMMA KeptOn ==
  ASSUME NEW d, NEW e, NEW f, NEW c
  PROVE  /\ Kept(d, e, c) /\ Kept(e, f, c) => Kept(d, f, c)
         /\ Fresh(e, c) /\ Kept(e, f, c) => Fresh(f, c)
BY DEF Kept

\* The console is written to and drawn, with what is above it, by the handler: its area
\* is up to date then.
LEMMA ConsoleDrawn ==
  ASSUME NEW d, DeskOK(d), Shows(d, ConsoleLayer),
         NEW e, e = DrawnAtOnce(Rewritten(d, ConsoleLayer), Index(d, ConsoleLayer),
                                Area(d, ConsoleLayer))
  PROVE  /\ DeskOK(e) /\ SameDesk(d, e)
         /\ \A c \in ScreenCells : Fresh(e, c) \/ Kept(d, e, c)
         /\ \A c \in ScreenCells \cap Area(d, ConsoleLayer) : Fresh(e, c)
<1> DEFINE r == Rewritten(d, ConsoleLayer)
           k == Index(d, ConsoleLayer)
           area == Area(d, ConsoleLayer)
           s == SubSeq(r.stack, k, Len(r.stack))
<1>1. ConsoleLayer \in Layer /\ ConsoleLayer # Mouse
  BY LayerNames
<1>2. /\ DeskOK(r) /\ SameDesk(d, r)
      /\ \A c \in ScreenCells : c \notin Covered(d, ConsoleLayer) => Kept(d, r, c)
  BY <1>1, RewrittenFacts
<1>3. e = Shown(DrawSeq(r, s, area), area)
  BY DEF DrawnAtOnce
<1> HIDE DEF r, s
<1>4. /\ d.stack \in Seq(Layer) /\ d.pos \in [Layer -> Int] /\ Len(d.stack) \in Nat
      /\ r.stack = d.stack /\ r.pos = d.pos
  BY <1>2, LenProperties DEF DeskOK, SameDesk
<1>5. k \in 1 .. Len(r.stack) /\ r.stack[k] = ConsoleLayer
  BY <1>4, IndexFacts
<1> HIDE DEF k, area
<1>6. /\ DeskOK(e) /\ SameDesk(r, e)
      /\ \A c \in ScreenCells :
           /\ Kept(r, e, c)
           /\ (\E i \in k .. Len(r.stack) : c \in PaintedCells(r, r.stack[i], area)) /\ c \in area
                => Fresh(e, c)
  <2>1. s = SubSeq(r.stack, k, Len(r.stack))
    BY DEF s
  <2> QED BY <1>2, <1>3, <1>5, <2>1, StretchDrawn
<1>7. ASSUME NEW c \in ScreenCells, c \in area PROVE Fresh(e, c)
  <2>1. c \in Area(r, ConsoleLayer)
    BY <1>4, <1>7 DEF Area, area
  <2>2. c \in PaintedCells(r, r.stack[k], area)
    BY <1>1, <1>4, <1>5, <1>7, <2>1, PaintedCellsFacts
  <2>3. k \in k .. Len(r.stack)
    BY <1>4, <1>5
  <2> QED BY <1>6, <1>7, <2>2, <2>3
<1>8. ASSUME NEW c \in ScreenCells PROVE Fresh(e, c) \/ Kept(d, e, c)
  <2>1. CASE c \in area
    BY <1>7, <2>1
  <2>2. CASE c \notin area
    <3>1. c \notin Covered(d, ConsoleLayer)
      BY <1>1, <1>4, <2>2, PaintedCellsFacts DEF area
    <3>2. Kept(d, r, c) /\ Kept(r, e, c)
      BY <1>2, <1>6, <3>1
    <3> QED BY <3>2, KeptOn
  <2> QED BY <2>1, <2>2
<1>9. SameDesk(d, e)
  BY <1>2, <1>6 DEF SameDesk
<1> QED
  BY <1>6, <1>7, <1>8, <1>9 DEF area

\* Layer a is in the stack, and b is the same or above it.
Precedes(d, a, b) ==
  \E i, j \in DOMAIN d.stack : i <= j /\ d.stack[i] = a /\ d.stack[j] = b

\* Of the layers other than id, nothing is different.
OthersSame(d, e, id) ==
  /\ e.back = d.back /\ e.screen = d.screen
  /\ \A x \in Layer \ {id} : e.pos[x] = d.pos[x] /\ (x \in Draggable => e.lit[x] = d.lit[x])
  /\ \A a, b \in Layer \ {id} : Precedes(d, a, b) <=> Precedes(e, a, b)

\* What should be seen changes only where the layer was and where it is.
LEMMA KeptElsewhere ==
  ASSUME NEW d, DeskOK(d), NEW e, DeskOK(e), NEW id \in Layer, OthersSame(d, e, id),
         NEW c \in ScreenCells,
         c \notin Covered(d, id) \/ ~Shows(d, id), c \notin Covered(e, id) \/ ~Shows(e, id)
  PROVE  Kept(d, e, c)
<1>1. /\ d.stack \in Seq(Layer) /\ d.pos \in [Layer -> Int] /\ IsInjective(d.stack)
      /\ e.stack \in Seq(Layer) /\ e.pos \in [Layer -> Int] /\ IsInjective(e.stack)
      /\ DOMAIN d.stack = 1 .. Len(d.stack) /\ DOMAIN e.stack = 1 .. Len(e.stack)
      /\ Len(d.stack) \in Nat /\ Len(e.stack) \in Nat
      /\ \A i \in DOMAIN d.stack : d.stack[i] \in Layer
      /\ \A i \in DOMAIN e.stack : e.stack[i] \in Layer
  BY LenProperties, ElementOfSeq DEF DeskOK
<1>2. PICK l \in Layer : IsTop(d, c, l)
  BY TopExists
<1>3. PICK t \in DOMAIN d.stack : /\ d.stack[t] = l /\ c \in Covered(d, l)
                                  /\ \A j \in DOMAIN d.stack :
                                       c \in Covered(d, d.stack[j]) => j <= t
  BY <1>2 DEF IsTop
<1>4. l # id
  BY <1>1, <1>3 DEF Shows, Contains
<1>5. \A x \in Layer \ {id} : /\ c \in Covered(d, x) <=> c \in Covered(e, x)
                              /\ Look(e, x, c - e.pos[x]) = Look(d, x, c - d.pos[x])
  <2>1. TAKE x \in Layer \ {id}
  <2>2. e.pos[x] = d.pos[x] /\ (x \in Draggable => e.lit[x] = d.lit[x])
    BY DEF OthersSame
  <2>3. x = Mouse => e.pos[Mouse] = d.pos[Mouse]
    BY <2>2
  <2>4. Area(e, x) = Area(d, x)
    BY <2>2 DEF Area
  <2>5. Look(e, x, c - e.pos[x]) = Look(d, x, c - d.pos[x])
    BY <2>2 DEF Look
  <2>6. c \in Covered(d, x) <=> c \in Covered(e, x)
    <3>1. c \in Covered(d, x) <=> IF x = Mouse THEN c = d.pos[Mouse] ELSE c \in Area(d, x)
      BY <1>1, <2>1, PaintedCellsFacts
    <3>2. c \in Covered(e, x) <=> IF x = Mouse THEN c = e.pos[Mouse] ELSE c \in Area(e, x)
      BY <1>1, <2>1, PaintedCellsFacts
    <3> QED BY ONLY <2>3, <2>4, <3>1, <3>2
  <2> QED BY <2>5, <2>6
<1>6. Precedes(e, l, l)
  <2>1. Precedes(d, l, l)
    BY <1>1, <1>3 DEF Precedes
  <2> QED BY <1>4, <2>1 DEF OthersSame
<1>7. PICK p \in DOMAIN e.stack : e.stack[p] = l
  BY <1>6 DEF Precedes
<1>8. ASSUME NEW j \in DOMAIN e.stack, c \in Covered(e, e.stack[j])
      PROVE  j <= p
  <2> DEFINE x == e.stack[j]
  <2>a. x # id
    BY <1>1, <1>8 DEF Shows, Contains
  <2>1. x \in Layer \ {id} /\ c \in Covered(d, x)
    BY <1>1, <1>5, <1>8, <2>a
  <2>2. Precedes(e, x, x)
    <3>1. j \in DOMAIN e.stack /\ j <= j /\ e.stack[j] = x
      BY <1>1
    <3> QED BY <3>1 DEF Precedes
  <2>3. Precedes(d, x, x)
    BY <2>1, <2>2 DEF OthersSame
  <2>4. PICK i \in DOMAIN d.stack : d.stack[i] = x
    BY <2>3 DEF Precedes
  <2>5. i <= t
    BY <1>3, <2>1, <2>4
  <2>6. Precedes(d, x, l)
    BY <1>3, <2>4, <2>5 DEF Precedes
  <2>7. Precedes(e, x, l)
    BY <1>4, <2>1, <2>6 DEF OthersSame
  <2>8. PICK a, b \in DOMAIN e.stack : a <= b /\ e.stack[a] = x /\ e.stack[b] = l
    BY <2>7 DEF Precedes
  <2>9. a = j /\ b = p
    BY <1>1, <1>7, <2>8 DEF IsInjective
  <2> QED BY <2>8, <2>9
<1>9. IsTop(e, c, l)
  BY <1>3, <1>4, <1>5, <1>7, <1>8 DEF IsTop
<1>10. /\ Full(d, c) = Look(d, l, c - d.pos[l]) /\ Full(d, c)[1] = l
       /\ Full(e, c) = Look(e, l, c - e.pos[l])
  BY <1>2, <1>9, TopFacts
<1>11. Full(e, c) = Full(d, c)
  BY <1>4, <1>5, <1>10
<1> QED
  BY <1>11 DEF Kept, Fresh, OthersSame

\* erase and insert of a vector.
LEMMA RemovedAt ==
  ASSUME NEW S, NEW s \in Seq(S), NEW p \in 1 .. Len(s)
  PROVE  /\ RemoveAt(s, p) \in Seq(S) /\ Len(RemoveAt(s, p)) = Len(s) - 1
         /\ \A i \in 1 .. Len(s) - 1 : RemoveAt(s, p)[i] = IF i < p THEN s[i] ELSE s[i + 1]
<1> DEFINE n == Len(s)
           a == SubSeq(s, 1, p - 1)
           b == SubSeq(s, p + 1, n)
<1>1. n \in Nat /\ p \in Nat /\ p - 1 \in Nat /\ p + 1 \in Nat
  BY LenProperties
<1>2. a \in Seq(S) /\ Len(a) = p - 1 /\ \A i \in 1 .. p - 1 : a[i] = s[i]
  <2>1. /\ a \in Seq(S) /\ Len(a) = p - 1 - 1 + 1
        /\ \A i \in 1 .. p - 1 - 1 + 1 : a[i] = s[1 + i - 1]
    BY <1>1, StretchOfQueue
  <2> QED BY <1>1, <2>1
<1>3. b \in Seq(S) /\ Len(b) = n - p /\ \A i \in 1 .. n - p : b[i] = s[p + i]
  <2>1. /\ b \in Seq(S) /\ Len(b) = n - (p + 1) + 1
        /\ \A i \in 1 .. n - (p + 1) + 1 : b[i] = s[p + 1 + i - 1]
    BY <1>1, StretchOfQueue
  <2> QED BY <1>1, <2>1
<1> HIDE DEF n, a, b
<1>4. RemoveAt(s, p) = a \o b
  BY DEF RemoveAt, a, b, n
<1>5. /\ a \o b \in Seq(S) /\ Len(a \o b) = Len(a) + Len(b)
      /\ \A i \in 1 .. Len(a) + Len(b) : (a \o b)[i] = IF i <= Len(a) THEN a[i] ELSE b[i - Len(a)]
  BY <1>2, <1>3, ConcatProperties
<1>6. p \in 1 .. n
  BY DEF n
<1>7. Len(a) + Len(b) = n - 1
  BY <1>1, <1>2, <1>3
<1>8. ASSUME NEW i \in 1 .. n - 1 PROVE (a \o b)[i] = IF i < p THEN s[i] ELSE s[i + 1]
  <2>1. (a \o b)[i] = IF i <= Len(a) THEN a[i] ELSE b[i - Len(a)]
    BY <1>5, <1>7
  <2>2. CASE i < p
    <3>1. i <= Len(a) /\ i \in 1 .. p - 1
      BY <1>1, <1>2, <2>2
    <3> QED BY <1>2, <2>1, <2>2, <3>1
  <2>3. CASE ~(i < p)
    <3>1. ~(i <= Len(a)) /\ i - Len(a) \in 1 .. n - p /\ p + (i - Len(a)) = i + 1
      BY <1>1, <1>2, <1>6, <2>3
    <3> QED BY <1>3, <2>1, <2>3, <3>1
  <2> QED BY <2>2, <2>3
<1> QED
  BY <1>4, <1>5, <1>7, <1>8 DEF n

LEMMA InsertedAt ==
  ASSUME NEW S, NEW s \in Seq(S), NEW p \in 1 .. Len(s) + 1, NEW x \in S
  PROVE  /\ InsertAt(s, p, x) \in Seq(S) /\ Len(InsertAt(s, p, x)) = Len(s) + 1
         /\ \A i \in 1 .. Len(s) + 1 :
              InsertAt(s, p, x)[i] = IF i < p THEN s[i] ELSE IF i = p THEN x ELSE s[i - 1]
<1> DEFINE n == Len(s)
           a == SubSeq(s, 1, p - 1)
           b == SubSeq(s, p, n)
           m == a \o <<x>>
<1>1. n \in Nat /\ p \in Nat /\ p - 1 \in Nat /\ p + 1 \in Nat
  BY LenProperties
<1>2. a \in Seq(S) /\ Len(a) = p - 1 /\ \A i \in 1 .. p - 1 : a[i] = s[i]
  <2>1. /\ a \in Seq(S) /\ Len(a) = p - 1 - 1 + 1
        /\ \A i \in 1 .. p - 1 - 1 + 1 : a[i] = s[1 + i - 1]
    BY <1>1, StretchOfQueue
  <2> QED BY <1>1, <2>1
<1>3. b \in Seq(S) /\ Len(b) = n - p + 1 /\ \A i \in 1 .. n - p + 1 : b[i] = s[p + i - 1]
  BY <1>1, StretchOfQueue
<1> HIDE DEF n, a, b
<1>4. m \in Seq(S) /\ Len(m) = p /\ m[p] = x /\ \A i \in 1 .. p - 1 : m[i] = s[i]
  <2>1. <<x>> \in Seq(S) /\ Len(<<x>>) = 1 /\ <<x>>[1] = x
    OBVIOUS
  <2> DEFINE y == <<x>>
  <2> HIDE DEF y
  <2>2. /\ a \o y \in Seq(S) /\ Len(a \o y) = Len(a) + Len(y)
        /\ \A i \in 1 .. Len(a) + Len(y) : (a \o y)[i] = IF i <= Len(a) THEN a[i] ELSE y[i - Len(a)]
    BY <1>2, <2>1, ConcatProperties DEF y
  <2>3. m = a \o y /\ Len(y) = 1 /\ y[1] = x
    BY <2>1 DEF y
  <2> HIDE DEF m
  <2> QED BY <1>1, <1>2, <2>2, <2>3
<1> HIDE DEF m
<1>5. InsertAt(s, p, x) = m \o b
  BY DEF InsertAt, a, b, n, m
<1>6. /\ m \o b \in Seq(S) /\ Len(m \o b) = Len(m) + Len(b)
      /\ \A i \in 1 .. Len(m) + Len(b) : (m \o b)[i] = IF i <= Len(m) THEN m[i] ELSE b[i - Len(m)]
  BY <1>3, <1>4, ConcatProperties
<1>7. p \in 1 .. n + 1
  BY DEF n
<1>8. Len(m) + Len(b) = n + 1
  BY <1>1, <1>3, <1>4
<1>9. ASSUME NEW i \in 1 .. n + 1
      PROVE  (m \o b)[i] = IF i < p THEN s[i] ELSE IF i = p THEN x ELSE s[i - 1]
  <2>1. (m \o b)[i] = IF i <= Len(m) THEN m[i] ELSE b[i - Len(m)]
    BY <1>6, <1>8
  <2>2. CASE i < p
    <3>1. i <= Len(m) /\ i \in 1 .. p - 1
      BY <1>1, <1>4, <2>2
    <3> QED BY <1>4, <2>1, <2>2, <3>1
  <2>3. CASE i = p
    BY <1>1, <1>4, <2>1, <2>3
  <2>4. CASE i > p
    <3>1. ~(i <= Len(m)) /\ i - Len(m) \in 1 .. n - p + 1 /\ p + (i - Len(m)) - 1 = i - 1
          /\ ~(i < p) /\ i # p
      BY <1>1, <1>4, <1>7, <2>4
    <3> QED BY <1>3, <2>1, <3>1
  <2>5. i < p \/ i = p \/ i > p
    BY <1>1
  <2> QED BY ONLY <2>2, <2>3, <2>4, <2>5
<1> QED
  BY <1>5, <1>6, <1>8, <1>9 DEF n

\* The lesser and the greater of two.
LEMMA OfTwo ==
  ASSUME NEW a \in Int, NEW b \in Int
  PROVE  /\ Min({a, b}) = IF a <= b THEN a ELSE b
         /\ Max({a, b}) = IF a <= b THEN b ELSE a
<1>1. \E x \in {a, b} : \A y \in {a, b} : x <= y
  OBVIOUS
<1>2. \E x \in {a, b} : \A y \in {a, b} : x >= y
  OBVIOUS
<1>3. Min({a, b}) \in {a, b} /\ \A y \in {a, b} : Min({a, b}) <= y
  BY ONLY <1>1, Zenon DEF Min
<1>4. Max({a, b}) \in {a, b} /\ \A y \in {a, b} : Max({a, b}) >= y
  BY ONLY <1>2, Zenon DEF Max
<1> QED
  BY <1>3, <1>4

\* Here, of layers.
LEMMA InsertedLayer ==
  \A id \in Layer : \A v \in Seq(Layer) : \A m \in 1 .. Len(v) + 1 :
    /\ InsertAt(v, m, id) \in Seq(Layer) /\ Len(InsertAt(v, m, id)) = Len(v) + 1
    /\ \A i \in 1 .. Len(v) + 1 :
         InsertAt(v, m, id)[i] = IF i < m THEN v[i] ELSE IF i = m THEN id ELSE v[i - 1]
BY InsertedAt

\* A layer is put to a place q in the stack and the others stay in their order: w tells
\* where they were before.
Placed(d, e, id, q, w) ==
  /\ e.stack \in Seq(Layer) /\ q \in DOMAIN e.stack /\ e.stack[q] = id
  /\ \A i \in DOMAIN e.stack : i # q =>
       w[i] \in DOMAIN d.stack /\ d.stack[w[i]] # id /\ e.stack[i] = d.stack[w[i]]
  /\ \A i, j \in DOMAIN e.stack : i # q /\ j # q /\ i < j => w[i] < w[j]
  /\ \A k \in DOMAIN d.stack : d.stack[k] # id => \E i \in DOMAIN e.stack : i # q /\ w[i] = k

\* Then every layer is in the stack at most once, and the order of the others is the same.
LEMMA PutInStack ==
  ASSUME NEW d, DeskOK(d), NEW e, NEW id \in Layer, NEW q, NEW w, Placed(d, e, id, q, w)
  PROVE  /\ IsInjective(e.stack)
         /\ \A x \in Layer : Shows(e, x) <=> Shows(d, x) \/ x = id
         /\ \A a, b \in Layer \ {id} : Precedes(d, a, b) <=> Precedes(e, a, b)
<1>a. /\ e.stack \in Seq(Layer) /\ q \in DOMAIN e.stack /\ e.stack[q] = id
      /\ \A i \in DOMAIN e.stack : i # q =>
           w[i] \in DOMAIN d.stack /\ d.stack[w[i]] # id /\ e.stack[i] = d.stack[w[i]]
      /\ \A i, j \in DOMAIN e.stack : i # q /\ j # q /\ i < j => w[i] < w[j]
      /\ \A k \in DOMAIN d.stack : d.stack[k] # id => \E i \in DOMAIN e.stack : i # q /\ w[i] = k
  BY DEF Placed
<1>1. /\ DOMAIN d.stack = 1 .. Len(d.stack) /\ DOMAIN e.stack = 1 .. Len(e.stack)
      /\ Len(d.stack) \in Nat /\ Len(e.stack) \in Nat
      /\ IsInjective(d.stack)
  BY <1>a, LenProperties DEF DeskOK
<1>2. IsInjective(e.stack)
  <2> SUFFICES ASSUME NEW i \in DOMAIN e.stack, NEW j \in DOMAIN e.stack,
                      e.stack[i] = e.stack[j], i < j
               PROVE  FALSE
    BY <1>1 DEF IsInjective
  <2>1. i # q /\ j # q
    BY <1>a
  <2>2. w[i] < w[j] /\ d.stack[w[i]] = d.stack[w[j]] /\ w[i] \in DOMAIN d.stack /\ w[j] \in DOMAIN d.stack
    BY <1>a, <2>1
  <2> QED BY <1>1, <2>2 DEF IsInjective
<1>3. ASSUME NEW x \in Layer PROVE Shows(e, x) <=> Shows(d, x) \/ x = id
  <2>1. \A y : Shows(d, y) <=> \E k \in DOMAIN d.stack : d.stack[k] = y
    BY <1>1 DEF Shows, Contains
  <2>2. \A y : Shows(e, y) <=> \E k \in DOMAIN e.stack : e.stack[k] = y
    BY <1>1 DEF Shows, Contains
  <2>3. CASE x = id
    BY <1>a, <2>2, <2>3
  <2>4. CASE x # id
    BY <1>a, <2>1, <2>2, <2>4
  <2> QED BY <2>3, <2>4
<1>4. ASSUME NEW a \in Layer \ {id}, NEW b \in Layer \ {id}, Precedes(e, a, b) PROVE Precedes(d, a, b)
  <2>1. PICK i, j \in DOMAIN e.stack : i <= j /\ e.stack[i] = a /\ e.stack[j] = b
    BY <1>4 DEF Precedes
  <2>2. i # q /\ j # q
    BY <1>a, <2>1
  <2>3. /\ w[i] \in DOMAIN d.stack /\ w[j] \in DOMAIN d.stack
        /\ d.stack[w[i]] = a /\ d.stack[w[j]] = b
    BY <1>a, <2>1, <2>2
  <2>4. w[i] <= w[j]
    <3>1. CASE i = j
      BY <1>1, <2>3, <3>1
    <3>2. CASE i < j
      BY <1>a, <1>1, <2>2, <2>3, <3>2
    <3> QED BY <1>1, <2>1, <3>1, <3>2
  <2> QED BY <2>3, <2>4 DEF Precedes
<1>5. ASSUME NEW a \in Layer \ {id}, NEW b \in Layer \ {id}, Precedes(d, a, b) PROVE Precedes(e, a, b)
  <2>1. PICK k, l \in DOMAIN d.stack : k <= l /\ d.stack[k] = a /\ d.stack[l] = b
    BY <1>5 DEF Precedes
  <2>2. PICK i \in DOMAIN e.stack : i # q /\ w[i] = k
    BY <1>a, <2>1
  <2>3. PICK j \in DOMAIN e.stack : j # q /\ w[j] = l
    BY <1>a, <2>1
  <2>4. e.stack[i] = a /\ e.stack[j] = b
    BY <1>a, <2>1, <2>2, <2>3
  <2>5. i <= j
    <3>1. CASE j < i
      BY <1>a, <1>1, <2>1, <2>2, <2>3, <3>1
    <3> QED BY <1>1, <3>1
  <2> QED BY <2>4, <2>5 DEF Precedes
<1> QED
  BY <1>2, <1>3, <1>4, <1>5

\* A layer is taken out of the stack.
LEMMA ErasedLayer ==
  ASSUME NEW d, DeskOK(d), NEW absent, StackOK(d, absent), NEW id \in Draggable, Shows(d, id),
         NEW e, e = [d EXCEPT !.stack = RemoveAt(d.stack, Index(d, id))]
  PROVE  /\ DeskOK(e) /\ OthersSame(d, e, id)
         /\ e.pos = d.pos /\ e.lit = d.lit /\ e.active = d.active
         /\ StackOK(e, absent \cup {id}) /\ Len(e.stack) = Len(d.stack) - 1
<1> DEFINE s == d.stack
           n == Len(d.stack)
           p == Index(d, id)
           r == RemoveAt(s, p)
<1>1. /\ s \in Seq(Layer) /\ n \in Nat /\ n >= 3 /\ IsInjective(s) /\ DOMAIN s = 1 .. n
      /\ \A i \in 1 .. n : s[i] \in Layer
      /\ s[1] = Background /\ s[2] = ConsoleLayer /\ s[n] = Mouse
      /\ id \in Layer /\ id # Mouse /\ id # Background /\ id # ConsoleLayer
  <2>1. s \in Seq(Layer) /\ IsInjective(s)
    BY DEF DeskOK
  <2>2. n \in Nat /\ DOMAIN s = 1 .. n /\ \A i \in 1 .. n : s[i] \in Layer
    BY <2>1, LenProperties, ElementOfSeq
  <2> QED BY <2>1, <2>2, LayerNames DEF StackOK
<1>2. p \in 3 .. n - 1 /\ s[p] = id /\ \A i \in 1 .. n : s[i] = id => i = p
  <2>1. p \in 1 .. n /\ s[p] = id /\ \A i \in DOMAIN s : s[i] = id => i = p
    BY <1>1, IndexFacts
  <2>2. p # 1 /\ p # 2 /\ p # n
    BY <1>1, <2>1
  <2> QED BY <1>1, <2>1, <2>2
<1>3. e = [d EXCEPT !.stack = r]
  OBVIOUS
<1> HIDE DEF p, s
<1>4. r \in Seq(Layer) /\ Len(r) = n - 1 /\ \A i \in 1 .. n - 1 : r[i] = IF i < p THEN s[i] ELSE s[i + 1]
  <2>1. p \in 1 .. Len(s) /\ n = Len(s)
    BY <1>1, <1>2 DEF s
  <2> QED BY <1>1, <2>1, RemovedAt
<1> HIDE DEF r, n
<1>5. DOMAIN r = 1 .. n - 1 /\ n - 1 \in Nat
  BY <1>1, <1>4, LenProperties
<1>6. e = [stack |-> r, pos |-> d.pos, lit |-> d.lit, active |-> d.active,
           back |-> d.back, screen |-> d.screen]
  <2>1. d = [stack |-> d.stack, pos |-> d.pos, lit |-> d.lit, active |-> d.active,
             back |-> d.back, screen |-> d.screen]
    BY DEF DeskOK
  <2> QED BY ONLY <1>3, <2>1
<1>7. /\ e.stack = r /\ e.pos = d.pos /\ e.lit = d.lit /\ e.active = d.active
      /\ e.back = d.back /\ e.screen = d.screen
  BY <1>6
<1> DEFINE u == [i \in 1 .. n - 1 |-> IF i < p THEN i ELSE i + 1]
<1>8. \A i \in 1 .. n - 1 : u[i] \in 1 .. n /\ r[i] = s[u[i]] /\ u[i] # p
  BY <1>1, <1>2, <1>4
<1>9. \A i, j \in 1 .. n - 1 : i < j => u[i] < u[j]
  BY <1>1, <1>2
<1> HIDE DEF u
<1>10. IsInjective(r)
  <2> SUFFICES ASSUME NEW i \in 1 .. n - 1, NEW j \in 1 .. n - 1, r[i] = r[j], i < j PROVE FALSE
    BY <1>1, <1>5 DEF IsInjective
  <2>1. u[i] < u[j] /\ s[u[i]] = s[u[j]] /\ u[i] \in 1 .. n /\ u[j] \in 1 .. n
    BY <1>8, <1>9
  <2> QED BY <1>1, <2>1 DEF IsInjective
<1>11. r[1] = Background /\ r[2] = ConsoleLayer /\ r[n - 1] = Mouse /\ n - 1 >= 3
  BY <1>1, <1>2, <1>4
<1>12. \A i \in 1 .. n - 1 : r[i] = Mouse => i = n - 1
  BY <1>5, <1>10, <1>11 DEF IsInjective
<1>13. DeskOK(e)
  <2>1. Shows(e, Background)
    BY <1>4, <1>5, <1>7, <1>11 DEF Shows, Contains
  <2> QED BY <1>4, <1>5, <1>6, <1>7, <1>10, <1>12, <2>1 DEF DeskOK
<1> DEFINE w == [i \in 1 .. n |-> IF i < p THEN i ELSE i - 1]
<1>14. /\ \A i \in 1 .. n : i # p => w[i] \in 1 .. n - 1 /\ r[w[i]] # id /\ s[i] = r[w[i]]
       /\ \A i, j \in 1 .. n : i # p /\ j # p /\ i < j => w[i] < w[j]
       /\ \A k \in 1 .. n - 1 : \E i \in 1 .. n : i # p /\ w[i] = k
  <2>1. \A i \in 1 .. n : i # p => w[i] \in 1 .. n - 1 /\ s[i] = r[w[i]]
    BY <1>1, <1>2, <1>4
  <2>2. \A i \in 1 .. n : i # p => s[i] # id
    BY <1>2
  <2>3. \A i, j \in 1 .. n : i # p /\ j # p /\ i < j => w[i] < w[j]
    BY <1>1, <1>2
  <2>4. ASSUME NEW k \in 1 .. n - 1 PROVE \E i \in 1 .. n : i # p /\ w[i] = k
    <3>1. CASE k < p
      BY <1>1, <1>2, <3>1
    <3>2. CASE ~(k < p)
      <4>1. k + 1 \in 1 .. n /\ k + 1 # p /\ w[k + 1] = k
        BY <1>1, <1>2, <3>2
      <4> QED BY <4>1
    <3> QED BY <3>1, <3>2
  <2> QED BY <2>1, <2>2, <2>3, <2>4
<1> HIDE DEF w
<1>15. Placed(e, d, id, p, w)
  <2>1. /\ d.stack = s /\ e.stack = r /\ DOMAIN e.stack = 1 .. n - 1 /\ DOMAIN d.stack = 1 .. n
        /\ d.stack \in Seq(Layer) /\ p \in DOMAIN d.stack /\ d.stack[p] = id
    BY <1>1, <1>2, <1>5, <1>7 DEF s
  <2> QED BY ONLY <1>14, <2>1, Zenon DEF Placed
<1>16. /\ \A x \in Layer : Shows(d, x) <=> Shows(e, x) \/ x = id
       /\ \A a, b \in Layer \ {id} : Precedes(e, a, b) <=> Precedes(d, a, b)
  BY <1>1, <1>13, <1>15, PutInStack
<1>17. ~Shows(e, id)
  BY <1>2, <1>5, <1>7, <1>8 DEF Shows, Contains
<1>18. StackOK(e, absent \cup {id})
  <2>1. \A x \in Layer : Shows(e, x) <=> x \notin absent \cup {id}
    BY <1>16, <1>17 DEF StackOK
  <2> QED BY <1>4, <1>7, <1>11, <2>1 DEF StackOK
<1> QED
  BY <1>4, <1>7, <1>13, <1>16, <1>18 DEF OthersSame, n

\* A layer is inserted at a place above the console and below the mouse.
IsPut(d, absent, p, id, e) ==
  /\ DeskOK(d) /\ StackOK(d, absent) /\ id \in Draggable /\ ~Shows(d, id)
  /\ p \in 3 .. Len(d.stack) /\ e = [d EXCEPT !.stack = InsertAt(d.stack, p, id)]

LEMMA PutLayer ==
  ASSUME NEW d, NEW absent, NEW p, NEW id, NEW e, IsPut(d, absent, p, id, e)
  PROVE  /\ DeskOK(e) /\ OthersSame(d, e, id)
         /\ e.pos = d.pos /\ e.lit = d.lit /\ e.active = d.active
         /\ StackOK(e, absent \ {id})
         /\ Len(d.stack) \in Nat /\ Len(e.stack) = Len(d.stack) + 1 /\ e.stack[p] = id
         /\ p \in DOMAIN e.stack /\ Shows(e, id)
<1>0. /\ DeskOK(d) /\ StackOK(d, absent) /\ id \in Draggable /\ ~Shows(d, id)
      /\ p \in 3 .. Len(d.stack) /\ e = [d EXCEPT !.stack = InsertAt(d.stack, p, id)]
  BY DEF IsPut
<1> USE <1>0
<1> DEFINE s == d.stack
           n == Len(d.stack)
           new == InsertAt(s, p, id)
<1>1. /\ s \in Seq(Layer) /\ n \in Nat /\ n >= 3 /\ IsInjective(s) /\ DOMAIN s = 1 .. n
      /\ \A i \in 1 .. n : s[i] \in Layer
      /\ s[1] = Background /\ s[2] = ConsoleLayer /\ s[n] = Mouse
      /\ id \in Layer /\ id # Mouse /\ id # Background /\ id # ConsoleLayer
  <2>1. s \in Seq(Layer) /\ IsInjective(s)
    BY DEF DeskOK
  <2>2. n \in Nat /\ DOMAIN s = 1 .. n /\ \A i \in 1 .. n : s[i] \in Layer
    BY <2>1, LenProperties, ElementOfSeq
  <2> QED BY <2>1, <2>2, LayerNames DEF StackOK
<1>2. p \in 3 .. n /\ p \in Nat
  BY <1>1
<1>3. \A i \in 1 .. n : s[i] # id
  BY <1>1 DEF Shows, Contains
<1>4. e = [d EXCEPT !.stack = new]
  OBVIOUS
<1>5. /\ new \in Seq(Layer) /\ Len(new) = n + 1
      /\ \A i \in 1 .. n + 1 : new[i] = IF i < p THEN s[i] ELSE IF i = p THEN id ELSE s[i - 1]
  <2>1. p \in 1 .. Len(s) + 1 /\ id \in Layer /\ s \in Seq(Layer) /\ n = Len(s)
    BY <1>1, <1>2
  <2> HIDE DEF s, n
  <2>2. /\ InsertAt(s, p, id) \in Seq(Layer) /\ Len(InsertAt(s, p, id)) = Len(s) + 1
        /\ \A i \in 1 .. Len(s) + 1 :
             InsertAt(s, p, id)[i] = IF i < p THEN s[i] ELSE IF i = p THEN id ELSE s[i - 1]
    BY ONLY <2>1, InsertedLayer
  <2> QED BY ONLY <2>1, <2>2
<1> HIDE DEF s, n, new
<1>6. DOMAIN new = 1 .. n + 1 /\ n + 1 \in Nat /\ p \in 1 .. n + 1 /\ new[p] = id
  BY <1>1, <1>2, <1>5, LenProperties
<1>7. e = [stack |-> new, pos |-> d.pos, lit |-> d.lit, active |-> d.active,
           back |-> d.back, screen |-> d.screen]
  <2>1. d = [stack |-> d.stack, pos |-> d.pos, lit |-> d.lit, active |-> d.active,
             back |-> d.back, screen |-> d.screen]
    BY DEF DeskOK
  <2> QED BY ONLY <1>4, <2>1
<1>8. /\ e.stack = new /\ e.pos = d.pos /\ e.lit = d.lit /\ e.active = d.active
      /\ e.back = d.back /\ e.screen = d.screen
  BY <1>7
<1> DEFINE w == [i \in 1 .. n + 1 |-> IF i < p THEN i ELSE i - 1]
<1>9. /\ \A i \in 1 .. n + 1 : i # p => w[i] \in 1 .. n /\ s[w[i]] # id /\ new[i] = s[w[i]]
      /\ \A i, j \in 1 .. n + 1 : i # p /\ j # p /\ i < j => w[i] < w[j]
      /\ \A k \in 1 .. n : \E i \in 1 .. n + 1 : i # p /\ w[i] = k
  <2>1. \A i \in 1 .. n + 1 : i # p => w[i] \in 1 .. n /\ new[i] = s[w[i]]
    BY <1>1, <1>2, <1>5
  <2>2. \A i \in 1 .. n + 1 : i # p => s[w[i]] # id
    BY <1>3, <2>1
  <2>3. \A i, j \in 1 .. n + 1 : i # p /\ j # p /\ i < j => w[i] < w[j]
    BY <1>1, <1>2
  <2>4. ASSUME NEW k \in 1 .. n PROVE \E i \in 1 .. n + 1 : i # p /\ w[i] = k
    <3>1. CASE k < p
      BY <1>1, <1>2, <3>1
    <3>2. CASE ~(k < p)
      <4>1. k + 1 \in 1 .. n + 1 /\ k + 1 # p /\ w[k + 1] = k
        BY <1>1, <1>2, <3>2
      <4> QED BY <4>1
    <3> QED BY <3>1, <3>2
  <2> QED BY <2>1, <2>2, <2>3, <2>4
<1> HIDE DEF w
<1>10. Placed(d, e, id, p, w)
  <2>1. /\ d.stack = s /\ e.stack = new /\ DOMAIN d.stack = 1 .. n /\ DOMAIN e.stack = 1 .. n + 1
        /\ e.stack \in Seq(Layer) /\ p \in DOMAIN e.stack /\ e.stack[p] = id
    BY <1>1, <1>5, <1>6, <1>8 DEF s
  <2> QED BY ONLY <1>9, <2>1, Zenon DEF Placed
<1>11. /\ IsInjective(e.stack)
       /\ \A x \in Layer : Shows(e, x) <=> Shows(d, x) \/ x = id
       /\ \A a, b \in Layer \ {id} : Precedes(d, a, b) <=> Precedes(e, a, b)
  <2>1. DeskOK(d) /\ id \in Layer
    BY <1>1
  <2> QED BY ONLY <1>10, <2>1, PutInStack
<1>12. new[1] = Background /\ new[2] = ConsoleLayer /\ new[n + 1] = Mouse /\ n + 1 >= 3
  BY <1>1, <1>2, <1>5
<1>13. \A i \in 1 .. n + 1 : new[i] = Mouse => i = n + 1
  <2>1. n + 1 \in 1 .. n + 1
    BY <1>1
  <2> QED BY <1>6, <1>8, <1>11, <1>12, <2>1 DEF IsInjective
<1>14. DeskOK(e)
  <2>1. Shows(e, Background)
    BY <1>11, LayerNames DEF DeskOK
  <2> QED BY <1>5, <1>6, <1>7, <1>8, <1>11, <1>13, <2>1 DEF DeskOK
<1>15. StackOK(e, absent \ {id})
  <2>1. \A x \in Layer : Shows(e, x) <=> x \notin absent \ {id}
    BY <1>11 DEF StackOK
  <2> QED BY <1>5, <1>8, <1>12, <2>1 DEF StackOK
<1>16. Shows(e, id)
  BY <1>1, <1>11
<1> QED
  BY <1>1, <1>5, <1>6, <1>8, <1>11, <1>14, <1>15, <1>16 DEF OthersSame, n

\* The place below the mouse.
LEMMA PlaceBelowMouse ==
  ASSUME NEW d, DeskOK(d), NEW absent, StackOK(d, absent), NEW id
  PROVE  NewPosition(d, id, BelowMouse(d)) = Len(d.stack) - 1
<1> DEFINE n == Len(d.stack)
<1>1. /\ d.stack \in Seq(Layer) /\ n \in Nat /\ DOMAIN d.stack = 1 .. n /\ n >= 3
      /\ d.stack[n] = Mouse /\ \A i \in 1 .. n : d.stack[i] = Mouse => i = n
  BY LenProperties DEF DeskOK, StackOK
<1>2. GetHeight(d, Mouse) = n - 1
  <2>1. n \in 1 .. n
    BY <1>1
  <2>2. Shows(d, Mouse)
    BY <1>1, <2>1 DEF Shows, Contains
  <2>3. Index(d, Mouse) \in 1 .. n /\ d.stack[Index(d, Mouse)] = Mouse
    BY <1>1, <2>2, IndexFacts
  <2>4. Index(d, Mouse) = n
    BY <1>1, <2>3
  <2> QED BY <2>2, <2>4 DEF GetHeight
<1>3. BelowMouse(d) = n - 2 /\ n - 2 \in Int
  BY <1>1, <1>2 DEF BelowMouse
<1>4. Min({n - 2, n}) = n - 2
  BY <1>1, OfTwo
<1>5. NewPosition(d, id, n - 2) = n - 1
  BY <1>1, <1>4 DEF NewPosition
<1> QED
  BY <1>3, <1>5

\* The title bar of a layer becomes that of an active or an inactive window.
LEMMA LitFacts ==
  ASSUME NEW d, DeskOK(d), NEW id \in Draggable, NEW b \in BOOLEAN,
         NEW e, e = [d EXCEPT !.lit[id] = b]
  PROVE  /\ DeskOK(e) /\ OthersSame(d, e, id)
         /\ e.stack = d.stack /\ e.pos = d.pos /\ e.active = d.active
         /\ e.lit = [d.lit EXCEPT ![id] = b]
<1> DEFINE lit == [d.lit EXCEPT ![id] = b]
<1>1. d = [stack |-> d.stack, pos |-> d.pos, lit |-> d.lit, active |-> d.active,
           back |-> d.back, screen |-> d.screen]
  BY DEF DeskOK
<1>2. e = [d EXCEPT !.lit = lit]
  BY <1>1
<1>3. lit \in [Draggable -> BOOLEAN] /\ \A x \in Draggable \ {id} : lit[x] = d.lit[x]
  BY DEF DeskOK
<1> HIDE DEF lit
<1>4. e = [stack |-> d.stack, pos |-> d.pos, lit |-> lit, active |-> d.active,
           back |-> d.back, screen |-> d.screen]
  BY ONLY <1>1, <1>2
<1>5. /\ e.stack = d.stack /\ e.pos = d.pos /\ e.lit = lit /\ e.active = d.active
      /\ e.back = d.back /\ e.screen = d.screen
  BY <1>4
<1>6. DeskOK(e)
  BY <1>3, <1>4, <1>5 DEF DeskOK, Shows
<1>7. OthersSame(d, e, id)
  BY <1>3, <1>5 DEF OthersSame, Precedes
<1> QED
  BY <1>5, <1>6, <1>7 DEF lit

\* Another layer, or none, becomes the active one.
LEMMA MadeActive ==
  ASSUME NEW d, DeskOK(d), NEW id \in Draggable \cup {NoLayer},
         NEW e, e = [d EXCEPT !.active = id]
  PROVE  /\ DeskOK(e) /\ \A c \in ScreenCells : Kept(d, e, c)
         /\ e.stack = d.stack /\ e.pos = d.pos /\ e.lit = d.lit /\ e.active = id
         /\ e.back = d.back /\ e.screen = d.screen
<1>1. d = [stack |-> d.stack, pos |-> d.pos, lit |-> d.lit, active |-> d.active,
           back |-> d.back, screen |-> d.screen]
  BY DEF DeskOK
<1>2. e = [stack |-> d.stack, pos |-> d.pos, lit |-> d.lit, active |-> id,
           back |-> d.back, screen |-> d.screen]
  BY ONLY <1>1, e = [d EXCEPT !.active = id]
<1>3. /\ e.stack = d.stack /\ e.pos = d.pos /\ e.lit = d.lit /\ e.active = id
      /\ e.back = d.back /\ e.screen = d.screen
  BY <1>2
<1>4. DeskOK(e)
  BY <1>2, <1>3 DEF DeskOK, Shows
<1>5. \A c \in ScreenCells : Full(e, c) = Full(d, c)
  BY <1>3, <1>4, SameLook
<1> QED
  BY <1>3, <1>4, <1>5 DEF Kept, Fresh

\* The layer at a place, if there is one, is in the stack.
LEMMA LayerFound ==
  ASSUME NEW d, DeskOK(d), NEW cell, NEW exclude
  PROVE  LET hit == FindLayerByPosition(d, cell, exclude)
         IN hit = NoLayer \/ (hit \in Layer /\ Shows(d, hit))
<1> DEFINE S == {i \in DOMAIN d.stack : d.stack[i] # exclude /\ cell \in Area(d, d.stack[i])}
<1>1. /\ d.stack \in Seq(Layer) /\ Len(d.stack) \in Nat /\ DOMAIN d.stack = 1 .. Len(d.stack)
      /\ \A i \in DOMAIN d.stack : d.stack[i] \in Layer
  BY LenProperties, ElementOfSeq DEF DeskOK
<1>2. FindLayerByPosition(d, cell, exclude) = IF S = {} THEN NoLayer ELSE d.stack[Max(S)]
  BY DEF FindLayerByPosition
<1>3. S \in SUBSET (DOMAIN d.stack)
  OBVIOUS
<1> HIDE DEF S
<1>4. CASE S = {}
  BY <1>2, <1>4
<1>5. CASE S # {}
  <2>1. S \in SUBSET Nat /\ \A i \in S : i <= Len(d.stack)
    BY <1>1, <1>3
  <2>2. PICK m \in S : \A i \in S : i <= m
    BY <1>1, <1>5, <2>1, GreatestExists
  <2>3. \E x \in S : \A y \in S : x >= y
    BY <2>1, <2>2
  <2>4. Max(S) \in S
    BY ONLY <2>3, Zenon DEF Max
  <2>5. Max(S) \in DOMAIN d.stack
    BY <1>3, <2>4
  <2> QED BY <1>1, <1>2, <1>5, <2>5 DEF Shows, Contains
<1> QED
  BY <1>4, <1>5

\* One layer is drawn in the back buffer, in an area.
LEMMA OneDrawn ==
  ASSUME NEW d, DeskOK(d), NEW id, NEW area, NEW e, e = DrawSeq(d, <<id>>, area)
  PROVE  /\ DeskOK(e) /\ SameDesk(d, e) /\ e.screen = d.screen
         /\ \A c \in ScreenCells :
              /\ Full(e, c) = Full(d, c)
              /\ c \notin PaintedCells(d, id, area) => e.back[c] = d.back[c]
              /\ id \in Layer /\ c \in PaintedCells(d, id, area) =>
                   e.back[c] = Look(d, id, c - d.pos[id])
<1> DEFINE s == <<id>>
           back == Painted(d, s, area)
<1>1. DOMAIN s = {1} /\ s[1] = id /\ (id \in Layer => s \in Seq(Layer))
  OBVIOUS
<1>2. d = [stack |-> d.stack, pos |-> d.pos, lit |-> d.lit, active |-> d.active,
           back |-> d.back, screen |-> d.screen]
  BY DEF DeskOK
<1>3. e = [d EXCEPT !.back = back]
  BY DEF DrawSeq
<1> HIDE DEF back, s
<1>4. e = [stack |-> d.stack, pos |-> d.pos, lit |-> d.lit, active |-> d.active,
           back |-> back, screen |-> d.screen]
  BY ONLY <1>2, <1>3
<1>5. SameDesk(d, e) /\ e.back = back /\ e.screen = d.screen
  BY <1>4 DEF SameDesk
<1>6. DeskOK(e)
  BY <1>4, <1>5 DEF DeskOK, SameDesk, Shows
<1>7. ASSUME NEW c \in ScreenCells, c \notin PaintedCells(d, id, area) PROVE back[c] = d.back[c]
  <2>1. \A i \in DOMAIN s : c \notin PaintedCells(d, s[i], area)
    BY <1>1, <1>7
  <2> QED BY <2>1, NothingPainted DEF back
<1>8. ASSUME NEW c \in ScreenCells, id \in Layer, c \in PaintedCells(d, id, area)
      PROVE  back[c] = Look(d, id, c - d.pos[id])
  <2>1. /\ s \in Seq(Layer) /\ 1 \in DOMAIN s /\ c \in PaintedCells(d, s[1], area)
        /\ \A j \in DOMAIN s : c \in PaintedCells(d, s[j], area) => j <= 1
    BY <1>1, <1>8
  <2>2. Painted(d, s, area)[c] = Look(d, s[1], c - d.pos[s[1]])
    BY ONLY c \in ScreenCells, <2>1, LastPainted
  <2> QED BY <1>1, <2>2 DEF back
<1> QED
  BY <1>5, <1>6, <1>7, <1>8, SameFull

\* The mouse is on top, wherever it is.
LEMMA MouseOnTop ==
  ASSUME NEW d, DeskOK(d), NEW absent, StackOK(d, absent), NEW c \in ScreenCells,
         c = d.pos[Mouse]
  PROVE  Full(d, c) = Look(d, Mouse, c - d.pos[Mouse])
<1>1. /\ d.stack \in Seq(Layer) /\ d.pos \in [Layer -> Int]
      /\ Len(d.stack) \in Nat /\ DOMAIN d.stack = 1 .. Len(d.stack)
  BY LenProperties DEF DeskOK
<1>2. c \in Covered(d, Mouse) /\ Mouse \in Layer
  BY ZenonT(40), <1>1, LayerNames, PaintedCellsFacts
<1>3. Len(d.stack) \in DOMAIN d.stack /\ d.stack[Len(d.stack)] = Mouse
  BY <1>1 DEF StackOK
<1>4. IsTop(d, c, Mouse)
  BY <1>1, <1>2, <1>3 DEF IsTop
<1> QED
  BY <1>2, <1>4, TopFacts

\* The layers at their places are the same, whatever is in the buffers.
LEMMA SameCells ==
  ASSUME NEW d, NEW e, e.stack = d.stack, e.pos = d.pos
  PROVE  /\ \A id : Shows(e, id) <=> Shows(d, id)
         /\ \A id : Area(e, id) = Area(d, id) /\ Covered(e, id) = Covered(d, id)
         /\ \A id, area : PaintedCells(e, id, area) = PaintedCells(d, id, area)
         /\ \A w : RepaintedBy(e, w) = RepaintedBy(d, w)
<1>1. \A id : (Shows(e, id) <=> Shows(d, id)) /\ Area(e, id) = Area(d, id)
  BY DEF Shows, Area
<1>2. \A id, area : PaintedCells(e, id, area) = PaintedCells(d, id, area)
  BY <1>1 DEF PaintedCells
<1> QED
  BY <1>1, <1>2 DEF Covered, RepaintedBy

\* Nor does what is said of the stack and the active layer depend on the buffers.
LEMMA SameParts ==
  ASSUME NEW d, NEW e, SameDesk(d, e)
  PROVE  /\ \A absent : StackOK(d, absent) => StackOK(e, absent)
         /\ \A label, to, by : ActiveAt(d, label, to, by) => ActiveAt(e, label, to, by)
         /\ ActiveOK(d) => ActiveOK(e)
BY DEF SameDesk, StackOK, ActiveAt, ActiveOK, Shows

\* Where nothing is drawn.
LEMMA NoRepainting ==
  ASSUME NEW d
  PROVE  DrawOK(d, NoDraw) /\ RepaintedBy(d, NoDraw) = {}
<1>1. NoDraw.area = {}
  BY DEF NoDraw
<1> QED
  BY <1>1 DEF DrawOK, RepaintedBy

\* A loop begins: it will come to the layer to be seen in each of its cells.
LEMMA DrawBegins ==
  ASSUME NEW d, DeskOK(d), NEW w, w = [from |-> w.from, next |-> w.next, area |-> w.area],
         w.from = w.next, w.next \in 1 .. Len(d.stack) + 1
  PROVE  DrawOK(d, w)
<1> DEFINE k == w.next
           area == w.area
<1>1. /\ d.stack \in Seq(Layer) /\ d.pos \in [Layer -> Int] /\ IsInjective(d.stack)
      /\ DOMAIN d.stack = 1 .. Len(d.stack) /\ Len(d.stack) \in Nat
      /\ \A i \in DOMAIN d.stack : d.stack[i] \in Layer
  BY LenProperties, ElementOfSeq DEF DeskOK
<1>2. w.from = k /\ w.next = k /\ w.area = area
  OBVIOUS
<1>3. k \in Nat \ {0} /\ k \in k .. Len(d.stack) + 1
  BY <1>1
<1>4. ASSUME NEW c \in RepaintedBy(d, w), NEW i \in 1 .. k - 1, d.stack[i] = Full(d, c)[1]
      PROVE  FALSE
  <2>1. c \in ScreenCells /\ c \in area
    BY <1>2, <1>4 DEF RepaintedBy
  <2>2. PICK j \in k .. Len(d.stack) : c \in PaintedCells(d, d.stack[j], area)
    BY <1>2, <1>4 DEF RepaintedBy
  <2>3. j \in DOMAIN d.stack /\ c \in Covered(d, d.stack[j])
    <3>1. j \in DOMAIN d.stack
      BY <1>1, <1>3, <2>2
    <3> QED BY <1>1, <2>2, <3>1, PaintedCellsFacts
  <2>4. PICK l \in Layer : IsTop(d, c, l)
    BY <2>1, TopExists
  <2>5. Full(d, c)[1] = l
    BY <2>1, <2>4, TopFacts
  <2>6. PICK t \in DOMAIN d.stack : d.stack[t] = l /\ j <= t
    BY <2>3, <2>4 DEF IsTop
  <2>7. i \in DOMAIN d.stack /\ d.stack[i] = d.stack[t]
    BY <1>1, <1>3, <1>4, <2>5, <2>6
  <2>8. i = t
    BY <1>1, <2>6, <2>7 DEF IsInjective
  <2> QED BY <1>1, <1>3, <1>4, <2>2, <2>6, <2>8
<1> QED
  BY <1>2, <1>3, <1>4 DEF DrawOK

\* Draw of an area.
LEMMA AreaRepainted ==
  ASSUME NEW d, DeskOK(d), NEW area, NEW w, w = DrawScreenArea(area)
  PROVE  DrawOK(d, w) /\ \A c \in ScreenCells \cap area : c \in RepaintedBy(d, w)
<1>1. /\ d.stack \in Seq(Layer) /\ d.pos \in [Layer -> Int] /\ d.pos[Background] = 0
      /\ Len(d.stack) \in Nat /\ DOMAIN d.stack = 1 .. Len(d.stack)
  BY LenProperties DEF DeskOK
<1>2. w = [from |-> 1, next |-> 1, area |-> area] /\ w.from = 1 /\ w.next = 1 /\ w.area = area
      /\ w = [from |-> w.from, next |-> w.next, area |-> w.area]
  BY DEF DrawScreenArea
<1>3. DrawOK(d, w)
  BY <1>1, <1>2, DrawBegins
<1>4. PICK b \in 1 .. Len(d.stack) : d.stack[b] = Background
  BY DEF DeskOK, Shows, Contains
<1>5. ASSUME NEW c \in ScreenCells \cap area PROVE c \in PaintedCells(d, d.stack[b], area)
  <2>1. c \in Area(d, Background)
    BY <1>1, LayersAssumption DEF Area, ScreenCells
  <2> QED BY <1>1, <1>4, <2>1, LayerNames, PaintedCellsFacts
<1> QED
  BY <1>2, <1>3, <1>4, <1>5 DEF RepaintedBy

\* Draw of a part of a layer.
LEMMA LayerRepainted ==
  ASSUME NEW d, DeskOK(d), NEW id \in Layer, NEW rel, NEW junk, NEW w, w = DrawLayer(d, id, rel, junk)
  PROVE  /\ DrawOK(d, w)
         /\ Shows(d, id) => \A c \in Covered(d, id) : c - d.pos[id] \in rel => c \in RepaintedBy(d, w)
<1>1. /\ d.stack \in Seq(Layer) /\ d.pos \in [Layer -> Int]
      /\ Len(d.stack) \in Nat /\ Len(d.stack) + 1 \in 1 .. Len(d.stack) + 1
  BY LenProperties DEF DeskOK
<1>2. CASE Shows(d, id)
  <2> DEFINE area == Area(d, id) \cap {d.pos[id] + o : o \in rel}
             k == Index(d, id)
  <2>1. k \in 1 .. Len(d.stack) /\ d.stack[k] = id
    BY <1>1, <1>2, IndexFacts
  <2>2. w = [from |-> k, next |-> k, area |-> area]
    BY <1>2 DEF DrawLayer
  <2>3. ASSUME NEW c \in Covered(d, id), c - d.pos[id] \in rel
        PROVE  c \in ScreenCells /\ c \in area /\ c \in PaintedCells(d, d.stack[k], area)
    <3>1. c \in ScreenCells /\ c \in Area(d, id) /\ (id = Mouse => c = d.pos[Mouse])
      BY <1>1, PaintedCellsFacts
    <3>2. d.pos[id] \in Int /\ c \in Int
      BY <1>1, <3>1, AreaFacts
    <3>3. c = d.pos[id] + (c - d.pos[id])
      BY <3>2
    <3>4. c \in area
      BY <2>3, <3>1, <3>3
    <3> QED BY <1>1, <2>1, <3>1, <3>4, PaintedCellsFacts
  <2> HIDE DEF area, k
  <2>4. /\ w.from = k /\ w.next = k /\ w.area = area
        /\ w = [from |-> w.from, next |-> w.next, area |-> w.area]
        /\ k \in k .. Len(d.stack) /\ k \in 1 .. Len(d.stack) + 1
    BY <1>1, <2>1, <2>2
  <2>5. DrawOK(d, w)
    BY <2>4, DrawBegins
  <2> QED BY <2>3, <2>4, <2>5 DEF RepaintedBy
<1>3. CASE ~Shows(d, id)
  <2>1. w = [from |-> Len(d.stack) + 1, next |-> Len(d.stack) + 1, area |-> junk]
    BY <1>3 DEF DrawLayer
  <2>2. /\ w.from = w.next /\ w.next \in 1 .. Len(d.stack) + 1
        /\ w = [from |-> w.from, next |-> w.next, area |-> w.area]
    BY <1>1, <2>1
  <2> QED BY <1>3, <2>2, DrawBegins
<1> QED
  BY <1>2, <1>3

\* Draw of a whole layer.
LEMMA WholeRepainted ==
  ASSUME NEW d, DeskOK(d), NEW id \in Layer, NEW junk, NEW w, w = DrawLayer(d, id, Whole(id), junk)
  PROVE  DrawOK(d, w) /\ (Shows(d, id) => Covered(d, id) \subseteq RepaintedBy(d, w))
<1>1. \A c \in Covered(d, id) : c - d.pos[id] \in Whole(id)
  BY PaintedCellsFacts, AreaFacts DEF Whole, DeskOK
<1> QED
  BY <1>1, LayerRepainted

\* A loop goes on after something else was drawn.
LEMMA DrawKept ==
  ASSUME NEW d, DeskOK(d), NEW e, DeskOK(e), e.stack = d.stack, e.pos = d.pos,
         NEW w, DrawOK(d, w), \A c \in ScreenCells : Fresh(e, c) \/ Kept(d, e, c)
  PROVE  DrawOK(e, w)
<1>1. e.stack = d.stack /\ RepaintedBy(e, w) = RepaintedBy(d, w)
  BY SameCells
<1>2. ASSUME w # NoDraw, NEW c \in RepaintedBy(d, w), NEW i \in 1 .. w.next - 1,
             d.stack[i] = Full(e, c)[1]
      PROVE  e.back[c] = Full(e, c)
  <2>1. c \in ScreenCells
    BY DEF RepaintedBy
  <2>2. CASE Kept(d, e, c)
    BY <1>2, <2>2 DEF DrawOK, Kept
  <2> QED BY <2>1, <2>2 DEF Fresh
<1> QED
  BY <1>1, <1>2 DEF DrawOK

\* Whether a cell is stale.
LEMMA StaleParts ==
  \A c : c \in Stale <=> c \in Open \/ ((raced \/ log.next # 0) /\ c \in Area(desk, ConsoleLayer))
BY DEF Stale, Open, Waiting

\* Open stays the same if only the buffers change.
LEMMA SameOpen ==
  ASSUME NEW e, desk' = e, SameDesk(desk, e), UNCHANGED <<tasks, asked, mouseSeen>>
  PROVE  Open' = Open
<1>1. /\ stage' = stage /\ job' = job /\ draw' = draw /\ asked' = asked /\ mouseSeen' = mouseSeen
  BY DEF tasks
<1>2. desk'.stack = desk.stack /\ desk'.pos = desk.pos
  BY DEF SameDesk
<1>3. Repainted' = Repainted
  BY <1>1, <1>2 DEF Repainted, PaintedCells, Area
<1>4. ToDraw' = ToDraw
  BY <1>1, <1>2 DEF ToDraw, Shows, PaintedCells, Area
<1>5. Waiting' = Waiting
  BY <1>1, <1>2 DEF Waiting, Area
<1> QED
  BY <1>3, <1>4, <1>5 DEF Open

\* A step keeps the invariant if it leaves the desk in order, and nothing out of date
\* that is not about to be drawn.
LEMMA StepKeeps ==
  ASSUME LayersInv, LayersType', JobOK', NEW e, desk' = e, DeskOK(e), StackOK(e, Absent'),
         ActiveAt(e, stage', job'.to, job'.by), DrawOK(e, draw'),
         e.pos[Mouse] \in ScreenCells, e.pos[ConsoleLayer] = desk.pos[ConsoleLayer], log' = log,
         log.next # 0 /\ ~raced' => ~raced /\ e.stack = desk.stack,
         raced /\ ~raced' => \A c \in ScreenCells \cap Area(desk, ConsoleLayer) : Fresh(e, c),
         \A c \in ScreenCells \ Open' : Fresh(e, c) \/ (c \notin Open /\ Kept(desk, e, c))
  PROVE  LayersInv'
<1>1. Area(desk, ConsoleLayer)' = Area(desk, ConsoleLayer)
  BY DEF Area
<1>2. raced \in BOOLEAN /\ raced' \in BOOLEAN
  BY DEF LayersInv, LayersType
<1>3. \A c : c \in Stale' <=> c \in Open' \/ ((raced' \/ log.next # 0) /\ c \in Area(desk, ConsoleLayer))
  BY <1>1 DEF Stale, Open, Waiting
<1>4. \A c \in ScreenCells \ Stale' : Fresh(desk', c)
  <2> SUFFICES ASSUME NEW c \in ScreenCells, c \notin Stale' PROVE Fresh(e, c)
    OBVIOUS
  <2>1. CASE c \notin Open /\ Kept(desk, e, c) /\ ~Fresh(e, c)
    <3>1. c \notin Stale
      BY <1>2, <1>3, <2>1, StaleParts
    <3> QED BY <2>1, <3>1 DEF LayersInv, Kept
  <2> QED BY <1>3, <2>1
<1>5. LogOK'
  <2> SUFFICES ASSUME log.next # 0
               PROVE  /\ log.next >= 3 => log.found
                      /\ ~raced' =>
                           /\ log.end = Len(e.stack)
                           /\ \A c \in (ScreenCells \cap Area(desk, ConsoleLayer)) \ Open',
                                 i \in 1 .. log.next - 1 :
                                e.stack[i] = Full(e, c)[1] => e.back[c] = Full(e, c)
    BY <1>1 DEF LogOK
  <2>1. log.next >= 3 => log.found
    BY DEF LayersInv, LogOK
  <2>2. ASSUME ~raced' PROVE log.end = Len(e.stack) /\ e.stack = desk.stack /\ ~raced
    BY <2>2 DEF LayersInv, LogOK
  <2>3. ASSUME ~raced', NEW c \in (ScreenCells \cap Area(desk, ConsoleLayer)) \ Open',
               NEW i \in 1 .. log.next - 1, e.stack[i] = Full(e, c)[1]
        PROVE  e.back[c] = Full(e, c)
    <3>1. CASE Fresh(e, c)
      BY <3>1 DEF Fresh
    <3>2. CASE c \notin Open /\ Kept(desk, e, c)
      <4>1. desk.stack[i] = Full(desk, c)[1]
        BY <2>2, <2>3, <3>2 DEF Kept
      <4>2. desk.back[c] = Full(desk, c)
        BY <2>2, <2>3, <3>2, <4>1 DEF LayersInv, LogOK
      <4> QED BY <3>2, <4>2 DEF Kept
    <3> QED BY <2>3, <3>1, <3>2
  <2> QED BY <2>1, <2>2, <2>3
<1> QED
  BY <1>4, <1>5 DEF LayersInv

\* The parts of Open while nothing is drawn and nothing is about to be.
LEMMA NothingOpen ==
  ASSUME draw = NoDraw, stage \notin {"moved", "updown", "insert"}
  PROVE  Open = Waiting
<1>1. Repainted = {}
  BY NoRepainting DEF Repainted, RepaintedBy
<1>2. ToDraw = {}
  BY DEF ToDraw
<1> QED
  BY <1>1, <1>2 DEF Open

\* A step from one stage to another, which draws nothing.
LEMMA StageMoves ==
  ASSUME LayersInv, LayersType', JobOK', NEW e, desk' = e, DeskOK(e),
         e.stack = desk.stack, e.pos = desk.pos, \A c \in ScreenCells : Kept(desk, e, c),
         stage \notin {"moved", "updown", "insert"}, stage' \notin {"moved", "updown", "insert"},
         ActiveAt(e, stage', job'.to, job'.by),
         UNCHANGED <<draw, started, asked, mouseSeen, log, raced>>
  PROVE  LayersInv'
<1>1. /\ draw' = draw /\ started' = started /\ asked' = asked /\ mouseSeen' = mouseSeen
      /\ log' = log /\ raced' = raced
  OBVIOUS
<1>2. DeskOK(desk) /\ StackOK(desk, Absent) /\ DrawOK(desk, draw)
  BY DEF LayersInv
<1>3. Absent' = Absent
  BY <1>1 DEF Absent
<1>4. StackOK(e, Absent')
  BY <1>2, <1>3 DEF StackOK, Shows
<1>5. DrawOK(e, draw')
  BY <1>1, <1>2, DrawKept
<1>6. Repainted' = Repainted /\ Waiting' = Waiting
  BY <1>1 DEF Repainted, PaintedCells, Area, Waiting
<1>7. ToDraw' = {} /\ ToDraw = {}
  BY DEF ToDraw
<1>8. Open' = Open
  BY <1>6, <1>7 DEF Open
<1>9. e.pos[Mouse] \in ScreenCells /\ e.pos[ConsoleLayer] = desk.pos[ConsoleLayer]
  BY DEF LayersInv
<1> QED
  BY <1>1, <1>4, <1>5, <1>8, <1>9, StepKeeps

\* Move begins: what is drawn first is the area where the layer was, and what is to be
\* drawn then is the layer.
LEMMA MoveBegins ==
  ASSUME LayersInv, LayersType', JobOK', draw = NoDraw, stage \in {"wait", "events", "drag"},
         NEW id \in Layer \ {Background, ConsoleLayer}, NEW new \in Int,
         id = Mouse => new \in ScreenCells, id # Mouse => mouseSeen' = mouseSeen,
         BeginMove(id, new), job'.id = id, UNCHANGED <<started, asked, log, raced>>
  PROVE  LayersInv'
<1> DEFINE e == [desk EXCEPT !.pos[id] = new]
           pos == [desk.pos EXCEPT ![id] = new]
           area == Area(desk, id)
<1>1. /\ desk' = e /\ draw' = DrawScreenArea(area) /\ stage' = "moved"
      /\ started' = started /\ asked' = asked /\ log' = log /\ raced' = raced
  BY DEF BeginMove, OldArea
<1>2. /\ DeskOK(desk) /\ StackOK(desk, Absent) /\ ActiveOK(desk)
      /\ desk.pos \in [Layer -> Int] /\ desk.pos[Background] = 0
  BY DEF LayersInv, DeskOK, ActiveAt
<1>3. e = [stack |-> desk.stack, pos |-> pos, lit |-> desk.lit, active |-> desk.active,
           back |-> desk.back, screen |-> desk.screen]
  <2>1. desk = [stack |-> desk.stack, pos |-> desk.pos, lit |-> desk.lit, active |-> desk.active,
                back |-> desk.back, screen |-> desk.screen]
    BY <1>2 DEF DeskOK
  <2>2. e = [desk EXCEPT !.pos = pos]
    BY <2>1
  <2> HIDE DEF e, pos
  <2> QED BY ONLY <2>1, <2>2
<1>4. /\ pos \in [Layer -> Int] /\ pos[id] = new /\ \A x \in Layer \ {id} : pos[x] = desk.pos[x]
      /\ pos[Background] = 0
  BY <1>2, LayerNames
<1> HIDE DEF e, pos, area
<1>5. /\ e.stack = desk.stack /\ e.pos = pos /\ e.lit = desk.lit /\ e.active = desk.active
      /\ e.back = desk.back /\ e.screen = desk.screen
  BY <1>3
<1>6. DeskOK(e)
  BY <1>2, <1>3, <1>4, <1>5 DEF DeskOK, Shows
<1>7. OthersSame(desk, e, id)
  BY <1>4, <1>5 DEF OthersSame, Precedes
<1>8. DrawOK(e, draw') /\ \A c \in ScreenCells \cap area : c \in RepaintedBy(e, draw')
  <2>1. \A a, w : w = DrawScreenArea(a) =>
          DrawOK(e, w) /\ \A c \in ScreenCells \cap a : c \in RepaintedBy(e, w)
    BY <1>6, AreaRepainted
  <2> QED BY <1>1, <2>1
<1>9. \A c \in ScreenCells : c \in area => c \in Open'
  <2>1. Repainted' = RepaintedBy(e, draw')
    BY <1>1 DEF Repainted, RepaintedBy
  <2> QED BY <1>8, <2>1 DEF Open
<1>10. \A c \in Covered(e, id) : Shows(e, id) => c \in Open'
  <2> SUFFICES ASSUME Shows(e, id) PROVE \A c \in Covered(e, id) : c \in Open'
    OBVIOUS
  <2>1. stage' = "moved" /\ Shows(desk', job'.id) /\ job'.id = id /\ desk' = e
    BY <1>1
  <2>2. ToDraw' = PaintedCells(desk', job'.id, ScreenCells)
    BY <2>1 DEF ToDraw
  <2> QED BY <2>1, <2>2 DEF Open, Covered
<1>11. ASSUME NEW c \in ScreenCells, c \notin Open', c \in Waiting PROVE FALSE
  <2>1. c \notin area /\ c \notin Waiting'
    BY <1>9, <1>11 DEF Open
  <2>2. desk'.pos = pos
    BY <1>1, <1>5
  <2>3. CASE ~mouseSeen /\ c = desk.pos[Mouse]
    <3>1. id # Mouse
      BY <1>2, <2>1, <2>3, LayerNames, AreaFacts DEF area
    <3>2. desk'.pos[Mouse] = desk.pos[Mouse] /\ mouseSeen' = mouseSeen
      BY <1>4, <2>2, <3>1, LayerNames
    <3> QED BY <2>1, <2>3, <3>2 DEF Waiting
  <2>4. CASE asked > 0 /\ c \in Area(desk, TerminalWindow) \ {desk.pos[TerminalWindow]}
    <3>1. id # TerminalWindow
      BY <2>1, <2>4 DEF area
    <3>2. desk'.pos[TerminalWindow] = desk.pos[TerminalWindow] /\ TerminalWindow \in Layer
      BY <1>4, <2>2, <3>1, LayerNames
    <3>3. Area(desk, TerminalWindow)' = Area(desk, TerminalWindow)
      BY <3>2 DEF Area
    <3> QED BY <1>1, <2>1, <2>4, <3>2, <3>3 DEF Waiting
  <2> QED BY <1>11, <2>3, <2>4 DEF Waiting
<1>12. Open = Waiting
  BY NothingOpen
<1>13. ASSUME NEW c \in ScreenCells \ Open' PROVE c \notin Open /\ Kept(desk, e, c)
  <2>1. c \notin area /\ (Shows(e, id) => c \notin Covered(e, id))
    BY <1>9, <1>10, <1>13
  <2>2. c \notin Covered(desk, id)
    BY <1>2, <2>1, PaintedCellsFacts DEF area
  <2>3. Kept(desk, e, c)
    BY <1>2, <1>6, <1>7, <1>13, <2>1, <2>2, KeptElsewhere
  <2> QED BY <1>11, <1>12, <1>13, <2>3
<1>14. StackOK(e, Absent')
  <2>1. Absent' = Absent
    BY <1>1 DEF Absent
  <2> QED BY <1>2, <1>5, <2>1 DEF StackOK, Shows
<1>15. ActiveAt(e, stage', job'.to, job'.by)
  BY <1>1, <1>2, <1>5 DEF ActiveAt, ActiveOK
<1>16. e.pos[Mouse] \in ScreenCells /\ e.pos[ConsoleLayer] = desk.pos[ConsoleLayer]
  BY <1>4, <1>5, LayerNames DEF LayersInv
<1> QED
  BY <1>1, <1>5, <1>6, <1>8, <1>13, <1>14, <1>15, <1>16, StepKeeps

\* A window has got new contents, or not, and its drawing begins.
LEMMA UpdateBegins ==
  ASSUME LayersInv, LayersType', JobOK', draw = NoDraw, stage \in {"wait", "top", "events"},
         stage' \in {"wait", "top", "events"}, NEW id \in Layer, Shows(desk, id),
         NEW e \in {desk, Rewritten(desk, id)}, desk' = e,
         draw' = DrawLayer(desk, id, Whole(id), {}),
         UNCHANGED <<started, asked, mouseSeen, log, raced>>
  PROVE  LayersInv'
<1>1. started' = started /\ asked' = asked /\ mouseSeen' = mouseSeen /\ log' = log /\ raced' = raced
  OBVIOUS
<1>2. DeskOK(desk) /\ StackOK(desk, Absent) /\ ActiveOK(desk)
  BY DEF LayersInv, ActiveAt
<1>3. /\ DeskOK(e) /\ SameDesk(desk, e)
      /\ \A c \in ScreenCells : c \notin Covered(desk, id) => Kept(desk, e, c)
  <2>1. CASE e = desk
    BY <1>2, <2>1 DEF SameDesk, Kept
  <2>2. CASE e = Rewritten(desk, id)
    BY <1>2, <2>2, RewrittenFacts
  <2> QED BY <2>1, <2>2
<1>4. e.stack = desk.stack /\ e.pos = desk.pos
  BY <1>3 DEF SameDesk
<1>5. Shows(e, id) /\ Covered(e, id) = Covered(desk, id)
  BY <1>4, SameCells
<1>6. draw' = DrawLayer(e, id, Whole(id), {})
  BY <1>4 DEF DrawLayer, Shows, Index, Area
<1>7. DrawOK(e, draw') /\ Covered(e, id) \subseteq RepaintedBy(e, draw')
  BY <1>3, <1>5, <1>6, WholeRepainted
<1>8. Open = Waiting /\ Waiting' = Waiting
  BY <1>1, <1>4, NothingOpen DEF Waiting, Area
<1>9. Repainted' = RepaintedBy(e, draw')
  BY DEF Repainted, RepaintedBy
<1>10. \A c \in ScreenCells \ Open' : c \notin Open /\ Kept(desk, e, c)
  BY <1>3, <1>5, <1>7, <1>8, <1>9 DEF Open
<1>11. Absent' = Absent
  BY <1>1 DEF Absent
<1>12. StackOK(e, Absent') /\ ActiveOK(e)
  BY <1>2, <1>3, <1>11, SameParts
<1>13. ActiveAt(e, stage', job'.to, job'.by)
  BY <1>12 DEF ActiveAt
<1>14. e.pos[Mouse] \in ScreenCells /\ e.pos[ConsoleLayer] = desk.pos[ConsoleLayer]
  BY <1>4 DEF LayersInv
<1> QED
  BY <1>1, <1>3, <1>4, <1>7, <1>10, <1>12, <1>13, <1>14, StepKeeps

\* What is shown when no layer is on its way.
LEMMA ShownLayers ==
  ASSUME LayersInv, stage # "insert"
  PROVE  /\ \A id \in Layer : Shows(desk, id) <=> id # TerminalWindow \/ started
         /\ stage \notin {"raise", "updown"} /\ desk.active # NoLayer => Shows(desk, desk.active)
<1>1. \A id \in Layer : Shows(desk, id) <=> id # TerminalWindow \/ started
  BY DEF LayersInv, StackOK, Absent
<1>2. ASSUME stage \notin {"raise", "updown"}, desk.active # NoLayer PROVE Shows(desk, desk.active)
  BY <1>2, LenProperties DEF LayersInv, ActiveAt, ActiveOK, Shows, Contains, DeskOK
<1> QED
  BY <1>1, <1>2

LEMMA JobParts ==
  /\ NoJob \in Jobs
  /\ \A w \in Jobs : /\ w.id \in Layer \cup {NoLayer} /\ w.then \in Ends \cup {"drag", "activate"}
                     /\ w.to \in Draggable \cup {NoLayer} /\ w.by \in Int /\ w.end \in Ends
                     /\ w = [id |-> w.id, then |-> w.then, to |-> w.to, by |-> w.by, end |-> w.end]
BY DEF NoJob, Jobs, Ends

\* The steps of the main task that begin to draw a window.
LEMMA MainActions ==
  ASSUME LayersInv, LoopTop \/ MainBlinks \/ MainTakesKey \/ MainPrintsKey \/ MainLogs
  PROVE  LayersInv'
<1>1. /\ draw = NoDraw /\ stage \in {"wait", "top", "events"}
      /\ LayersType /\ JobOK
  BY DEF LayersInv, LoopTop, MainBlinks, MainTakesKey, MainPrintsKey, MainLogs, IsAt
<1>2. UNCHANGED <<drag, pressed, log, raced, started, keys, asked, moves, logs, mouseSeen>>
  BY DEF LoopTop, MainBlinks, MainTakesKey, MainPrintsKey, MainLogs, counts
<1>3. /\ stage' \in {"wait", "top", "events"} /\ job' \in {job, NoJob}
  BY DEF LoopTop, MainBlinks, MainTakesKey, MainPrintsKey, MainLogs
<1>4. LayersType'
  BY <1>1, <1>2 DEF LayersType
<1>5. JobOK'
  BY <1>1, <1>2, <1>3, JobParts DEF JobOK, Ends
<1>6. \A id \in Layer : id # TerminalWindow => Shows(desk, id)
  BY <1>1, ShownLayers
<1>7. \E id \in Layer \ {TerminalWindow} :
        /\ desk' \in {desk, Rewritten(desk, id)}
        /\ draw' = DrawLayer(desk, id, Whole(id), {})
  <2>1. /\ MainWindow \in Layer \ {TerminalWindow} /\ TextWindow \in Layer \ {TerminalWindow}
        /\ ConsoleLayer \in Layer \ {TerminalWindow}
    BY LayerNames
  <2> QED BY <2>1 DEF LoopTop, MainBlinks, MainTakesKey, MainPrintsKey, MainLogs, Updates
<1>8. PICK id \in Layer \ {TerminalWindow} : /\ desk' \in {desk, Rewritten(desk, id)}
                                             /\ draw' = DrawLayer(desk, id, Whole(id), {})
  BY <1>7
<1>9. PICK e \in {desk, Rewritten(desk, id)} : desk' = e
  BY <1>8
<1>10. started' = started /\ asked' = asked /\ mouseSeen' = mouseSeen /\ log' = log /\ raced' = raced
  BY <1>2
<1> QED
  BY <1>1, <1>3, <1>4, <1>5, <1>6, <1>8, <1>9, <1>10, UpdateBegins

\* A key is sent to the terminal, and the start of the terminal ends.
LEMMA PlainActions ==
  ASSUME LayersInv, MainSendsKey \/ TerminalReady
  PROVE  LayersInv'
<1>1. /\ draw = NoDraw /\ stage \in {"wait", "sti"}
      /\ LayersType /\ JobOK /\ DeskOK(desk) /\ ActiveOK(desk)
  BY DEF LayersInv, MainSendsKey, TerminalReady, IsAt, ActiveAt
<1>2. UNCHANGED <<desk, draw, drag, pressed, log, raced, started, asked, moves, logs, mouseSeen>>
  BY DEF MainSendsKey, TerminalReady, counts
<1>3. stage' \in {"wait", "top"} /\ job' \in {job, NoJob}
  BY DEF MainSendsKey, TerminalReady
<1>4. keys' = keys \/ (keys' = keys + 1 /\ started)
  <2>1. CASE MainSendsKey
    <3>1. desk.active = TerminalWindow /\ keys' = keys + 1 /\ stage = "wait"
      BY <2>1 DEF MainSendsKey, IsAt
    <3> QED BY <3>1, LayerNames, ShownLayers
  <2>2. CASE TerminalReady
    BY <2>2 DEF TerminalReady, counts
  <2> QED BY <2>1, <2>2
<1>5. LayersType'
  BY <1>1, <1>2, <1>4 DEF LayersType
<1>6. JobOK'
  BY <1>1, <1>2, <1>3, JobParts DEF JobOK, Ends
<1>7. ActiveAt(desk, stage', job'.to, job'.by)
  BY <1>1, <1>3 DEF ActiveAt
<1>8. \A c \in ScreenCells : Kept(desk, desk, c)
  BY DEF Kept
<1> QED
  BY <1>1, <1>2, <1>3, <1>5, <1>6, <1>7, <1>8, StageMoves

\* The mouse stays on the screen.
LEMMA MouseStays ==
  ASSUME NEW p \in ScreenCells, NEW dx \in Int
  PROVE  Max({0, Min({p + dx, ScreenWidth - 1})}) \in ScreenCells
<1> DEFINE a == p + dx
           m == Min({a, ScreenWidth - 1})
<1>1. p \in Int /\ p >= 0 /\ ScreenWidth - 1 \in Int /\ ScreenWidth - 1 >= 0
  BY LayersAssumption DEF ScreenCells
<1>2. a \in Int
  BY <1>1
<1> HIDE DEF a
<1>3. m = IF a <= ScreenWidth - 1 THEN a ELSE ScreenWidth - 1
  BY <1>1, <1>2, OfTwo
<1>4. m \in Int /\ m <= ScreenWidth - 1
  BY <1>1, <1>2, <1>3
<1> HIDE DEF m
<1>5. Max({0, m}) = IF 0 <= m THEN m ELSE 0
  <2>1. \A x, y \in Int : Max({x, y}) = IF x <= y THEN y ELSE x
    BY OfTwo
  <2> QED BY ONLY <1>4, <2>1
<1>6. Max({0, m}) \in 0 .. ScreenWidth - 1
  BY <1>1, <1>4, <1>5
<1> QED
  BY <1>6 DEF a, m, ScreenCells

\* An interrupt of the mouse.
LEMMA MouseActions ==
  ASSUME LayersInv, NEW dx \in -1 .. 1, NEW left \in BOOLEAN, OnInterrupt(dx, left)
  PROVE  LayersInv'
<1> DEFINE new == Max({0, Min({desk.pos[Mouse] + dx, ScreenWidth - 1})})
           hit == FindLayerByPosition(desk, new, Mouse)
<1>1. /\ draw = NoDraw /\ stage \in {"wait", "events"} /\ BeginMove(Mouse, new)
      /\ mouseSeen' = TRUE /\ pressed' = left
      /\ UNCHANGED <<log, raced, started, keys, asked, logs>>
  BY DEF OnInterrupt, IsAt
<1>2. \E label \in Ends \cup {"drag", "activate"}, to \in Draggable \cup {NoLayer}, by \in Int :
        /\ job' = [id |-> Mouse, then |-> label, to |-> to, by |-> by, end |-> "events"]
        /\ drag' \in {drag, NoLayer} \/ (drag' = hit /\ hit \in Draggable)
        /\ label = "drag" => drag' = drag /\ drag # NoLayer
  <2>1. desk.pos[Mouse] \in Int /\ desk.pos[Mouse] \in ScreenCells /\ new \in Int
    <3>1. desk.pos[Mouse] \in ScreenCells
      BY DEF LayersInv
    <3>2. new \in ScreenCells
      BY <3>1, MouseStays
    <3> HIDE DEF new
    <3> QED BY <3>1, <3>2 DEF ScreenCells
  <2>2. new - desk.pos[Mouse] \in Int /\ 0 \in Int
    BY <2>1
  <2> HIDE DEF new, hit
  <2>3. \/ /\ hit \in Draggable /\ drag' = hit
           /\ job' = [id |-> Mouse, then |-> "activate", to |-> hit, by |-> 0, end |-> "events"]
        \/ /\ drag' = drag
           /\ job' = [id |-> Mouse, then |-> "activate", to |-> NoLayer, by |-> 0, end |-> "events"]
        \/ /\ drag' = drag /\ drag = NoLayer
           /\ job' = [id |-> Mouse, then |-> "events", to |-> NoLayer, by |-> 0, end |-> "events"]
        \/ /\ drag' = drag /\ drag # NoLayer
           /\ job' = [id |-> Mouse, then |-> "drag", to |-> NoLayer, by |-> new - desk.pos[Mouse],
                      end |-> "events"]
        \/ /\ drag' \in {drag, NoLayer}
           /\ job' = [id |-> Mouse, then |-> "events", to |-> NoLayer, by |-> 0, end |-> "events"]
    BY DEF OnInterrupt, new, hit
  <2>4. "activate" # "drag" /\ "events" # "drag"
    OBVIOUS
  <2>5. "activate" \in Ends \cup {"drag", "activate"} /\ "events" \in Ends \cup {"drag", "activate"}
        /\ "drag" \in Ends \cup {"drag", "activate"}
    BY DEF Ends
  <2> QED BY <2>2, <2>3, <2>4, <2>5
<1>3. new \in ScreenCells
  BY MouseStays DEF LayersInv
<1> HIDE DEF new
<1>4. new \in Int /\ Mouse \in Layer \ {Background, ConsoleLayer} /\ Mouse \in Layer
  BY <1>3, LayerNames DEF ScreenCells
<1>5. LayersType /\ JobOK /\ DeskOK(desk)
  BY DEF LayersInv
<1>6. hit = TerminalWindow => started
  <2>1. hit = NoLayer \/ (hit \in Layer /\ Shows(desk, hit))
    BY <1>5, LayerFound
  <2> QED BY <1>1, <2>1, LayerNames, ShownLayers
<1> HIDE DEF hit
<1>7. PICK label \in Ends \cup {"drag", "activate"}, to \in Draggable \cup {NoLayer}, by \in Int :
        /\ job' = [id |-> Mouse, then |-> label, to |-> to, by |-> by, end |-> "events"]
        /\ drag' \in {drag, NoLayer} \/ (drag' = hit /\ hit \in Draggable)
        /\ label = "drag" => drag' = drag /\ drag # NoLayer
  BY <1>2
<1>8. /\ drag' \in Draggable \cup {NoLayer} /\ (drag' = TerminalWindow => started)
      /\ (label = "drag" => drag' \in Draggable)
  BY <1>5, <1>6, <1>7, LayerNames DEF LayersType
<1>9. LayersType'
  BY <1>1, <1>5, <1>8 DEF LayersType
<1>10. JobOK'
  <2>1. job' \in Jobs /\ job'.id = Mouse /\ job'.then = label
    BY <1>4, <1>7 DEF Jobs, Ends
  <2>2. stage' = "moved"
    BY <1>1 DEF BeginMove
  <2> QED BY <1>4, <1>8, <2>1, <2>2 DEF JobOK
<1>11. job'.id = Mouse
  BY <1>7
<1>12. UNCHANGED <<started, asked, log, raced>>
  BY <1>1
<1> QED
  BY <1>1, <1>3, <1>4, <1>9, <1>10, <1>11, <1>12, MoveBegins

\* A window is dragged after the mouse.
LEMMA DragActions ==
  ASSUME LayersInv, Drags
  PROVE  LayersInv'
<1> DEFINE new == desk.pos[drag] + job.by
<1>1. /\ draw = NoDraw /\ stage = "drag" /\ BeginMove(drag, new)
      /\ job' = [job EXCEPT !.id = drag, !.then = job.end]
      /\ UNCHANGED <<drag, pressed, log, raced, started, keys, asked, moves, logs, mouseSeen>>
  BY DEF Drags, IsAt, counts
<1>2. LayersType /\ JobOK /\ desk.pos \in [Layer -> Int]
  BY DEF LayersInv, DeskOK
<1>3. drag \in Draggable /\ drag \in Layer \ {Background, ConsoleLayer} /\ drag # Mouse /\ new \in Int
  <2>1. drag \in Draggable
    BY <1>1, <1>2 DEF JobOK
  <2>2. drag \in Layer /\ job.by \in Int
    BY <1>2, <2>1, LayerNames, JobParts DEF JobOK
  <2> QED BY <1>2, <2>1, <2>2, LayerNames
<1> HIDE DEF new
<1>4. job' = [id |-> drag, then |-> job.end, to |-> job.to, by |-> job.by, end |-> job.end]
  <2>1. job = [id |-> job.id, then |-> job.then, to |-> job.to, by |-> job.by, end |-> job.end]
    BY <1>2, JobParts DEF JobOK
  <2> QED BY ONLY <1>1, <2>1
<1>5. LayersType'
  BY <1>1, <1>2 DEF LayersType
<1>6. JobOK'
  <2>1. job' \in Jobs /\ job'.id = drag
    BY <1>2, <1>3, <1>4, JobParts DEF JobOK, Jobs
  <2>2. stage' = "moved"
    BY <1>1 DEF BeginMove
  <2> QED BY <1>1, <1>3, <2>1, <2>2 DEF JobOK
<1>7. job'.id = drag /\ mouseSeen' = mouseSeen /\ UNCHANGED <<started, asked, log, raced>>
  BY <1>1, <1>4
<1> QED
  BY <1>1, <1>3, <1>5, <1>6, <1>7, MoveBegins

\* The terminal moves its window to its place, before it is shown.
LEMMA StartActions ==
  ASSUME LayersInv, TerminalStarts
  PROVE  LayersInv'
<1>1. /\ draw = NoDraw /\ stage = "wait" /\ BeginMove(TerminalWindow, Start[TerminalWindow])
      /\ job' = [id |-> TerminalWindow, then |-> "activate", to |-> TerminalWindow, by |-> 0,
                 end |-> "sti"]
      /\ UNCHANGED <<drag, pressed, log, raced, started, keys, asked, moves, logs, mouseSeen>>
  BY DEF TerminalStarts, IsAt, counts
<1>2. LayersType /\ JobOK
  BY DEF LayersInv
<1>3. /\ TerminalWindow \in Draggable /\ TerminalWindow \in Layer \ {Background, ConsoleLayer}
      /\ TerminalWindow # Mouse /\ Start[TerminalWindow] \in Int /\ TerminalWindow \in Layer
  BY LayerNames, LayersAssumption DEF ScreenCells
<1>4. LayersType'
  BY <1>1, <1>2 DEF LayersType
<1>5. JobOK'
  <2>1. job' \in Jobs /\ job'.id = TerminalWindow /\ job'.then = "activate"
    BY <1>1, <1>3 DEF Jobs, Ends
  <2>2. stage' = "moved"
    BY <1>1 DEF BeginMove
  <2> QED BY <1>1, <1>3, <2>1, <2>2 DEF JobOK
<1>6. job'.id = TerminalWindow /\ mouseSeen' = mouseSeen /\ UNCHANGED <<started, asked, log, raced>>
  BY <1>1
<1> QED
  BY <1>1, <1>3, <1>4, <1>5, <1>6, MoveBegins

\* A layer is different, or was to be drawn, and its drawing begins.
LEMMA LayerBegins ==
  ASSUME LayersInv, LayersType', JobOK', draw = NoDraw, NEW id \in Layer, NEW e, desk' = e,
         DeskOK(e), StackOK(e, Absent'), ActiveAt(e, stage', job'.to, job'.by),
         e.pos = desk.pos, OthersSame(desk, e, id), Shows(desk, id) => Shows(e, id),
         \A c \in ToDraw : Shows(e, id) /\ c \in Covered(e, id),
         NEW junk, draw' = DrawLayer(e, id, Whole(id), junk),
         UNCHANGED <<asked, mouseSeen, log>>, raced => raced',
         log.next # 0 /\ ~raced' => e.stack = desk.stack
  PROVE  LayersInv'
<1>1. asked' = asked /\ mouseSeen' = mouseSeen /\ log' = log
  OBVIOUS
<1>2. DeskOK(desk)
  BY DEF LayersInv
<1>3. DrawOK(e, draw') /\ (Shows(e, id) => Covered(e, id) \subseteq RepaintedBy(e, draw'))
  BY WholeRepainted
<1>4. Repainted' = RepaintedBy(e, draw')
  BY DEF Repainted, RepaintedBy
<1>5. Waiting' = Waiting
  BY <1>1 DEF Waiting, Area
<1>6. Repainted = {}
  BY NoRepainting DEF Repainted, RepaintedBy
<1>7. Covered(e, id) = Covered(desk, id)
  BY DEF Covered, PaintedCells, Area
<1>8. ASSUME NEW c \in ScreenCells \ Open' PROVE c \notin Open /\ Kept(desk, e, c)
  <2>1. c \notin Waiting /\ (Shows(e, id) => c \notin Covered(e, id))
    BY <1>3, <1>4, <1>5, <1>8 DEF Open
  <2>2. c \notin Open
    BY <1>6, <2>1 DEF Open
  <2>3. Kept(desk, e, c)
    BY <1>2, <1>7, <1>8, <2>1, KeptElsewhere
  <2> QED BY <2>2, <2>3
<1>9. e.pos[Mouse] \in ScreenCells /\ e.pos[ConsoleLayer] = desk.pos[ConsoleLayer]
  BY DEF LayersInv
<1> QED
  BY <1>1, <1>3, <1>8, <1>9, StepKeeps

\* Move draws the layer at its new place.
LEMMA MovedActions ==
  ASSUME LayersInv, Moved
  PROVE  LayersInv'
<1>1. PICK junk : draw' = DrawLayer(desk, job.id, Whole(job.id), junk)
  BY DEF Moved
<1>2. /\ draw = NoDraw /\ stage = "moved" /\ stage' = job.then
      /\ UNCHANGED <<desk, job, drag, pressed, log, raced, started, keys, asked, moves, logs, mouseSeen>>
  BY DEF Moved, IsAt, counts
<1>3. /\ DeskOK(desk) /\ StackOK(desk, Absent) /\ ActiveOK(desk) /\ LayersType /\ JobOK
  BY <1>2 DEF LayersInv, ActiveAt
<1>4. PICK id \in Layer : id = job.id
  BY <1>2, <1>3 DEF JobOK
<1>5. stage' \in {"top", "events", "sti", "drag", "activate"}
  BY <1>2, <1>3, JobParts DEF JobOK, Ends
<1>6. LayersType'
  BY <1>2, <1>3 DEF LayersType
<1>7. JobOK'
  BY <1>2, <1>3, <1>5 DEF JobOK, Ends
<1>8. Absent' = Absent
  BY <1>2, <1>5 DEF Absent
<1>9. ActiveAt(desk, stage', job'.to, job'.by)
  BY <1>3, <1>5 DEF ActiveAt
<1>10. ToDraw = IF Shows(desk, id) THEN Covered(desk, id) ELSE {}
  BY <1>2, <1>4 DEF ToDraw, Covered
<1>11. OthersSame(desk, desk, id)
  BY DEF OthersSame
<1>12. draw' = DrawLayer(desk, id, Whole(id), junk)
  BY <1>1, <1>4
<1>13. StackOK(desk, Absent')
  BY <1>3, <1>8
<1>14. desk' = desk
  BY <1>2
<1>15. \A c \in ToDraw : Shows(desk, id) /\ c \in Covered(desk, id)
  BY <1>10
<1>16. UNCHANGED <<asked, mouseSeen, log>> /\ raced' = raced
  BY <1>2
<1> QED
  BY <1>2, <1>3, <1>6, <1>7, <1>9, <1>11, <1>12, <1>13, <1>14, <1>15, <1>16, LayerBegins

\* Activate tells the active layer, if there is one.
LEMMA DeactivateActions ==
  ASSUME LayersInv, Deactivates
  PROVE  LayersInv'
<1>1. /\ draw = NoDraw /\ stage = "activate"
      /\ UNCHANGED <<job, drag, pressed, log, raced, started, keys, asked, moves, logs, mouseSeen>>
  BY DEF Deactivates, IsAt, counts
<1>2. /\ DeskOK(desk) /\ StackOK(desk, Absent) /\ ActiveOK(desk) /\ LayersType /\ JobOK
      /\ job.end \in {"top", "events", "sti"}
  BY <1>1, JobParts DEF LayersInv, ActiveAt, JobOK, Ends
<1>3. LayersType'
  BY <1>1, <1>2 DEF LayersType
<1>4. stage' \in {job.end, "raise"}
  BY DEF Deactivates
<1>5. JobOK'
  BY <1>1, <1>2, <1>4 DEF JobOK, Ends
<1>6. CASE UNCHANGED <<desk, draw>> /\ (stage' = job.end \/ desk.active = NoLayer)
  <2>1. ActiveAt(desk, stage', job'.to, job'.by)
    <3>1. CASE stage' = job.end
      BY <1>2, <3>1 DEF ActiveAt
    <3>2. CASE stage' = "raise" /\ desk.active = NoLayer
      <4>1. \A id \in Draggable : ~desk.lit[id]
        BY <1>2, <3>2, LayerNames DEF ActiveOK
      <4> QED BY <3>2, <4>1 DEF ActiveAt
    <3> QED BY <1>4, <1>6, <3>1, <3>2
  <2>2. \A c \in ScreenCells : Kept(desk, desk, c)
    BY DEF Kept
  <2>3. /\ stage \notin {"moved", "updown", "insert"} /\ stage' \notin {"moved", "updown", "insert"}
        /\ desk' = desk /\ UNCHANGED <<draw, started, asked, mouseSeen, log, raced>>
    BY <1>1, <1>2, <1>4, <1>6
  <2> QED BY <1>2, <1>3, <1>5, <2>1, <2>2, <2>3, StageMoves
<1>7. CASE /\ desk.active # NoLayer /\ stage' = "raise"
           /\ desk' = [desk EXCEPT !.lit[desk.active] = FALSE]
           /\ draw' = DrawLayer(desk, desk.active, Whole(desk.active), {})
  <2>1. PICK id \in Draggable : id = desk.active
    BY <1>2, <1>7 DEF DeskOK
  <2>2. PICK e : e = [desk EXCEPT !.lit[id] = FALSE]
    OBVIOUS
  <2>3. /\ DeskOK(e) /\ OthersSame(desk, e, id)
        /\ e.stack = desk.stack /\ e.pos = desk.pos /\ e.active = desk.active
        /\ e.lit = [desk.lit EXCEPT ![id] = FALSE]
    <3>1. \A b \in BOOLEAN : \A f : f = [desk EXCEPT !.lit[id] = b] =>
            /\ DeskOK(f) /\ OthersSame(desk, f, id)
            /\ f.stack = desk.stack /\ f.pos = desk.pos /\ f.active = desk.active
            /\ f.lit = [desk.lit EXCEPT ![id] = b]
      BY <1>2, LitFacts
    <3> QED BY <2>2, <3>1
  <2>4. desk' = e /\ id \in Layer
    BY <1>7, <2>1, <2>2, LayerNames
  <2>5. \A x \in Draggable : ~e.lit[x]
    BY <1>2, <2>1, <2>3 DEF ActiveOK, DeskOK
  <2>6. ActiveAt(e, stage', job'.to, job'.by)
    BY <1>7, <2>5 DEF ActiveAt
  <2>7. Shows(desk, id)
    BY <1>1, <1>7, <2>1, ShownLayers
  <2>8. Shows(e, id)
    BY <2>3, <2>7 DEF Shows
  <2>9. draw' = DrawLayer(e, id, Whole(id), {})
    BY <1>7, <2>1, <2>3 DEF DrawLayer, Shows, Index, Area
  <2>10. Absent' = Absent
    BY <1>1, <1>7 DEF Absent
  <2>11. StackOK(e, Absent')
    BY <1>2, <2>3, <2>10 DEF StackOK, Shows
  <2>12. ToDraw = {}
    BY <1>1 DEF ToDraw
  <2>13. UNCHANGED <<asked, mouseSeen, log>> /\ raced' = raced
    BY <1>1
  <2> QED BY <1>1, <1>3, <1>5, <2>3, <2>4, <2>6, <2>8, <2>9, <2>11, <2>12, <2>13, LayerBegins
<1> QED
  BY <1>6, <1>7 DEF Deactivates

\* Then the new one.
LEMMA ActivateActions ==
  ASSUME LayersInv, Activates
  PROVE  LayersInv'
<1>1. /\ draw = NoDraw /\ stage = "raise"
      /\ UNCHANGED <<job, draw, drag, pressed, log, raced, started, keys, asked, moves, logs, mouseSeen>>
  BY DEF Activates, IsAt, counts
<1>2. /\ DeskOK(desk) /\ StackOK(desk, Absent) /\ LayersType /\ JobOK
      /\ \A id \in Draggable : ~desk.lit[id]
      /\ job.end \in {"top", "events", "sti"} /\ job.to \in Draggable \cup {NoLayer}
  BY <1>1, JobParts DEF LayersInv, ActiveAt, JobOK, Ends
<1>3. LayersType'
  BY <1>1, <1>2 DEF LayersType
<1>4. CASE job.to = NoLayer /\ desk' = [desk EXCEPT !.active = NoLayer] /\ stage' = job.end
  <2>1. PICK e : e = [desk EXCEPT !.active = NoLayer]
    OBVIOUS
  <2>2. /\ DeskOK(e) /\ \A c \in ScreenCells : Kept(desk, e, c)
        /\ e.stack = desk.stack /\ e.pos = desk.pos /\ e.lit = desk.lit /\ e.active = NoLayer
    <3>1. \A id \in Draggable \cup {NoLayer} : \A f : f = [desk EXCEPT !.active = id] =>
            /\ DeskOK(f) /\ \A c \in ScreenCells : Kept(desk, f, c)
            /\ f.stack = desk.stack /\ f.pos = desk.pos /\ f.lit = desk.lit /\ f.active = id
      BY <1>2, MadeActive
    <3> QED BY <2>1, <3>1
  <2>3. ActiveOK(e)
    BY <1>2, <2>2, LayerNames DEF ActiveOK
  <2>4. ActiveAt(e, stage', job'.to, job'.by)
    BY <1>2, <1>4, <2>3 DEF ActiveAt
  <2>5. JobOK'
    BY <1>1, <1>2, <1>4 DEF JobOK, Ends
  <2>6. /\ stage \notin {"moved", "updown", "insert"} /\ stage' \notin {"moved", "updown", "insert"}
        /\ desk' = e /\ UNCHANGED <<draw, started, asked, mouseSeen, log, raced>>
    BY <1>1, <1>2, <1>4, <2>1
  <2> QED BY <1>3, <2>2, <2>4, <2>5, <2>6, StageMoves
<1>5. CASE /\ job.to # NoLayer /\ stage' = "updown"
           /\ desk' = [desk EXCEPT !.active = job.to, !.lit[job.to] = TRUE]
  <2>1. PICK id \in Draggable : id = job.to
    BY <1>2, <1>5
  <2>2. PICK m : m = [desk EXCEPT !.active = id]
    OBVIOUS
  <2>3. /\ DeskOK(m) /\ m.stack = desk.stack /\ m.pos = desk.pos /\ m.lit = desk.lit
        /\ m.active = id /\ m.back = desk.back /\ m.screen = desk.screen
    <3>1. \A x \in Draggable \cup {NoLayer} : \A f : f = [desk EXCEPT !.active = x] =>
            /\ DeskOK(f) /\ f.stack = desk.stack /\ f.pos = desk.pos /\ f.lit = desk.lit
            /\ f.active = x /\ f.back = desk.back /\ f.screen = desk.screen
      BY <1>2, MadeActive
    <3> QED BY <2>1, <2>2, <3>1
  <2>4. PICK e : e = [m EXCEPT !.lit[id] = TRUE]
    OBVIOUS
  <2>5. /\ DeskOK(e) /\ OthersSame(m, e, id)
        /\ e.stack = m.stack /\ e.pos = m.pos /\ e.active = m.active
        /\ e.lit = [m.lit EXCEPT ![id] = TRUE]
    <3>1. \A b \in BOOLEAN : \A f : f = [m EXCEPT !.lit[id] = b] =>
            /\ DeskOK(f) /\ OthersSame(m, f, id)
            /\ f.stack = m.stack /\ f.pos = m.pos /\ f.active = m.active
            /\ f.lit = [m.lit EXCEPT ![id] = b]
      BY <2>3, LitFacts
    <3> QED BY <2>4, <3>1
  <2>6. desk' = e
    <3>1. desk = [stack |-> desk.stack, pos |-> desk.pos, lit |-> desk.lit, active |-> desk.active,
                  back |-> desk.back, screen |-> desk.screen]
      BY <1>2 DEF DeskOK
    <3>2. desk' = [desk EXCEPT !.active = id, !.lit[id] = TRUE]
      BY <1>5, <2>1
    <3> QED BY ONLY <2>2, <2>4, <3>1, <3>2
  <2>7. OthersSame(desk, e, id)
    BY <2>3, <2>5 DEF OthersSame, Precedes
  <2>8. e.active = id /\ \A x \in Draggable : e.lit[x] <=> id = x
    BY <1>2, <2>3, <2>5 DEF DeskOK
  <2>9. job' = job /\ draw' = NoDraw
    BY <1>1
  <2>10. ActiveAt(e, stage', job'.to, job'.by)
    BY <1>5, <2>1, <2>8, <2>9 DEF ActiveAt
  <2>11. JobOK'
    BY <1>2, <1>5, <2>1, <2>9 DEF JobOK
  <2>12. StackOK(e, Absent')
    <3>1. Absent' = Absent
      BY <1>1, <1>5 DEF Absent
    <3> QED BY <1>2, <2>3, <2>5, <3>1 DEF StackOK, Shows
  <2>13. DrawOK(e, draw')
    BY <2>9, NoRepainting
  <2>14. ToDraw' = Covered(e, id)
    BY <1>5, <2>1, <2>6, <2>9 DEF ToDraw, Covered
  <2>15. Waiting' = Waiting /\ Open = Waiting
    BY <1>1, <2>3, <2>5, <2>6, NothingOpen DEF Waiting, Area
  <2>16. Covered(e, id) = Covered(desk, id) /\ id \in Layer
    BY <2>3, <2>5, LayerNames DEF Covered, PaintedCells, Area
  <2>17. ASSUME NEW c \in ScreenCells \ Open' PROVE c \notin Open /\ Kept(desk, e, c)
    <3>1. c \notin Waiting /\ c \notin Covered(e, id) /\ c \notin Covered(desk, id)
      BY <2>14, <2>15, <2>16, <2>17 DEF Open
    <3> QED BY <1>2, <2>5, <2>7, <2>15, <2>16, <2>17, <3>1, KeptElsewhere
  <2>18. /\ e.pos[Mouse] \in ScreenCells /\ e.pos[ConsoleLayer] = desk.pos[ConsoleLayer]
         /\ e.stack = desk.stack /\ log' = log /\ raced' = raced
    BY <1>1, <2>3, <2>5 DEF LayersInv
  <2> QED BY <1>3, <2>5, <2>6, <2>10, <2>11, <2>12, <2>13, <2>17, <2>18, StepKeeps
<1> QED
  BY <1>4, <1>5 DEF Activates

\* UpDown takes the layer out of the stack, where it is to be drawn later.
LEMMA EraseActions ==
  ASSUME LayersInv, Erases
  PROVE  LayersInv'
<1>1. /\ draw = NoDraw /\ stage = "updown" /\ Shows(desk, job.to) /\ stage' = "insert"
      /\ job' = [job EXCEPT !.by = NewPosition(desk, job.to, BelowMouse(desk))]
      /\ desk' = [desk EXCEPT !.stack = RemoveAt(@, Index(desk, job.to))]
      /\ raced' = (raced \/ log.next # 0)
      /\ UNCHANGED <<draw, drag, pressed, log, started, keys, asked, moves, logs, mouseSeen>>
  BY DEF Erases, IsAt, counts
<1>2. /\ DeskOK(desk) /\ StackOK(desk, Absent) /\ LayersType /\ JobOK
      /\ desk.active = job.to /\ \A x \in Draggable : desk.lit[x] <=> job.to = x
  BY <1>1 DEF LayersInv, ActiveAt
<1>3. PICK id \in Draggable : id = job.to
  BY <1>1, <1>2 DEF JobOK
<1>4. PICK e : e = [desk EXCEPT !.stack = RemoveAt(desk.stack, Index(desk, id))]
  OBVIOUS
<1>5. /\ DeskOK(e) /\ OthersSame(desk, e, id)
      /\ e.pos = desk.pos /\ e.lit = desk.lit /\ e.active = desk.active
      /\ StackOK(e, Absent \cup {id}) /\ Len(e.stack) = Len(desk.stack) - 1
  <2>1. \A f : f = [desk EXCEPT !.stack = RemoveAt(desk.stack, Index(desk, id))] =>
          /\ DeskOK(f) /\ OthersSame(desk, f, id)
          /\ f.pos = desk.pos /\ f.lit = desk.lit /\ f.active = desk.active
          /\ StackOK(f, Absent \cup {id}) /\ Len(f.stack) = Len(desk.stack) - 1
    BY <1>1, <1>2, <1>3, ErasedLayer
  <2> QED BY <1>4, <2>1
<1>6. desk' = e
  BY <1>1, <1>3, <1>4
<1>7. job' = [id |-> job.id, then |-> job.then, to |-> id, by |-> Len(e.stack), end |-> job.end]
  <2>1. NewPosition(desk, job.to, BelowMouse(desk)) = Len(e.stack)
    BY <1>2, <1>5, PlaceBelowMouse
  <2>2. job = [id |-> job.id, then |-> job.then, to |-> job.to, by |-> job.by, end |-> job.end]
    BY <1>2, JobParts DEF JobOK
  <2>3. job' = [job EXCEPT !.by = Len(e.stack)]
    BY <1>1, <2>1
  <2> QED BY ONLY <1>3, <2>2, <2>3
<1>8. job'.to = id /\ job'.by = Len(e.stack) /\ Len(e.stack) \in Int /\ draw' = NoDraw
  BY <1>1, <1>5, <1>7, LenProperties DEF DeskOK
<1>9. LayersType'
  <2>1. raced' \in BOOLEAN
    BY <1>1, <1>2 DEF LayersType
  <2> QED BY <1>1, <1>2, <2>1 DEF LayersType
<1>10. JobOK'
  <2>1. job' \in Jobs
    BY <1>2, <1>3, <1>7, <1>8, JobParts DEF JobOK, Jobs
  <2> QED BY <1>1, <1>3, <1>8, <2>1 DEF JobOK
<1>11. ActiveAt(e, stage', job'.to, job'.by)
  BY <1>1, <1>2, <1>3, <1>5, <1>8 DEF ActiveAt
<1>12. StackOK(e, Absent')
  <2>1. \A x \in Layer : x \in Absent' <=> x \in Absent \cup {id}
    BY <1>1, <1>3, <1>8 DEF Absent
  <2> QED BY <1>5, <2>1 DEF StackOK
<1>13. DrawOK(e, draw')
  BY <1>8, NoRepainting
<1>14. ToDraw' = Covered(e, id) /\ ToDraw = Covered(desk, id)
  BY <1>1, <1>3, <1>6, <1>8 DEF ToDraw, Covered
<1>15. Waiting' = Waiting
  BY <1>1, <1>5, <1>6 DEF Waiting, Area
<1>16. Repainted = {}
  BY <1>1, NoRepainting DEF Repainted, RepaintedBy
<1>17. Covered(e, id) = Covered(desk, id) /\ id \in Layer
  BY <1>5, LayerNames DEF Covered, PaintedCells, Area
<1>18. ASSUME NEW c \in ScreenCells \ Open' PROVE c \notin Open /\ Kept(desk, e, c)
  <2>1. c \notin Waiting /\ c \notin Covered(e, id)
    BY <1>14, <1>15, <1>18 DEF Open
  <2> QED BY <1>2, <1>5, <1>14, <1>16, <1>17, <1>18, <2>1, KeptElsewhere DEF Open
<1>19. /\ e.pos[Mouse] \in ScreenCells /\ e.pos[ConsoleLayer] = desk.pos[ConsoleLayer]
       /\ log' = log /\ ~(log.next # 0 /\ ~raced') /\ (raced => raced')
  BY <1>1, <1>5 DEF LayersInv
<1> QED
  BY <1>5, <1>6, <1>9, <1>10, <1>11, <1>12, <1>13, <1>18, <1>19, StepKeeps

\* It is put below the mouse and drawn.
LEMMA InsertActions ==
  ASSUME LayersInv, Inserts
  PROVE  LayersInv'
<1> DEFINE place == IF stage = "insert" THEN job.by ELSE NewPosition(desk, job.to, BelowMouse(desk))
<1>1. /\ draw = NoDraw /\ stage \in {"insert", "updown"} /\ stage' = job.end
      /\ stage = "updown" => ~Shows(desk, job.to)
      /\ desk' = [desk EXCEPT !.stack = InsertAt(desk.stack, place, job.to)]
      /\ draw' = DrawLayer(desk', job.to, Whole(job.to), {})
      /\ started' = (started \/ job.to = TerminalWindow)
      /\ raced' = (raced \/ log.next # 0)
      /\ UNCHANGED <<job, drag, pressed, log, keys, asked, moves, logs, mouseSeen>>
  BY DEF Inserts, IsAt
<1>2. /\ DeskOK(desk) /\ StackOK(desk, Absent) /\ LayersType /\ JobOK
      /\ desk.active = job.to /\ \A x \in Draggable : desk.lit[x] <=> job.to = x
      /\ stage = "insert" => job.by = Len(desk.stack)
      /\ job.end \in {"top", "events", "sti"}
  BY <1>1, JobParts DEF LayersInv, ActiveAt, JobOK, Ends
<1>3. PICK id \in Draggable : id = job.to
  BY <1>1, <1>2 DEF JobOK
<1>4. id \in Layer /\ started \in BOOLEAN /\ raced \in BOOLEAN
  BY <1>2, LayerNames DEF LayersType
<1>5. ~Shows(desk, id)
  <2>1. CASE stage = "insert"
    BY <1>2, <1>3, <1>4, <2>1 DEF StackOK, Absent
  <2> QED BY <1>1, <1>3, <2>1
<1>6. /\ Len(desk.stack) \in Nat /\ place \in 3 .. Len(desk.stack)
      /\ place >= Len(desk.stack) + 1 - (IF id = TerminalWindow THEN 2 ELSE 1)
  <2>1. Len(desk.stack) \in Nat /\ Len(desk.stack) >= 3 /\ DOMAIN desk.stack = 1 .. Len(desk.stack)
    BY <1>2, LenProperties DEF DeskOK, StackOK
  <2>2. CASE stage = "insert"
    <3>1. place = Len(desk.stack)
      BY <1>2, <2>2
    <3> HIDE DEF place
    <3> QED BY <2>1, <3>1
  <2>3. CASE stage = "updown"
    <3>1. place = Len(desk.stack) - 1
      BY <1>2, <2>3, PlaceBelowMouse
    <3>2. id = TerminalWindow /\ Shows(desk, MainWindow) /\ MainWindow \in Layer
      BY <1>1, <1>2, <1>4, <1>5, <2>3, LayerNames DEF StackOK, Absent
    <3>3. PICK i \in 1 .. Len(desk.stack) : desk.stack[i] = MainWindow
      BY <2>1, <3>2 DEF Shows, Contains
    <3>4. i # 1 /\ i # 2 /\ i # Len(desk.stack)
      BY <1>2, <3>3, LayerNames DEF StackOK
    <3>5. Len(desk.stack) >= 4
      BY <2>1, <3>4
    <3> HIDE DEF place
    <3> QED BY <2>1, <3>1, <3>2, <3>5
  <2> QED BY <1>1, <2>2, <2>3
<1>7. PICK p \in 3 .. Len(desk.stack) : p = place
  BY <1>6
<1> HIDE DEF place
<1>8. PICK e : e = [desk EXCEPT !.stack = InsertAt(desk.stack, p, id)]
  OBVIOUS
<1>9. /\ DeskOK(e) /\ OthersSame(desk, e, id)
      /\ e.pos = desk.pos /\ e.lit = desk.lit /\ e.active = desk.active
      /\ StackOK(e, Absent \ {id})
      /\ Len(e.stack) = Len(desk.stack) + 1 /\ e.stack[p] = id
      /\ p \in DOMAIN e.stack /\ Shows(e, id)
  <2>1. IsPut(desk, Absent, p, id, e)
    BY <1>2, <1>5, <1>8 DEF IsPut
  <2> QED BY ONLY <2>1, PutLayer
<1>10. desk' = e
  BY <1>1, <1>3, <1>7, <1>8
<1>11. draw' = DrawLayer(e, id, Whole(id), {})
  BY <1>1, <1>3, <1>10
<1>12. LayersType'
  <2>1. raced' \in BOOLEAN /\ started' \in BOOLEAN /\ (started => started')
    BY <1>1, <1>4
  <2> QED BY <1>1, <1>2, <2>1 DEF LayersType
<1>13. JobOK'
  BY <1>1, <1>2 DEF JobOK, Ends
<1>14. ActiveOK(e)
  <2>1. e.active = id /\ \A x \in Draggable : e.lit[x] <=> e.active = x
    BY <1>2, <1>3, <1>9
  <2>2. p >= Len(e.stack) - (IF e.active = TerminalWindow THEN 2 ELSE 1)
    <3>1. p >= Len(desk.stack) + 1 - (IF id = TerminalWindow THEN 2 ELSE 1)
      BY <1>6, <1>7
    <3>2. Len(desk.stack) \in Nat /\ Len(e.stack) = Len(desk.stack) + 1
      BY <1>6, <1>9
    <3>3. CASE id = TerminalWindow
      BY <2>1, <3>1, <3>2, <3>3
    <3>4. CASE id # TerminalWindow
      BY <2>1, <3>1, <3>2, <3>4
    <3> QED BY <3>3, <3>4
  <2> QED BY <1>9, <2>1, <2>2 DEF ActiveOK
<1>15. ActiveAt(e, stage', job'.to, job'.by)
  BY <1>1, <1>2, <1>14 DEF ActiveAt
<1>16. StackOK(e, Absent')
  <2>1. \A x \in Layer : x \in Absent' <=> x \in Absent \ {id}
    BY <1>1, <1>2, <1>3 DEF Absent
  <2> QED BY <1>9, <2>1 DEF StackOK
<1>17. \A c \in ToDraw : Shows(e, id) /\ c \in Covered(e, id)
  <2>1. ToDraw = Covered(desk, id)
    BY <1>1, <1>3 DEF ToDraw, Covered
  <2>2. Covered(e, id) = Covered(desk, id)
    BY <1>9 DEF Covered, PaintedCells, Area
  <2> QED BY <1>9, <2>1, <2>2
<1>18. /\ UNCHANGED <<asked, mouseSeen, log>> /\ (raced => raced')
       /\ ~(log.next # 0 /\ ~raced')
  BY <1>1
<1> QED
  BY <1>1, <1>4, <1>9, <1>10, <1>11, <1>12, <1>13, <1>15, <1>16, <1>17, <1>18, LayerBegins

\* The terminal changes its window and asks for that to be drawn.
LEMMA TypesActions ==
  ASSUME LayersInv, TerminalTypes
  PROVE  LayersInv'
<1>1. /\ draw = NoDraw /\ stage = "wait" /\ keys > 0 /\ keys' = keys - 1 /\ asked' = asked + 1
      /\ desk' = Rewritten(desk, TerminalWindow)
      /\ stage' = stage /\ job' = job /\ draw' = draw
      /\ UNCHANGED <<drag, pressed, log, raced, started, moves, logs, mouseSeen>>
  BY DEF TerminalTypes, IsAt, tasks
<1>2. DeskOK(desk) /\ StackOK(desk, Absent) /\ LayersType /\ JobOK
  BY DEF LayersInv
<1>3. PICK e : e = Rewritten(desk, TerminalWindow)
  OBVIOUS
<1>4. TerminalWindow \in Layer /\ TerminalWindow \in Draggable /\ TerminalWindow # Mouse
  BY LayerNames
<1>5. /\ DeskOK(e) /\ SameDesk(desk, e)
      /\ \A c \in ScreenCells : c \notin Covered(desk, TerminalWindow) => Kept(desk, e, c)
      /\ \A c \in ScreenCells : c = desk.pos[TerminalWindow] => Kept(desk, e, c)
  BY <1>2, <1>3, <1>4, RewrittenFacts
<1>6. desk' = e /\ e.stack = desk.stack /\ e.pos = desk.pos
  BY <1>1, <1>3, <1>5 DEF SameDesk
<1>7. asked \in Nat /\ asked' \in Nat /\ asked' > 0 /\ keys' \in Nat /\ started
  BY <1>1, <1>2 DEF LayersType
<1>8. LayersType'
  BY <1>1, <1>2, <1>7 DEF LayersType
<1>9. JobOK'
  BY <1>1, <1>2 DEF JobOK
<1>10. Absent' = Absent
  BY <1>1 DEF Absent
<1>11. StackOK(e, Absent') /\ ActiveAt(e, stage', job'.to, job'.by)
  BY <1>1, <1>2, <1>5, <1>10, SameParts DEF LayersInv
<1>12. DrawOK(e, draw')
  BY <1>1, NoRepainting
<1>13. Open = Waiting
  BY <1>1, NothingOpen
<1>14. Waiting \subseteq Waiting' /\ Waiting' \subseteq Open'
       /\ Area(desk, TerminalWindow) \ {desk.pos[TerminalWindow]} \subseteq Waiting'
  BY <1>1, <1>6, <1>7 DEF Waiting, Open, Area
<1>15. ASSUME NEW c \in ScreenCells \ Open' PROVE c \notin Open /\ Kept(desk, e, c)
  <2>1. c \notin Open /\ (c \notin Area(desk, TerminalWindow) \/ c = desk.pos[TerminalWindow])
    BY <1>13, <1>14, <1>15
  <2>2. c \notin Covered(desk, TerminalWindow) \/ c = desk.pos[TerminalWindow]
    BY <1>2, <1>4, <2>1, PaintedCellsFacts DEF DeskOK
  <2> QED BY <1>5, <1>15, <2>1, <2>2
<1>16. /\ e.pos[Mouse] \in ScreenCells /\ e.pos[ConsoleLayer] = desk.pos[ConsoleLayer]
       /\ log' = log /\ raced' = raced
  BY <1>1, <1>6 DEF LayersInv
<1> QED
  BY <1>5, <1>6, <1>8, <1>9, <1>11, <1>12, <1>15, <1>16, StepKeeps

\* The main task begins to draw what the terminal has asked for.
LEMMA MessageActions ==
  ASSUME LayersInv, ProcessLayerMessage
  PROVE  LayersInv'
<1>1. /\ draw = NoDraw /\ stage = "wait" /\ asked > 0 /\ asked' = asked - 1 /\ stage' = "top"
      /\ draw' = DrawLayer(desk, TerminalWindow, Whole(TerminalWindow) \ {0}, {})
      /\ UNCHANGED <<desk, job, drag, pressed, log, raced, started, keys, moves, logs, mouseSeen>>
  BY DEF ProcessLayerMessage, IsAt
<1>2. DeskOK(desk) /\ StackOK(desk, Absent) /\ ActiveOK(desk) /\ LayersType /\ JobOK
  BY <1>1 DEF LayersInv, ActiveAt
<1>3. TerminalWindow \in Layer /\ TerminalWindow # Mouse
  BY LayerNames
<1>4. asked' \in Nat /\ started
  BY <1>1, <1>2 DEF LayersType
<1>5. LayersType'
  BY <1>1, <1>2, <1>4 DEF LayersType
<1>6. JobOK'
  BY <1>1, <1>2 DEF JobOK, Ends
<1>7. Shows(desk, TerminalWindow)
  BY <1>1, <1>3, <1>4, ShownLayers
<1>8. /\ DrawOK(desk, draw')
      /\ \A c \in Covered(desk, TerminalWindow) :
           c - desk.pos[TerminalWindow] \in Whole(TerminalWindow) \ {0} => c \in RepaintedBy(desk, draw')
  <2>1. \A rel, junk : \A w : w = DrawLayer(desk, TerminalWindow, rel, junk) =>
          /\ DrawOK(desk, w)
          /\ \A c \in Covered(desk, TerminalWindow) :
               c - desk.pos[TerminalWindow] \in rel => c \in RepaintedBy(desk, w)
    BY <1>2, <1>3, <1>7, LayerRepainted
  <2> QED BY <1>1, <2>1
<1>9. Repainted' = RepaintedBy(desk, draw')
  BY <1>1 DEF Repainted, RepaintedBy
<1>10. Absent' = Absent
  BY <1>1 DEF Absent
<1>11. ActiveAt(desk, stage', job'.to, job'.by)
  BY <1>1, <1>2 DEF ActiveAt
<1>12. Open = Waiting
  BY <1>1, NothingOpen
<1>13. ASSUME NEW c \in ScreenCells \ Open' PROVE c \notin Open
  <2>1. c \notin Waiting' /\ c \notin RepaintedBy(desk, draw')
    BY <1>9, <1>13 DEF Open
  <2>2. ~(~mouseSeen /\ c = desk.pos[Mouse])
    BY <1>1, <2>1 DEF Waiting
  <2>3. c \notin Area(desk, TerminalWindow) \ {desk.pos[TerminalWindow]}
    <3> SUFFICES ASSUME c \in Area(desk, TerminalWindow), c # desk.pos[TerminalWindow] PROVE FALSE
      OBVIOUS
    <3>1. c \in Covered(desk, TerminalWindow)
      BY <1>2, <1>3, <1>13, PaintedCellsFacts DEF DeskOK
    <3>2. c - desk.pos[TerminalWindow] \in Whole(TerminalWindow) \ {0}
      BY <1>2, <1>3, AreaFacts DEF DeskOK, Whole
    <3> QED BY <1>8, <2>1, <3>1, <3>2
  <2> QED BY <1>12, <2>2, <2>3 DEF Waiting
<1>14. \A c \in ScreenCells : Kept(desk, desk, c)
  BY DEF Kept
<1>15. /\ desk.pos[Mouse] \in ScreenCells /\ desk' = desk /\ log' = log /\ raced' = raced
  BY <1>1 DEF LayersInv
<1>16. StackOK(desk, Absent')
  BY <1>2, <1>10
<1> QED
  BY <1>2, <1>5, <1>6, <1>8, <1>11, <1>13, <1>14, <1>15, <1>16, StepKeeps

\* One layer of the loop of Draw in the main task, or in the start of the terminal.
LEMMA DrawActions ==
  ASSUME LayersInv, DrawsOne
  PROVE  LayersInv'
<1> DEFINE k == draw.next
           id == desk.stack[k]
           area == draw.area
<1>1. /\ k \in 1 .. Len(desk.stack) /\ desk' = DrawSeq(desk, <<id>>, area)
      /\ draw' = [draw EXCEPT !.next = k + 1]
      /\ UNCHANGED <<stage, job, drag, pressed, log, raced, started, keys, asked, mouseSeen>>
  BY DEF DrawsOne, counts
<1>2. /\ DeskOK(desk) /\ StackOK(desk, Absent) /\ LayersType /\ JobOK /\ DrawOK(desk, draw)
      /\ ActiveAt(desk, stage, job.to, job.by)
  BY DEF LayersInv
<1>3. /\ desk.stack \in Seq(Layer) /\ desk.pos \in [Layer -> Int] /\ IsInjective(desk.stack)
      /\ DOMAIN desk.stack = 1 .. Len(desk.stack) /\ Len(desk.stack) \in Nat
      /\ \A i \in DOMAIN desk.stack : desk.stack[i] \in Layer
  BY <1>2, LenProperties, ElementOfSeq DEF DeskOK
<1>4. draw # NoDraw
  BY <1>1, <1>3 DEF NoDraw
<1>5. /\ draw = [from |-> draw.from, next |-> k, area |-> area]
      /\ draw.from \in Nat \ {0} /\ k \in draw.from .. Len(desk.stack) + 1
      /\ \A c \in RepaintedBy(desk, draw), i \in 1 .. k - 1 :
           desk.stack[i] = Full(desk, c)[1] => desk.back[c] = Full(desk, c)
  BY <1>2, <1>4 DEF DrawOK
<1>6. PICK e : e = DrawSeq(desk, <<id>>, area)
  OBVIOUS
<1>7. desk' = e /\ id \in Layer /\ k \in Nat
  BY <1>1, <1>3, <1>6
<1> HIDE DEF k, id, area
<1>8. /\ DeskOK(e) /\ SameDesk(desk, e) /\ e.screen = desk.screen
      /\ \A c \in ScreenCells :
           /\ Full(e, c) = Full(desk, c)
           /\ c \notin PaintedCells(desk, id, area) => e.back[c] = desk.back[c]
           /\ c \in PaintedCells(desk, id, area) => e.back[c] = Look(desk, id, c - desk.pos[id])
  BY <1>2, <1>6, <1>7, OneDrawn
<1>9. draw' = [from |-> draw.from, next |-> k + 1, area |-> area]
  BY ONLY <1>1, <1>5
<1>10. PICK w : w = draw'
  OBVIOUS
<1>11. w = [from |-> draw.from, next |-> k + 1, area |-> area]
  BY <1>9, <1>10
<1>12. w.from = draw.from /\ w.next = k + 1 /\ w.area = area /\ draw.area = area
  BY <1>11 DEF area
<1>13. RepaintedBy(e, w) = RepaintedBy(desk, draw)
  <2>1. RepaintedBy(e, w) = RepaintedBy(desk, w)
    BY <1>8, SameCells DEF SameDesk
  <2> QED BY <1>12, <2>1 DEF RepaintedBy
<1>14. ASSUME NEW c \in RepaintedBy(desk, draw), NEW i \in 1 .. k, desk.stack[i] = Full(desk, c)[1]
       PROVE  e.back[c] = Full(desk, c)
  <2>1. c \in ScreenCells /\ c \in area
    BY <1>12 DEF RepaintedBy
  <2>2. PICK l \in Layer : IsTop(desk, c, l)
    BY <1>2, <2>1, TopExists
  <2>3. Full(desk, c) = Look(desk, l, c - desk.pos[l]) /\ Full(desk, c)[1] = l /\ c \in Covered(desk, l)
    BY <1>2, <2>1, <2>2, TopFacts
  <2>4. PICK t \in DOMAIN desk.stack :
               /\ desk.stack[t] = l
               /\ \A j \in DOMAIN desk.stack : c \in Covered(desk, desk.stack[j]) => j <= t
    BY <2>2 DEF IsTop
  <2>5. k \in DOMAIN desk.stack /\ i \in DOMAIN desk.stack /\ desk.stack[k] = id
    BY <1>1, <1>3, <1>7 DEF k, id
  <2>6. t = i
    BY <1>3, <1>14, <2>3, <2>4, <2>5 DEF IsInjective
  <2>7. CASE i = k
    <3>1. l = id
      BY <2>4, <2>5, <2>6, <2>7
    <3>2. c \in PaintedCells(desk, id, area)
      BY <1>3, <1>7, <2>1, <2>3, <3>1, PaintedCellsFacts
    <3> QED BY <1>8, <2>1, <2>3, <3>1, <3>2
  <2>8. CASE i # k
    <3>1. i \in 1 .. k - 1
      BY <1>7, <2>8
    <3>2. desk.back[c] = Full(desk, c)
      BY <1>5, <1>14, <3>1
    <3>3. c \notin PaintedCells(desk, id, area)
      <4> SUFFICES ASSUME c \in PaintedCells(desk, id, area) PROVE FALSE
        OBVIOUS
      <4>1. c \in Covered(desk, id)
        BY <1>3, <1>7, PaintedCellsFacts
      <4>2. k <= t
        BY <2>4, <2>5, <4>1
      <4> QED BY <1>7, <2>6, <3>1, <4>2
    <3> QED BY <1>8, <2>1, <3>2, <3>3
  <2> QED BY <2>7, <2>8
<1>15. DrawOK(e, w)
  <2>1. /\ w = [from |-> w.from, next |-> w.next, area |-> w.area] /\ w.from \in Nat \ {0}
    BY <1>5, <1>11, <1>12
  <2>2. e.stack = desk.stack
    BY <1>8 DEF SameDesk
  <2>3. w.next \in w.from .. Len(e.stack) + 1
    <3>1. k <= Len(desk.stack)
      BY <1>1, <1>3 DEF k
    <3> QED BY <1>3, <1>5, <1>7, <1>12, <2>2, <3>1
  <2>4. \A c \in RepaintedBy(e, w), i \in 1 .. w.next - 1 :
          e.stack[i] = Full(e, c)[1] => e.back[c] = Full(e, c)
    <3>1. w.next - 1 = k
      BY <1>7, <1>12
    <3>2. \A c \in RepaintedBy(desk, draw) : Full(e, c) = Full(desk, c)
      BY <1>8 DEF RepaintedBy
    <3> QED BY <1>13, <1>14, <2>2, <3>1, <3>2
  <2> QED BY <2>1, <2>3, <2>4 DEF DrawOK
<1>16. Open' = Open
  <2>1. stage' = stage /\ job' = job /\ asked' = asked /\ mouseSeen' = mouseSeen
    BY <1>1
  <2>2. desk'.stack = desk.stack /\ desk'.pos = desk.pos
    BY <1>7, <1>8 DEF SameDesk
  <2>3. draw'.from = draw.from /\ draw'.area = draw.area
    BY <1>10, <1>12
  <2>4. Repainted' = Repainted
    BY <2>2, <2>3 DEF Repainted, PaintedCells, Area
  <2>5. ToDraw' = ToDraw
    BY <2>1, <2>2 DEF ToDraw, Shows, PaintedCells, Area
  <2>6. Waiting' = Waiting
    BY <2>1, <2>2 DEF Waiting, Area
  <2> QED BY <2>4, <2>5, <2>6 DEF Open
<1>17. ASSUME NEW c \in ScreenCells \ Open' PROVE c \notin Open /\ Kept(desk, e, c)
  <2>1. c \notin RepaintedBy(desk, draw)
    BY <1>16, <1>17 DEF Open, Repainted, RepaintedBy
  <2>2. CASE c \notin PaintedCells(desk, id, area)
    BY <1>8, <1>16, <1>17, <2>2 DEF Kept, Fresh
  <2>3. CASE c \in PaintedCells(desk, id, area)
    <3>1. c \notin area
      <4> SUFFICES ASSUME c \in area PROVE FALSE
        OBVIOUS
      <4>1. k \in draw.from .. Len(desk.stack)
        BY <1>1, <1>3, <1>5 DEF k
      <4> QED BY <1>12, <2>1, <2>3, <4>1 DEF RepaintedBy, id
    <3>2. id = Mouse /\ c = desk.pos[Mouse]
      BY <1>3, <1>7, <2>3, <3>1, PaintedCellsFacts
    <3>3. Full(desk, c) = Look(desk, Mouse, c - desk.pos[Mouse])
      BY <1>2, <1>17, <3>2, MouseOnTop
    <3>4. e.back[c] = Full(e, c)
      BY <1>8, <1>17, <2>3, <3>2, <3>3
    <3> QED BY <1>8, <1>16, <1>17, <3>4 DEF Kept, Fresh
  <2> QED BY <2>2, <2>3
<1>18. Absent' = Absent
  BY <1>1 DEF Absent
<1>19. StackOK(e, Absent') /\ ActiveAt(e, stage', job'.to, job'.by)
  BY <1>1, <1>2, <1>8, <1>18, SameParts
<1>20. LayersType'
  BY <1>1, <1>2 DEF LayersType
<1>21. JobOK'
  BY <1>1, <1>2, <1>4 DEF JobOK
<1>22. /\ e.pos[Mouse] \in ScreenCells /\ e.pos[ConsoleLayer] = desk.pos[ConsoleLayer]
       /\ log' = log /\ raced' = raced /\ e.stack = desk.stack
  BY <1>1, <1>8 DEF LayersInv, SameDesk
<1>23. DrawOK(e, draw')
  BY <1>10, <1>15
<1> QED
  BY <1>7, <1>8, <1>17, <1>19, <1>20, <1>21, <1>22, <1>23, StepKeeps

\* The loop has come to its end, and what it has drawn is copied to the screen.
LEMMA CopyActions ==
  ASSUME LayersInv, CopiesArea
  PROVE  LayersInv'
<1>1. /\ draw.next = Len(desk.stack) + 1 /\ desk' = Shown(desk, draw.area) /\ draw' = NoDraw
      /\ UNCHANGED <<stage, job, drag, pressed, log, raced, started, keys, asked, mouseSeen>>
  BY DEF CopiesArea, counts
<1>2. /\ DeskOK(desk) /\ StackOK(desk, Absent) /\ LayersType /\ JobOK /\ DrawOK(desk, draw)
      /\ ActiveAt(desk, stage, job.to, job.by)
  BY DEF LayersInv
<1>3. Len(desk.stack) \in Nat /\ DOMAIN desk.stack = 1 .. Len(desk.stack)
  BY <1>2, LenProperties DEF DeskOK
<1>4. draw # NoDraw
  BY <1>1, <1>3 DEF NoDraw
<1>5. \A c \in RepaintedBy(desk, draw), i \in 1 .. draw.next - 1 :
        desk.stack[i] = Full(desk, c)[1] => desk.back[c] = Full(desk, c)
  BY <1>2, <1>4 DEF DrawOK
<1>6. PICK e : e = Shown(desk, draw.area)
  OBVIOUS
<1>7. desk' = e
  BY <1>1, <1>6
<1>8. /\ DeskOK(e) /\ SameDesk(desk, e) /\ e.back = desk.back
      /\ \A c \in ScreenCells :
           /\ Kept(desk, e, c) /\ Full(e, c) = Full(desk, c)
           /\ e.screen[c] = IF c \in draw.area THEN desk.back[c] ELSE desk.screen[c]
  BY <1>2, <1>6, ShownFacts
<1>9. Waiting' = Waiting /\ ToDraw' = ToDraw
  <2>1. stage' = stage /\ job' = job /\ asked' = asked /\ mouseSeen' = mouseSeen
    BY <1>1
  <2>2. desk'.stack = desk.stack /\ desk'.pos = desk.pos
    BY <1>7, <1>8 DEF SameDesk
  <2> QED BY <2>1, <2>2 DEF ToDraw, Waiting, Shows, PaintedCells, Area
<1>10. ASSUME NEW c \in ScreenCells \ Open' PROVE Fresh(e, c) \/ (c \notin Open /\ Kept(desk, e, c))
  <2>1. c \notin Waiting /\ c \notin ToDraw
    BY <1>9, <1>10 DEF Open
  <2>2. CASE c \notin RepaintedBy(desk, draw)
    BY <1>8, <1>10, <2>1, <2>2 DEF Open, Repainted, RepaintedBy
  <2>3. CASE c \in RepaintedBy(desk, draw)
    <3>1. PICK l \in Layer : IsTop(desk, c, l)
      BY <1>2, <1>10, TopExists
    <3>2. Full(desk, c)[1] = l
      BY <1>2, <1>10, <3>1, TopFacts
    <3>3. PICK t \in DOMAIN desk.stack : desk.stack[t] = l
      BY <3>1 DEF IsTop
    <3>4. t \in 1 .. draw.next - 1
      BY <1>1, <1>3
    <3>5. desk.back[c] = Full(desk, c) /\ c \in draw.area
      BY <1>5, <2>3, <3>2, <3>3, <3>4 DEF RepaintedBy
    <3> QED BY <1>8, <1>10, <3>5 DEF Fresh
  <2> QED BY <2>2, <2>3
<1>11. Absent' = Absent
  BY <1>1 DEF Absent
<1>12. StackOK(e, Absent') /\ ActiveAt(e, stage', job'.to, job'.by)
  BY <1>1, <1>2, <1>8, <1>11, SameParts
<1>13. LayersType'
  BY <1>1, <1>2 DEF LayersType
<1>14. JobOK'
  BY <1>1, <1>2 DEF JobOK
<1>15. /\ e.pos[Mouse] \in ScreenCells /\ e.pos[ConsoleLayer] = desk.pos[ConsoleLayer]
       /\ log' = log /\ raced' = raced /\ e.stack = desk.stack
  BY <1>1, <1>8 DEF LayersInv, SameDesk
<1>16. DrawOK(e, draw')
  BY <1>1, NoRepainting
<1> QED
  BY <1>7, <1>8, <1>10, <1>12, <1>13, <1>14, <1>15, <1>16, StepKeeps

\* The handler draws the console and all that is above it, whatever it comes between.
LEMMA HandlerActions ==
  ASSUME LayersInv, HandlerLogs
  PROVE  LayersInv'
<1>1. /\ desk' = DrawnAtOnce(Rewritten(desk, ConsoleLayer), Index(desk, ConsoleLayer),
                             Area(desk, ConsoleLayer))
      /\ raced' = (raced /\ log.next # 0)
      /\ stage' = stage /\ job' = job /\ draw' = draw
      /\ UNCHANGED <<drag, pressed, log, started, keys, asked, mouseSeen>>
  BY DEF HandlerLogs, tasks, counts
<1>2. /\ DeskOK(desk) /\ StackOK(desk, Absent) /\ LayersType /\ JobOK /\ DrawOK(desk, draw)
      /\ ActiveAt(desk, stage, job.to, job.by)
  BY DEF LayersInv
<1>3. Shows(desk, ConsoleLayer)
  <2>1. 2 \in DOMAIN desk.stack /\ desk.stack[2] = ConsoleLayer
    BY <1>2, LenProperties DEF StackOK, DeskOK
  <2> QED BY <2>1, LenProperties, <1>2 DEF Shows, Contains, DeskOK
<1>4. PICK e : e = DrawnAtOnce(Rewritten(desk, ConsoleLayer), Index(desk, ConsoleLayer),
                               Area(desk, ConsoleLayer))
  OBVIOUS
<1>5. /\ DeskOK(e) /\ SameDesk(desk, e)
      /\ \A c \in ScreenCells : Fresh(e, c) \/ Kept(desk, e, c)
      /\ \A c \in ScreenCells \cap Area(desk, ConsoleLayer) : Fresh(e, c)
  BY <1>2, <1>3, <1>4, ConsoleDrawn
<1>6. desk' = e /\ e.stack = desk.stack /\ e.pos = desk.pos
  BY <1>1, <1>4, <1>5 DEF SameDesk
<1>7. Open' = Open
  BY <1>1, <1>5, <1>6, SameOpen DEF tasks
<1>8. DrawOK(e, draw')
  BY <1>1, <1>2, <1>5, <1>6, DrawKept
<1>9. Absent' = Absent
  BY <1>1 DEF Absent
<1>10. StackOK(e, Absent') /\ ActiveAt(e, stage', job'.to, job'.by)
  BY <1>1, <1>2, <1>5, <1>9, SameParts
<1>11. LayersType'
  BY <1>1, <1>2 DEF LayersType
<1>12. JobOK'
  BY <1>1, <1>2 DEF JobOK
<1>13. /\ e.pos[Mouse] \in ScreenCells /\ e.pos[ConsoleLayer] = desk.pos[ConsoleLayer]
       /\ log' = log
       /\ (log.next # 0 /\ ~raced' => ~raced)
  BY <1>1, <1>2, <1>6 DEF LayersInv
<1>14. \A c \in ScreenCells \ Open' : Fresh(e, c) \/ (c \notin Open /\ Kept(desk, e, c))
  BY <1>5, <1>7
<1> QED
  BY <1>5, <1>6, <1>8, <1>10, <1>11, <1>12, <1>13, <1>14, StepKeeps

\* The AHCI task writes a line to the console and begins to draw it.
LEMMA LogStartsActions ==
  ASSUME LayersInv, LogStarts
  PROVE  LayersInv'
<1> DEFINE e == Rewritten(desk, ConsoleLayer)
<1>1. /\ log.next = 0 /\ desk' = e /\ raced' = FALSE
      /\ log' = [next |-> 1, end |-> Len(desk.stack), found |-> FALSE]
      /\ draw = NoDraw /\ stage = "wait" /\ stage' = stage /\ job' = job /\ draw' = draw
      /\ UNCHANGED <<tasks, drag, pressed, started, keys, asked, moves, mouseSeen>>
  BY DEF LogStarts, IsAt, tasks
<1>2. DeskOK(desk) /\ StackOK(desk, Absent) /\ LayersType /\ JobOK
  BY DEF LayersInv
<1>3. ConsoleLayer \in Layer /\ Len(desk.stack) \in Nat
  BY <1>2, LayerNames, LenProperties DEF DeskOK
<1>4. /\ DeskOK(e) /\ SameDesk(desk, e)
      /\ \A c \in ScreenCells : c \notin Covered(desk, ConsoleLayer) => Kept(desk, e, c)
  BY <1>2, <1>3, RewrittenFacts
<1> HIDE DEF e
<1>5. StackOK(e, Absent') /\ ActiveAt(e, stage', job'.to, job'.by) /\ DrawOK(e, draw') /\ JobOK'
  <2>1. Absent' = Absent
    BY <1>1 DEF Absent
  <2>2. StackOK(e, Absent') /\ ActiveAt(e, stage', job'.to, job'.by)
    BY <1>1, <1>2, <1>4, <2>1, SameParts DEF LayersInv
  <2>3. JobOK'
    BY <1>1, <1>2 DEF JobOK
  <2> QED BY <1>1, <2>2, <2>3, NoRepainting
<1>6. desk' = e
  BY <1>1
<1>7. LayersType'
  BY <1>1, <1>2, <1>3, <1>6 DEF LayersType
<1>8. Area(desk, ConsoleLayer)' = Area(desk, ConsoleLayer) /\ Open' = Open
  BY <1>1, <1>4, <1>6, SameOpen DEF SameDesk, Area
<1>9. log'.next = 1 /\ log'.end = Len(desk.stack)
  BY <1>1
<1>10. \A c \in ScreenCells \ Stale' : Fresh(desk', c)
  <2> SUFFICES ASSUME NEW c \in ScreenCells, c \notin Stale' PROVE Fresh(e, c)
    BY <1>6
  <2>1. c \notin Open /\ c \notin Area(desk, ConsoleLayer)
    BY <1>8, <1>9 DEF Stale, Open, Waiting
  <2>2. c \notin Covered(desk, ConsoleLayer)
    BY <1>2, <1>3, <2>1, PaintedCellsFacts DEF DeskOK
  <2>3. Fresh(desk, c)
    BY <2>1, StaleParts DEF LayersInv
  <2> QED BY <1>4, <2>2, <2>3 DEF Kept
<1>11. LogOK'
  <2>1. log'.end = Len(desk'.stack) /\ 1 .. log'.next - 1 = {} /\ ~(log'.next >= 3)
    BY <1>4, <1>6, <1>9 DEF SameDesk
  <2> QED BY <2>1 DEF LogOK
<1>12. e.pos[Mouse] \in ScreenCells
  BY <1>4 DEF LayersInv, SameDesk
<1> QED
  BY <1>4, <1>5, <1>6, <1>7, <1>10, <1>11, <1>12 DEF LayersInv

\* It draws the next layer in the area of the console.
LEMMA LogDrawsActions ==
  ASSUME LayersInv, LogDraws
  PROVE  LayersInv'
<1> DEFINE k == log.next
           id == desk.stack[k]
           found == log.found \/ id = ConsoleLayer
           area == Area(desk, ConsoleLayer)
           e == IF found THEN DrawSeq(desk, <<id>>, area) ELSE desk
<1>1. /\ k \in 1 .. log.end /\ desk' = e
      /\ log' = [log EXCEPT !.next = k + 1, !.found = found]
      /\ draw = NoDraw /\ stage' = stage /\ job' = job /\ draw' = draw
      /\ UNCHANGED <<tasks, drag, pressed, raced, started, keys, asked, moves, logs, mouseSeen>>
  BY DEF LogDraws, IsAt, tasks, counts
<1>2. /\ DeskOK(desk) /\ StackOK(desk, Absent) /\ LayersType /\ JobOK /\ LogOK
      /\ log \in [next : Nat, end : Nat, found : BOOLEAN]
      /\ raced \in BOOLEAN
  BY DEF LayersInv, LayersType
<1>3. /\ desk.stack \in Seq(Layer) /\ desk.pos \in [Layer -> Int]
      /\ DOMAIN desk.stack = 1 .. Len(desk.stack) /\ Len(desk.stack) \in Nat
      /\ \A i \in DOMAIN desk.stack : desk.stack[i] \in Layer
      /\ ConsoleLayer \in Layer
      /\ IsInjective(desk.stack)
  BY <1>2, LayerNames, LenProperties, ElementOfSeq DEF DeskOK
<1>4. k \in Nat /\ k # 0 /\ log.end \in Nat /\ log.found \in BOOLEAN /\ found \in BOOLEAN
  BY <1>1, <1>2
<1> HIDE DEF k, found, id, area
<1>5. /\ DeskOK(e) /\ SameDesk(desk, e) /\ e.screen = desk.screen
      /\ \A c \in ScreenCells :
           /\ Full(e, c) = Full(desk, c)
           /\ ~found \/ c \notin PaintedCells(desk, id, area) => e.back[c] = desk.back[c]
           /\ found /\ id \in Layer /\ c \in PaintedCells(desk, id, area) =>
                e.back[c] = Look(desk, id, c - desk.pos[id])
  <2>1. CASE found
    <3>1. e = DrawSeq(desk, <<id>>, area)
      BY <2>1
    <3> HIDE DEF e
    <3> QED BY <1>2, <2>1, <3>1, OneDrawn
  <2>2. CASE ~found
    BY <1>2, <2>2 DEF SameDesk
  <2> QED BY <2>1, <2>2
<1> HIDE DEF e
<1>6. StackOK(e, Absent') /\ ActiveAt(e, stage', job'.to, job'.by) /\ DrawOK(e, draw') /\ JobOK'
  <2>1. Absent' = Absent
    BY <1>1 DEF Absent
  <2>2. StackOK(e, Absent') /\ ActiveAt(e, stage', job'.to, job'.by)
    BY <1>1, <1>2, <1>5, <2>1, SameParts DEF LayersInv
  <2>3. JobOK'
    BY <1>1, <1>2 DEF JobOK
  <2> QED BY <1>1, <2>2, <2>3, NoRepainting
<1>7. desk' = e /\ raced' = raced
  BY <1>1
<1>8. log' = [next |-> k + 1, end |-> log.end, found |-> found]
  <2>1. log = [next |-> log.next, end |-> log.end, found |-> log.found]
    BY <1>2
  <2> QED BY ONLY <1>1, <2>1
<1>9. log'.next = k + 1 /\ log'.end = log.end /\ log'.found = found
  BY <1>8
<1>10. LayersType'
  BY <1>1, <1>2, <1>4, <1>7, <1>8 DEF LayersType
<1>11. Area(desk, ConsoleLayer)' = area /\ Open' = Open
  <2>1. Open' = Open
    BY <1>1, <1>5, <1>7, SameOpen
  <2> QED BY <1>5, <1>7, <2>1 DEF SameDesk, Area, area
<1>12. k + 1 \in Nat /\ k + 1 # 0
  BY <1>4
<1>13. \A c \in ScreenCells \ Stale' : Fresh(desk', c)
  <2> SUFFICES ASSUME NEW c \in ScreenCells, c \notin Stale' PROVE Fresh(e, c)
    BY <1>7
  <2>1. c \notin Open /\ c \notin area
    BY <1>9, <1>11, <1>12 DEF Stale, Open, Waiting
  <2>2. Fresh(desk, c)
    BY <2>1, StaleParts DEF LayersInv, area
  <2>3. CASE ~found \/ c \notin PaintedCells(desk, id, area)
    BY <1>5, <2>2, <2>3 DEF Fresh
  <2>4. CASE found /\ c \in PaintedCells(desk, id, area)
    <3>1. id = Mouse /\ c = desk.pos[Mouse]
      BY <2>1, <2>4 DEF PaintedCells
    <3>2. Full(desk, c) = Look(desk, Mouse, c - desk.pos[Mouse])
      BY <1>2, <3>1, MouseOnTop
    <3>3. e.back[c] = Full(desk, c)
      BY <1>5, <2>4, <3>1, <3>2, LayerNames
    <3> QED BY <1>5, <2>2, <3>3 DEF Fresh
  <2> QED BY <1>4, <2>3, <2>4
<1>14. LogOK'
  <2>1. k + 1 >= 3 => found
    <3> SUFFICES ASSUME k + 1 >= 3 PROVE found
      OBVIOUS
    <3>1. CASE k >= 3
      BY <1>2, <1>4, <3>1 DEF LogOK, k, found
    <3>2. CASE k = 2
      BY <1>2, <3>2 DEF StackOK, id, found
    <3>3. k >= 3 \/ k = 2
      BY <1>4
    <3> QED BY <3>1, <3>2, <3>3
  <2>2. ASSUME ~raced,
               NEW c \in (ScreenCells \cap area) \ Open, NEW i \in 1 .. k,
               desk.stack[i] = Full(desk, c)[1]
        PROVE  e.back[c] = Full(desk, c)
    <3>1. log.end = Len(desk.stack) /\ k \in 1 .. Len(desk.stack) /\ i \in 1 .. Len(desk.stack)
      BY <1>1, <1>2, <1>4, <2>2 DEF LogOK, k
    <3>2. id = desk.stack[k] /\ id \in Layer
      BY <1>3, <3>1 DEF id
    <3>3. i < k => desk.back[c] = Full(desk, c)
      <4> SUFFICES ASSUME i < k PROVE desk.back[c] = Full(desk, c)
        OBVIOUS
      <4>1. i \in 1 .. log.next - 1
        BY <1>4 DEF k
      <4>2. /\ log.next # 0 /\ c \in (ScreenCells \cap Area(desk, ConsoleLayer)) \ Open
        BY <1>4 DEF k, area
      <4> QED BY <1>2, <2>2, <4>1, <4>2 DEF LogOK
    <3>4. PICK l \in Layer : IsTop(desk, c, l)
      BY <1>2, TopExists
    <3>5. /\ Full(desk, c) = Look(desk, l, c - desk.pos[l]) /\ Full(desk, c)[1] = l
          /\ c \in Covered(desk, l)
      BY <1>2, <3>4, TopFacts
    <3>6. PICK t \in DOMAIN desk.stack : /\ desk.stack[t] = l
                                         /\ \A j \in DOMAIN desk.stack :
                                              c \in Covered(desk, desk.stack[j]) => j <= t
      BY <3>4 DEF IsTop
    <3>7. t = i
      BY <1>3, <2>2, <3>1, <3>5, <3>6 DEF IsInjective
    <3>8. CASE found /\ c \in PaintedCells(desk, id, area)
      <4>1. c \in Covered(desk, desk.stack[k])
        BY <1>3, <3>2, <3>8, PaintedCellsFacts
      <4>2. k <= i
        BY <1>3, <3>1, <3>6, <3>7, <4>1
      <4>3. k = i /\ id = l
        BY <1>4, <3>2, <3>6, <3>7, <4>2
      <4> QED BY <1>5, <3>2, <3>5, <3>8, <4>3
    <3>9. CASE ~(found /\ c \in PaintedCells(desk, id, area))
      <4>1. i < k
        <5> SUFFICES ASSUME i = k PROVE FALSE
          BY <1>4
        <5>1. l = id /\ c \in Covered(desk, id)
          BY <2>2, <3>2, <3>5
        <5>2. c \in PaintedCells(desk, id, area)
          BY <1>3, <3>2, <5>1, PaintedCellsFacts
        <5>3. ~found
          BY <3>9, <5>2
        <5>4. k < 2
          <6>1. ~(k + 1 >= 3)
            BY <2>1, <5>3
          <6> QED BY <1>4, <6>1
        <5>5. c \in Covered(desk, ConsoleLayer)
          BY <1>3, <2>2, LayerNames, PaintedCellsFacts DEF area
        <5>6. 2 \in DOMAIN desk.stack /\ desk.stack[2] = ConsoleLayer
          BY <1>2, <1>3 DEF StackOK
        <5>7. 2 <= t
          BY <3>6, <5>5, <5>6
        <5> QED BY <1>4, <3>7, <5>4, <5>7
      <4>2. e.back[c] = desk.back[c]
        BY <1>5, <3>9
      <4> QED BY <3>3, <4>1, <4>2
    <3> QED BY <3>8, <3>9
  <2>3. ~raced => log.end = Len(e.stack)
    BY <1>2, <1>4, <1>5 DEF LogOK, SameDesk, k
  <2>4. e.stack = desk.stack /\ k + 1 - 1 = k /\ \A c \in ScreenCells : Full(e, c) = Full(desk, c)
    BY <1>4, <1>5 DEF SameDesk
  <2>5. \A c \in (ScreenCells \cap area) \ Open, i \in 1 .. k :
          ~raced /\ e.stack[i] = Full(e, c)[1] => e.back[c] = Full(e, c)
    <3> SUFFICES ASSUME NEW c \in (ScreenCells \cap area) \ Open, NEW i \in 1 .. k, ~raced,
                        e.stack[i] = Full(e, c)[1]
                 PROVE  e.back[c] = Full(e, c)
      OBVIOUS
    <3>1. Full(e, c) = Full(desk, c) /\ desk.stack[i] = Full(desk, c)[1]
      BY <2>4
    <3> QED BY <2>2, <3>1
  <2>6. \A c \in (ScreenCells \cap area) \ Open, i \in 1 .. log'.next - 1 :
          ~raced' /\ desk'.stack[i] = Full(desk', c)[1] => desk'.back[c] = Full(desk', c)
    <3>1. log'.next - 1 = k
      BY <1>4, <1>9
    <3> QED BY <1>7, <2>5, <3>1
  <2>7. log'.next >= 3 => log'.found
    BY <1>9, <2>1
  <2>8. ~raced' => log'.end = Len(desk'.stack)
    BY <1>7, <1>9, <2>3
  <2> QED BY <1>11, <2>6, <2>7, <2>8 DEF LogOK
<1>15. e.pos[Mouse] \in ScreenCells
  BY <1>5 DEF LayersInv, SameDesk
<1> QED
  BY <1>5, <1>6, <1>7, <1>10, <1>13, <1>14, <1>15 DEF LayersInv

\* It copies the area of the console to the screen.
LEMMA LogCopiesActions ==
  ASSUME LayersInv, LogCopies
  PROVE  LayersInv'
<1> DEFINE area == Area(desk, ConsoleLayer)
           e == Shown(desk, area)
<1>1. /\ log.next = log.end + 1 /\ log.next # 1 /\ desk' = e /\ log' = NoLog
      /\ draw = NoDraw /\ stage' = stage /\ job' = job /\ draw' = draw
      /\ UNCHANGED <<tasks, drag, pressed, raced, started, keys, asked, moves, logs, mouseSeen>>
  BY DEF LogCopies, IsAt, tasks, counts
<1>2. /\ DeskOK(desk) /\ StackOK(desk, Absent) /\ LayersType /\ JobOK /\ LogOK
      /\ log \in [next : Nat, end : Nat, found : BOOLEAN]
      /\ raced \in BOOLEAN
  BY DEF LayersInv, LayersType
<1> HIDE DEF area
<1>3. /\ DeskOK(e) /\ SameDesk(desk, e) /\ e.back = desk.back
      /\ \A c \in ScreenCells : /\ Kept(desk, e, c) /\ Full(e, c) = Full(desk, c)
                                /\ e.screen[c] = IF c \in area THEN desk.back[c] ELSE desk.screen[c]
  BY <1>2, ShownFacts
<1> HIDE DEF e
<1>4. StackOK(e, Absent') /\ ActiveAt(e, stage', job'.to, job'.by) /\ DrawOK(e, draw') /\ JobOK'
  <2>1. Absent' = Absent
    BY <1>1 DEF Absent
  <2>2. StackOK(e, Absent') /\ ActiveAt(e, stage', job'.to, job'.by)
    BY <1>1, <1>2, <1>3, <2>1, SameParts DEF LayersInv
  <2>3. JobOK'
    BY <1>1, <1>2 DEF JobOK
  <2> QED BY <1>1, <2>2, <2>3, NoRepainting
<1>5. desk' = e /\ raced' = raced
  BY <1>1
<1>6. log' \in [next : Nat, end : Nat, found : BOOLEAN] /\ log'.next = 0
  BY <1>1 DEF NoLog
<1>7. LayersType'
  BY <1>1, <1>2, <1>5, <1>6 DEF LayersType
<1>8. Area(desk, ConsoleLayer)' = area /\ Open' = Open
  <2>1. Open' = Open
    BY <1>1, <1>3, <1>5, SameOpen
  <2> QED BY <1>3, <1>5, <2>1 DEF SameDesk, Area, area
<1>9. \A c \in ScreenCells \ Stale' : Fresh(desk', c)
  <2> SUFFICES ASSUME NEW c \in ScreenCells, c \notin Stale' PROVE Fresh(e, c)
    BY <1>5
  <2>1. c \notin Open /\ (raced => c \notin area)
    BY <1>5, <1>6, <1>8 DEF Stale, Open, Waiting
  <2>2. CASE c \notin area
    <3>1. Fresh(desk, c)
      BY <2>1, <2>2, StaleParts DEF LayersInv, area
    <3> QED BY <1>3, <3>1 DEF Kept
  <2>3. CASE c \in area
    <3>1. ~raced /\ log.next # 0 /\ log.next - 1 = log.end
      BY <1>1, <1>2, <2>1, <2>3
    <3>2. log.end = Len(desk.stack)
      BY <1>2, <3>1 DEF LogOK
    <3>3. PICK l \in Layer : IsTop(desk, c, l)
      BY <1>2, TopExists
    <3>4. Full(desk, c)[1] = l
      BY <1>2, <3>3, TopFacts
    <3>5. PICK t \in DOMAIN desk.stack : desk.stack[t] = l
      BY <3>3 DEF IsTop
    <3>6. t \in 1 .. log.next - 1
      BY <1>2, <3>1, <3>2, <3>5, LenProperties DEF DeskOK
    <3>7. desk.back[c] = Full(desk, c)
      BY <1>2, <2>1, <2>3, <3>1, <3>4, <3>5, <3>6 DEF LogOK, area
    <3> QED BY <1>3, <2>3, <3>7 DEF Fresh
  <2> QED BY <2>2, <2>3
<1>10. LogOK'
  BY <1>6 DEF LogOK
<1>11. e.pos[Mouse] \in ScreenCells
  BY <1>3 DEF LayersInv, SameDesk
<1> QED
  BY <1>3, <1>4, <1>5, <1>7, <1>9, <1>10, <1>11 DEF LayersInv

\* A layer is given another place.
IsMoved(d, id, new, e) ==
  /\ DeskOK(d) /\ id \in Layer \ {Background} /\ new \in Int
  /\ e = [d EXCEPT !.pos[id] = new]

LEMMA PlaceFacts ==
  ASSUME NEW d, NEW id, NEW new, NEW e, IsMoved(d, id, new, e)
  PROVE  /\ DeskOK(e) /\ OthersSame(d, e, id) /\ e.stack = d.stack
         /\ e.pos = [d.pos EXCEPT ![id] = new] /\ e.lit = d.lit /\ e.active = d.active
<1> DEFINE pos == [d.pos EXCEPT ![id] = new]
<1> USE DEF IsMoved
<1>1. d.pos \in [Layer -> Int] /\ d.pos[Background] = 0
  BY DEF DeskOK
<1>2. e = [stack |-> d.stack, pos |-> pos, lit |-> d.lit, active |-> d.active,
           back |-> d.back, screen |-> d.screen]
  <2>1. d = [stack |-> d.stack, pos |-> d.pos, lit |-> d.lit, active |-> d.active,
             back |-> d.back, screen |-> d.screen]
    BY DEF DeskOK
  <2>2. e = [d EXCEPT !.pos = pos]
    BY <2>1
  <2> HIDE DEF pos
  <2> QED BY ONLY <2>1, <2>2
<1>3. /\ pos \in [Layer -> Int] /\ pos[id] = new /\ \A x \in Layer \ {id} : pos[x] = d.pos[x]
      /\ pos[Background] = 0
  BY <1>1, LayerNames
<1> HIDE DEF pos
<1>4. /\ e.stack = d.stack /\ e.pos = pos /\ e.lit = d.lit /\ e.active = d.active
      /\ e.back = d.back /\ e.screen = d.screen
  BY <1>2
<1>5. DeskOK(e)
  BY <1>2, <1>3, <1>4 DEF DeskOK, Shows
<1>6. OthersSame(d, e, id)
  BY <1>3, <1>4 DEF OthersSame, Precedes
<1> QED
  BY <1>4, <1>5, <1>6 DEF pos

\* The desk after the windows are made and everything has been drawn.
LEMMA WindowsMade ==
  ASSUME NEW e, e = InitializeWindows(InitializeLayer)
  PROVE  /\ DeskOK(e) /\ e.active = NoLayer /\ \A id \in Draggable : ~e.lit[id]
         /\ Len(e.stack) = 4 /\ e.stack[1] = Background /\ e.stack[2] = ConsoleLayer
         /\ e.stack[3] = MainWindow /\ e.stack[4] = TextWindow
         /\ \A c \in ScreenCells : Fresh(e, c)
<1> DEFINE buffer == [c \in ScreenCells |-> <<Background, "new">>]
           pos == [Start EXCEPT ![TerminalWindow] = 0, ![Mouse] = 0]
           lit == [id \in Draggable |-> FALSE]
           s2 == <<Background, ConsoleLayer>>
           s4 == <<Background, ConsoleLayer, MainWindow, TextWindow>>
           d == [InitializeLayer EXCEPT !.stack = InitializeLayer.stack \o <<MainWindow, TextWindow>>]
<1>1. InitializeLayer = [stack |-> s2, pos |-> pos, lit |-> lit, active |-> NoLayer,
                         back |-> buffer, screen |-> buffer]
  BY DEF InitializeLayer
<1>3. /\ s4 \in Seq(Layer) /\ Len(s4) = 4 /\ DOMAIN s4 = 1 .. 4
      /\ s4[1] = Background /\ s4[2] = ConsoleLayer /\ s4[3] = MainWindow /\ s4[4] = TextWindow
  BY LayerNames
<1>2. s2 \o <<MainWindow, TextWindow>> = s4
  <2> DEFINE t2 == <<MainWindow, TextWindow>>
  <2>1. /\ s2 \in Seq(Layer) /\ Len(s2) = 2 /\ s2[1] = Background /\ s2[2] = ConsoleLayer
        /\ t2 \in Seq(Layer) /\ Len(t2) = 2 /\ t2[1] = MainWindow /\ t2[2] = TextWindow
    BY LayerNames
  <2> HIDE DEF s2, t2, s4
  <2>2. /\ s2 \o t2 \in Seq(Layer) /\ Len(s2 \o t2) = Len(s2) + Len(t2)
        /\ \A i \in 1 .. Len(s2) + Len(t2) : (s2 \o t2)[i] = IF i <= Len(s2) THEN s2[i] ELSE t2[i - Len(s2)]
    BY <2>1, ConcatProperties
  <2>3. \A i \in 1 .. 4 : (s2 \o t2)[i] = s4[i]
    <3>1. \A i \in 1 .. 4 : i = 1 \/ i = 2 \/ i = 3 \/ i = 4
      OBVIOUS
    <3> QED BY ONLY <1>3, <2>1, <2>2, <3>1
  <2>4. Len(s2 \o t2) = 4
    BY <2>1, <2>2
  <2>5. s2 \o t2 = s4
    BY ONLY <1>3, <2>2, <2>3, <2>4, SeqEqual
  <2> QED BY <2>5 DEF t2
<1>4. pos \in [Layer -> Int] /\ pos[Background] = 0
  <2>1. Start \in [Layer -> Int] /\ Start[Background] = 0
    BY LayersAssumption DEF ScreenCells
  <2> QED BY <2>1, LayerNames
<1>5. lit \in [Draggable -> BOOLEAN] /\ \A id \in Draggable : ~lit[id]
  OBVIOUS
<1> HIDE DEF buffer, pos, lit, s2, s4
<1>6. d = [stack |-> s4, pos |-> pos, lit |-> lit, active |-> NoLayer,
           back |-> buffer, screen |-> buffer]
  <2>1. InitializeLayer.stack = s2
    BY <1>1
  <2>2. d = [InitializeLayer EXCEPT !.stack = s4]
    BY <1>2, <2>1
  <2> HIDE DEF d
  <2> QED BY ONLY <1>1, <2>2
<1> HIDE DEF d
<1>7. /\ d.stack = s4 /\ d.pos = pos /\ d.lit = lit /\ d.active = NoLayer
      /\ d = [stack |-> d.stack, pos |-> d.pos, lit |-> d.lit, active |-> d.active,
              back |-> d.back, screen |-> d.screen]
  BY <1>6
<1>8. IsInjective(s4) /\ \A i \in DOMAIN s4 : s4[i] # Mouse
  <2>1. \A i \in DOMAIN s4 : i = 1 \/ i = 2 \/ i = 3 \/ i = 4
    BY <1>3
  <2>2. /\ Background # ConsoleLayer /\ Background # MainWindow /\ Background # TextWindow
        /\ ConsoleLayer # MainWindow /\ ConsoleLayer # TextWindow /\ MainWindow # TextWindow
        /\ Mouse # Background /\ Mouse # ConsoleLayer /\ Mouse # MainWindow /\ Mouse # TextWindow
    BY LayerNames
  <2> QED BY <1>3, <2>1, <2>2 DEF IsInjective
<1>9. DeskOK(d)
  <2>1. Shows(d, Background)
    BY <1>3, <1>7 DEF Shows, Contains
  <2> QED BY <1>3, <1>4, <1>5, <1>7, <1>8, <2>1 DEF DeskOK
<1>10. e = DrawnAtOnce(d, 1, ScreenCells)
  BY DEF InitializeWindows, d
<1>11. /\ DeskOK(e) /\ SameDesk(d, e)
       /\ \A c \in ScreenCells : Kept(d, e, c) /\ (c \in ScreenCells => Fresh(e, c))
  BY <1>9, <1>10, ScreenAreaDrawn
<1> QED
  BY <1>3, <1>5, <1>7, <1>11 DEF SameDesk

\* Then the mouse is put on top, but not drawn.
LEMMA MousePut ==
  ASSUME NEW d, d = InitializeWindows(InitializeLayer), NEW e, e = InitializeMouse(d)
  PROVE  /\ DeskOK(e) /\ StackOK(e, {TerminalWindow}) /\ ActiveOK(e)
         /\ e.pos[Mouse] \in ScreenCells
         /\ \A c \in ScreenCells : c # e.pos[Mouse] => Fresh(e, c)
<1> DEFINE p == [d EXCEPT !.pos[Mouse] = Start[Mouse]]
           m == DrawnAtOnce(p, 1, Area(d, Mouse))
           s == InsertAt(m.stack, 5, Mouse)
<1>1. /\ DeskOK(d) /\ d.active = NoLayer /\ \A id \in Draggable : ~d.lit[id]
      /\ Len(d.stack) = 4 /\ d.stack[1] = Background /\ d.stack[2] = ConsoleLayer
      /\ d.stack[3] = MainWindow /\ d.stack[4] = TextWindow
      /\ \A c \in ScreenCells : Fresh(d, c)
  BY WindowsMade
<1>2. /\ Mouse \in Layer \ {Background} /\ Mouse \in Layer
      /\ Start[Mouse] \in ScreenCells /\ Start[Mouse] \in Int
  BY LayerNames, LayersAssumption DEF ScreenCells
<1>2a. ~Shows(d, Mouse)
  <2>1. \A i \in 1 .. 4 : d.stack[i] # Mouse
    <3>1. \A i \in 1 .. 4 : i = 1 \/ i = 2 \/ i = 3 \/ i = 4
      OBVIOUS
    <3> QED BY <1>1, <3>1, LayerNames
  <2>2. DOMAIN d.stack = 1 .. 4
    BY <1>1, LenProperties DEF DeskOK
  <2> QED BY <2>1, <2>2 DEF Shows, Contains
<1>2b. /\ DeskOK(p) /\ OthersSame(d, p, Mouse) /\ p.stack = d.stack
       /\ p.pos = [d.pos EXCEPT ![Mouse] = Start[Mouse]] /\ p.lit = d.lit /\ p.active = d.active
  <2>1. IsMoved(d, Mouse, Start[Mouse], p)
    BY <1>1, <1>2 DEF IsMoved
  <2> HIDE DEF p
  <2> QED BY ONLY <2>1, PlaceFacts
<1>2c. \A c \in ScreenCells : Kept(d, p, c)
  <2>1. ~Shows(p, Mouse)
    BY <1>2a, <1>2b DEF Shows
  <2> HIDE DEF p
  <2> QED BY <1>1, <1>2, <1>2a, <1>2b, <2>1, KeptElsewhere
<1>2d. DeskOK(m) /\ SameDesk(p, m) /\ \A c \in ScreenCells : Kept(p, m, c)
  <2> HIDE DEF p
  <2> QED BY <1>2b, ScreenAreaDrawn
<1>3. /\ DeskOK(m) /\ \A c \in ScreenCells : Fresh(m, c)
      /\ m.stack = d.stack /\ m.pos = [d.pos EXCEPT ![Mouse] = Start[Mouse]]
      /\ m.lit = d.lit /\ m.active = d.active
  <2> HIDE DEF p, m
  <2> QED BY <1>1, <1>2b, <1>2c, <1>2d DEF SameDesk, Kept
<1>4. e = [m EXCEPT !.stack = InsertAt(m.stack, NewPosition(m, Mouse, Len(m.stack)), Mouse)]
  BY DEF InitializeMouse
<1> HIDE DEF m, p
<1>5. /\ m.stack \in Seq(Layer) /\ Len(m.stack) = 4 /\ DOMAIN m.stack = 1 .. 4
      /\ m.pos[Mouse] = Start[Mouse]
  BY <1>1, <1>2, <1>3, LenProperties DEF DeskOK
<1>6. ~Shows(m, Mouse)
  <2>1. \A i \in 1 .. 4 : m.stack[i] # Mouse
    <3>1. \A i \in 1 .. 4 : i = 1 \/ i = 2 \/ i = 3 \/ i = 4
      OBVIOUS
    <3> QED BY <1>1, <1>3, <3>1, LayerNames
  <2> QED BY <1>5, <2>1 DEF Shows, Contains
<1>7. e = [m EXCEPT !.stack = s]
  <2>1. \A x, y \in Int : Min({x, y}) = IF x <= y THEN x ELSE y
    BY OfTwo
  <2>2. Min({4, 4}) = 4
    BY ONLY <2>1
  <2>3. NewPosition(m, Mouse, Len(m.stack)) = 5
    BY <1>5, <1>6, <2>2 DEF NewPosition
  <2> QED BY <1>4, <2>3
<1>8. /\ s \in Seq(Layer) /\ Len(s) = 5 /\ s[5] = Mouse /\ \A i \in 1 .. 4 : s[i] = m.stack[i]
  <2>1. 5 \in 1 .. Len(m.stack) + 1 /\ Len(m.stack) + 1 = 5
    BY <1>5
  <2>2. /\ InsertAt(m.stack, 5, Mouse) \in Seq(Layer)
        /\ Len(InsertAt(m.stack, 5, Mouse)) = Len(m.stack) + 1
        /\ \A i \in 1 .. Len(m.stack) + 1 :
             InsertAt(m.stack, 5, Mouse)[i] =
               IF i < 5 THEN m.stack[i] ELSE IF i = 5 THEN Mouse ELSE m.stack[i - 1]
    <3>1. m.stack \in Seq(Layer) /\ Mouse \in Layer
      BY <1>2, <1>5
    <3> QED BY ONLY <2>1, <3>1, InsertedLayer
  <2> HIDE DEF s
  <2>3. s = InsertAt(m.stack, 5, Mouse)
    BY DEF s
  <2>4. /\ s \in Seq(Layer) /\ Len(s) = 5
        /\ \A i \in 1 .. 5 : s[i] = IF i < 5 THEN m.stack[i] ELSE IF i = 5 THEN Mouse ELSE m.stack[i - 1]
    BY ONLY <2>1, <2>2, <2>3
  <2> QED BY ONLY <2>4
<1> HIDE DEF s
<1>9. e = [stack |-> s, pos |-> m.pos, lit |-> m.lit, active |-> m.active,
           back |-> m.back, screen |-> m.screen]
  <2>1. m = [stack |-> m.stack, pos |-> m.pos, lit |-> m.lit, active |-> m.active,
             back |-> m.back, screen |-> m.screen]
    BY <1>3 DEF DeskOK
  <2> QED BY ONLY <1>7, <2>1
<1>10. /\ e.stack = s /\ e.pos = m.pos /\ e.lit = m.lit /\ e.active = m.active
       /\ e.back = m.back /\ e.screen = m.screen
  BY <1>9
<1>11. DOMAIN e.stack = 1 .. 5 /\ \A i \in 1 .. 5 : i \in 1 .. 4 \/ i = 5
  BY <1>8, <1>10, LenProperties
<1> DEFINE w == [i \in 1 .. 5 |-> i]
<1>w. \A i \in 1 .. 5 : w[i] = i
  OBVIOUS
<1> HIDE DEF w
<1>12. Placed(m, e, Mouse, 5, w)
  <2>1. \A i \in 1 .. 5 : w[i] = i
    BY <1>w
  <2>2. e.stack \in Seq(Layer) /\ 5 \in DOMAIN e.stack /\ e.stack[5] = Mouse
    BY <1>8, <1>10, <1>11
  <2>3. \A i \in 1 .. 4 : m.stack[i] # Mouse
    BY <1>5, <1>6 DEF Shows, Contains
  <2>4. \A i \in DOMAIN e.stack : i # 5 =>
          w[i] \in DOMAIN m.stack /\ m.stack[w[i]] # Mouse /\ e.stack[i] = m.stack[w[i]]
    BY <1>5, <1>8, <1>10, <1>11, <2>1, <2>3
  <2>5. \A i, j \in DOMAIN e.stack : i # 5 /\ j # 5 /\ i < j => w[i] < w[j]
    BY <1>11, <2>1
  <2>6. \A k \in DOMAIN m.stack : m.stack[k] # Mouse => \E i \in DOMAIN e.stack : i # 5 /\ w[i] = k
    BY <1>5, <1>11, <2>1
  <2> QED BY ONLY <2>2, <2>4, <2>5, <2>6, Zenon DEF Placed
<1>13. /\ IsInjective(e.stack)
       /\ \A x \in Layer : Shows(e, x) <=> Shows(m, x) \/ x = Mouse
       /\ \A a, b \in Layer \ {Mouse} : Precedes(m, a, b) <=> Precedes(e, a, b)
  BY <1>2, <1>3, <1>12, PutInStack
<1>14. DeskOK(e)
  <2>1. Shows(e, Background)
    BY <1>3, <1>13, LayerNames DEF DeskOK
  <2>2. \A i \in DOMAIN e.stack : e.stack[i] = Mouse => i = Len(e.stack)
    BY <1>8, <1>10, <1>11, <1>13 DEF IsInjective
  <2> QED BY <1>3, <1>8, <1>9, <1>10, <1>13, <2>1, <2>2 DEF DeskOK
<1>15. StackOK(e, {TerminalWindow})
  <2>1. \A x \in Layer : Shows(m, x) <=> x \in {Background, ConsoleLayer, MainWindow, TextWindow}
    <3>1. \A i \in 1 .. 4 : i = 1 \/ i = 2 \/ i = 3 \/ i = 4
      OBVIOUS
    <3>2. /\ m.stack[1] = Background /\ m.stack[2] = ConsoleLayer
          /\ m.stack[3] = MainWindow /\ m.stack[4] = TextWindow
      BY <1>1, <1>3
    <3>3. \A x : Shows(m, x) <=> \E i \in 1 .. 4 : m.stack[i] = x
      BY <1>5 DEF Shows, Contains
    <3> QED BY ONLY <3>1, <3>2, <3>3
  <2>2. \A x \in Layer : Shows(e, x) <=> x \notin {TerminalWindow}
    BY <1>13, <2>1, LayerNames
  <2>3. Len(e.stack) = 5 /\ e.stack[5] = Mouse
    BY <1>8, <1>10
  <2>4. e.stack[1] = Background /\ e.stack[2] = ConsoleLayer
    BY <1>1, <1>3, <1>8, <1>10
  <2> QED BY ONLY <2>2, <2>3, <2>4 DEF StackOK
<1>16. ActiveOK(e)
  BY <1>1, <1>3, <1>10, LayerNames DEF ActiveOK
<1>17. ASSUME NEW c \in ScreenCells, c # e.pos[Mouse] PROVE Fresh(e, c)
  <2>1. Fresh(m, c)
    BY <1>3
  <2>2. OthersSame(m, e, Mouse)
    BY <1>10, <1>13 DEF OthersSame
  <2>3. c \notin Covered(e, Mouse)
    BY <1>2, <1>14, <1>17, PaintedCellsFacts DEF DeskOK
  <2>4. Kept(m, e, c)
    BY <1>2, <1>3, <1>6, <1>14, <2>2, <2>3, KeptElsewhere
  <2> QED BY <2>1, <2>4 DEF Kept
<1>18. e.pos[Mouse] \in ScreenCells
  BY <1>2, <1>5, <1>10
<1> QED
  BY <1>14, <1>15, <1>16, <1>17, <1>18

\* The state after the start.
LEMMA LayersStart ==
  ASSUME Init
  PROVE  LayersInv
<1> DEFINE d == InitializeWindows(InitializeLayer)
           m == InitializeMouse(d)
<1>1. desk = m
  BY DEF Init
<1>2. /\ DeskOK(m) /\ StackOK(m, {TerminalWindow}) /\ ActiveOK(m)
      /\ m.pos[Mouse] \in ScreenCells
      /\ \A c \in ScreenCells : c # m.pos[Mouse] => Fresh(m, c)
  BY MousePut
<1> HIDE DEF m
<1>3. stage = "top" /\ job = NoJob /\ draw = NoDraw
  BY DEF Init
<1>4. /\ drag = NoLayer /\ pressed = FALSE /\ started = FALSE /\ keys = 0 /\ asked = 0
      /\ log = NoLog /\ raced = FALSE /\ mouseSeen = FALSE
  BY DEF Init
<1>5. /\ StackOK(desk, Absent) /\ ActiveAt(desk, stage, job.to, job.by)
      /\ DrawOK(desk, draw) /\ JobOK
  <2>1. \A x \in Layer : x \in Absent <=> x \in {TerminalWindow}
    BY <1>3, <1>4 DEF Absent
  <2>2. StackOK(desk, Absent)
    BY <1>1, <1>2, <2>1 DEF StackOK
  <2>3. ActiveAt(desk, stage, job.to, job.by)
    BY <1>1, <1>2, <1>3 DEF ActiveAt
  <2>4. JobOK
    BY <1>3, JobParts DEF JobOK, Ends
  <2> QED BY <1>3, <2>2, <2>3, <2>4, NoRepainting
<1>6. log \in [next : Nat, end : Nat, found : BOOLEAN] /\ log.next = 0
  BY <1>4 DEF NoLog
<1>7. LayersType /\ LogOK
  <2>1. NoLayer # TerminalWindow
    BY LayerNames
  <2>2. LayersType
    <3>1. drag \in Draggable \cup {NoLayer} /\ (drag = TerminalWindow => started)
      BY <1>4, <2>1
    <3>2. started \in BOOLEAN /\ pressed \in BOOLEAN /\ raced \in BOOLEAN /\ mouseSeen \in BOOLEAN
      BY <1>4
    <3>3. keys \in Nat /\ asked \in Nat /\ (keys > 0 \/ asked > 0 => started)
      BY <1>4
    <3> QED BY ONLY <1>6, <3>1, <3>2, <3>3, Zenon DEF LayersType
  <2>3. LogOK
    BY <1>6 DEF LogOK
  <2> QED BY <2>2, <2>3
<1>8. \A c \in ScreenCells \ Stale : Fresh(desk, c)
  <2> SUFFICES ASSUME NEW c \in ScreenCells, c \notin Stale PROVE Fresh(desk, c)
    OBVIOUS
  <2>1. c # desk.pos[Mouse]
    BY <1>4 DEF Stale
  <2> QED BY <1>1, <1>2, <2>1
<1> QED
  BY <1>1, <1>2, <1>5, <1>7, <1>8 DEF LayersInv

\* Nothing is lost when nothing happens.
LEMMA LayersStutter ==
  ASSUME LayersInv, UNCHANGED vars
  PROVE  LayersInv'
<1>1. /\ desk' = desk /\ stage' = stage /\ job' = job /\ draw' = draw
      /\ drag' = drag /\ pressed' = pressed /\ started' = started
      /\ keys' = keys /\ asked' = asked /\ log' = log /\ raced' = raced /\ mouseSeen' = mouseSeen
  BY DEF vars, tasks, counts
<1>2. Open' = Open
  BY <1>1, SameOpen DEF tasks, SameDesk
<1>3. /\ LayersType' /\ JobOK' /\ Absent' = Absent
  BY <1>1 DEF LayersInv, LayersType, JobOK, Absent
<1>4. /\ DeskOK(desk) /\ StackOK(desk, Absent') /\ ActiveAt(desk, stage', job'.to, job'.by)
      /\ DrawOK(desk, draw') /\ desk.pos[Mouse] \in ScreenCells
  BY <1>1, <1>3 DEF LayersInv
<1>5. \A c \in ScreenCells : Kept(desk, desk, c)
  BY DEF Kept
<1> QED
  BY <1>1, <1>2, <1>3, <1>4, <1>5, StepKeeps

LEMMA LayersStep ==
  ASSUME LayersInv, [Next]_vars
  PROVE  LayersInv'
BY DrawActions, CopyActions, MovedActions, DragActions, DeactivateActions, ActivateActions,
   EraseActions, InsertActions, StartActions, PlainActions, TypesActions, MessageActions,
   MainActions, MouseActions, LogStartsActions, LogDrawsActions, LogCopiesActions,
   HandlerActions, LayersStutter
   DEF Next

\* What the invariant says of the stack, in the words of ActiveOnTop.
LEMMA LayersInvActive ==
  ASSUME LayersInv
  PROVE  ActiveOnTop
<1> DEFINE s == desk.stack
           n == Len(s)
<1> SUFFICES ASSUME stage \notin {"raise", "updown", "insert"}
             PROVE  ActiveOnTop
  BY DEF ActiveOnTop
<1>1. DeskOK(desk) /\ StackOK(desk, Absent) /\ ActiveOK(desk) /\ started \in BOOLEAN
  BY DEF LayersInv, LayersType, ActiveAt
<1>2. /\ s \in Seq(Layer) /\ n \in Nat /\ n >= 3 /\ DOMAIN s = 1 .. n /\ IsInjective(s)
      /\ s[1] = Background /\ s[2] = ConsoleLayer /\ s[n] = Mouse
      /\ \A i \in 1 .. n : s[i] \in Layer
  BY <1>1, LenProperties, ElementOfSeq DEF DeskOK, StackOK
<1>3. \A x \in Layer : Shows(desk, x) <=> x # TerminalWindow \/ started
  BY <1>1 DEF StackOK, Absent
<1>4. \A x : Shows(desk, x) <=> \E i \in 1 .. n : s[i] = x
  BY <1>2 DEF Shows, Contains
<1>5. ASSUME desk.active # NoLayer
      PROVE  Index(desk, desk.active) >= IF desk.active = TerminalWindow THEN n - 2 ELSE n - 1
  <2>1. PICK i \in DOMAIN s : /\ s[i] = desk.active
                              /\ i >= n - (IF desk.active = TerminalWindow THEN 2 ELSE 1)
    BY <1>1, <1>5 DEF ActiveOK
  <2>2. Shows(desk, desk.active)
    BY <1>2, <1>4, <2>1
  <2>3. i = Index(desk, desk.active)
    BY <1>2, <2>1, <2>2, IndexFacts
  <2> QED BY <2>1, <2>3
<1>6. \A id \in Draggable : desk.lit[id] <=> desk.active = id
  BY <1>1 DEF ActiveOK
<1> HIDE DEF s
<1>7. SubSeq(s, 1, 2) = <<Background, ConsoleLayer>>
  <2> DEFINE a == SubSeq(s, 1, 2)
             b == <<Background, ConsoleLayer>>
  <2>1. a \in Seq(Layer) /\ Len(a) = 2 /\ a[1] = s[1] /\ a[2] = s[2]
    BY <1>2
  <2>2. b \in Seq(Layer) /\ Len(b) = 2 /\ b[1] = Background /\ b[2] = ConsoleLayer
    BY LayerNames
  <2> HIDE DEF a, b
  <2>3. \A i \in 1 .. 2 : a[i] = b[i]
    <3>1. \A i \in 1 .. 2 : i = 1 \/ i = 2
      OBVIOUS
    <3> QED BY ONLY <1>2, <2>1, <2>2, <3>1
  <2>4. a = b
    BY ONLY <2>1, <2>2, <2>3, SeqEqual
  <2> QED BY <2>4 DEF a, b
<1>8. ToSet(s) = IF started THEN Layer ELSE Layer \ {TerminalWindow}
  <2>1. ToSet(s) = {s[i] : i \in 1 .. n}
    BY <1>2 DEF ToSet
  <2>2. \A x : x \in ToSet(s) <=> \E i \in 1 .. n : s[i] = x
    BY <2>1
  <2> QED BY <1>1, <1>2, <1>3, <1>4, <2>2
<1> QED
  BY <1>2, <1>5, <1>6, <1>7, <1>8 DEF ActiveOnTop, s

\* In every run, but for the middle of Activate, the mouse is on top of the stack, the
\* background and the console are at the bottom, each layer is there once, and the active
\* layer, whose title bar is the lit one, is the next below the mouse (layer.cpp,
\* ActiveLayer::Activate and UpDown).
THEOREM ActiveAlwaysOnTop == Spec => []ActiveOnTop
<1>1. Init => LayersInv
  BY LayersStart
<1>2. LayersInv /\ [Next]_vars => LayersInv'
  BY LayersStep
<1>3. LayersInv => ActiveOnTop
  BY LayersInvActive
<1> QED
  BY <1>1, <1>2, <1>3, PTL DEF Spec

\* In every run, at every moment, each cell of the screen that is not waiting to be
\* drawn shows the highest layer that is there with its present contents, although Draw
\* goes through a part of the stack in a part of the screen, and whatever the AHCI handler
\* and the AHCI task draw in the middle of it (layer.cpp, Draw, Move and Activate).
THEOREM ScreenAlwaysShowsLayers == Spec => []ScreenShowsLayers
<1>1. Init => LayersInv
  BY LayersStart
<1>2. LayersInv /\ [Next]_vars => LayersInv'
  BY LayersStep
<1>3. LayersInv => ScreenShowsLayers
  BY DEF LayersInv, ScreenShowsLayers, Fresh, Full
<1> QED
  BY <1>1, <1>2, <1>3, PTL DEF Spec

----------------------------------------------------------------------------
(* The terminal.                                                           *)

Contents == Chars \cup Marks \cup {"out"}

Windows == [cursor : [x : 0 .. Columns, y : 0 .. Rows - 1], cell : [Cells -> Contents],
            dirty : SUBSET Cells]

\* A window with the cursor taken away: nothing was written over something else, and
\* there is nothing in the rows below the cursor and in the column only it can reach.
Clean(w) ==
  /\ w \in Windows
  /\ \A c \in Cells : /\ w.cell[c] # "cursor" /\ w.cell[c] # "overprint"
                      /\ c[2] > w.cursor.y \/ c[1] = Columns => w.cell[c] = "blank"

\* Nothing is in the row of the cursor from the cursor on.
RestIsBlank(w) == \A c \in Cells : c[2] = w.cursor.y /\ c[1] >= w.cursor.x => w.cell[c] = "blank"

\* What Print starts from and leaves behind after each character.
Printable(w) == Clean(w) /\ RestIsBlank(w) /\ w.cursor.x < Columns

\* Between keys the cursor is seen, and with it taken away nothing is behind it.
CursorShown(w) ==
  /\ w \in Windows /\ w.cell[Cursor(w)] = "cursor"
  /\ Clean(DrawCursor(w, FALSE)) /\ RestIsBlank(DrawCursor(w, FALSE))

\* Lines that can have been typed.
Lines == {s \in Seq(Chars) : Len(s) < Columns}

\* With the prompt, the line ends before the cursor.  Without it the first character
\* may be in the column of the prompt.
LineAtCursor ==
  \/ Len(linebuf) = window.cursor.x - 1
  \/ erased /\ Len(linebuf) = window.cursor.x

LineIsShown ==
  ~erased => /\ window.cell[<<0, window.cursor.y>>] = "prompt"
             /\ \A i \in 1 .. Len(linebuf) : window.cell[<<i, window.cursor.y>>] = linebuf[i]

TerminalInv ==
  /\ CursorShown(window) /\ linebuf \in Lines
  /\ history \in [1 .. HistorySize -> Lines] /\ historyIndex \in -1 .. HistorySize - 1
  /\ erased \in BOOLEAN
  /\ LineAtCursor /\ LineIsShown
  /\ EchoComplete

USE TerminalAssumption

\* A cell is its column and its row.
LEMMA CellParts ==
  ASSUME NEW c \in Cells
  PROVE  c[1] \in 0 .. Columns /\ c[2] \in 0 .. Rows - 1 /\ c = <<c[1], c[2]>>
BY DEF Cells

\* The cursor is at a cell.
LEMMA CursorIsCell ==
  ASSUME NEW w \in Windows
  PROVE  /\ Cursor(w) \in Cells /\ Cursor(w)[1] = w.cursor.x /\ Cursor(w)[2] = w.cursor.y
         /\ w.cursor.x \in 0 .. Columns /\ w.cursor.y \in 0 .. Rows - 1
         /\ w.cursor = [x |-> w.cursor.x, y |-> w.cursor.y]
         /\ w.cell \in [Cells -> Contents] /\ w.dirty \in SUBSET Cells
BY DEF Cursor, Windows, Cells

\* Filling an area changes its cells and nothing else, and makes no other cell dirty.
LEMMA FillFacts ==
  ASSUME NEW w \in Windows, NEW area, NEW char \in Contents
  PROVE  /\ Fill(w, area, char) \in Windows
         /\ Fill(w, area, char).cursor = w.cursor
         /\ \A c \in Cells : Fill(w, area, char).cell[c] = IF c \in area THEN char ELSE w.cell[c]
         /\ \A c \in Fill(w, area, char).dirty : c \in w.dirty \/ c \in area
<1> DEFINE cell == [c \in Cells |-> IF c \in area THEN char ELSE w.cell[c]]
           dirty == w.dirty \cup {c \in Cells : cell[c] # w.cell[c]}
<1>1. w.cell \in [Cells -> Contents] /\ w.dirty \in SUBSET Cells
  BY DEF Windows
<1>2. cell \in [Cells -> Contents] /\ dirty \in SUBSET Cells
  BY <1>1
<1>3. \A c \in Cells : cell[c] = IF c \in area THEN char ELSE w.cell[c]
  OBVIOUS
<1>4. \A c \in dirty : c \in w.dirty \/ c \in area
  OBVIOUS
<1>5. Fill(w, area, char) = [w EXCEPT !.cell = cell, !.dirty = dirty]
  BY DEF Fill, Written
<1> HIDE DEF cell, dirty
<1> QED
  BY <1>2, <1>3, <1>4, <1>5 DEF Windows

\* With the cursor taken away its cell is blank, and with it there it shows it.
LEMMA DrawCursorFacts ==
  ASSUME NEW w \in Windows, NEW visible \in BOOLEAN
  PROVE  /\ DrawCursor(w, visible) \in Windows
         /\ DrawCursor(w, visible).cursor = w.cursor
         /\ \A c \in Cells : DrawCursor(w, visible).cell[c] =
              IF c = Cursor(w) THEN IF visible THEN "cursor" ELSE "blank" ELSE w.cell[c]
         /\ \A c \in DrawCursor(w, visible).dirty : c \in w.dirty \/ c = Cursor(w)
<1> DEFINE char == IF visible THEN "cursor" ELSE "blank"
<1>1. char \in Contents
  BY DEF Contents, Marks
<1>2. DrawCursor(w, visible) = Fill(w, {Cursor(w)}, char)
  BY DEF DrawCursor
<1>3. \A c \in Cells : c \in {Cursor(w)} <=> c = Cursor(w)
  OBVIOUS
<1> HIDE DEF char
<1>4. /\ Fill(w, {Cursor(w)}, char) \in Windows
      /\ Fill(w, {Cursor(w)}, char).cursor = w.cursor
      /\ \A c \in Cells : Fill(w, {Cursor(w)}, char).cell[c] =
           IF c = Cursor(w) THEN char ELSE w.cell[c]
      /\ \A c \in Fill(w, {Cursor(w)}, char).dirty : c \in w.dirty \/ c = Cursor(w)
  BY <1>1, <1>3, FillFacts
<1> QED
  BY <1>2, <1>4 DEF char

\* Scrolling keeps the cursor and leaves its row blank.
LEMMA Scroll1Facts ==
  ASSUME NEW w \in Windows, w.cursor.y = Rows - 1, Clean(w)
  PROVE  /\ Scroll1(w) \in Windows /\ Scroll1(w).cursor = w.cursor /\ Clean(Scroll1(w))
         /\ \A c \in Cells : c[2] = w.cursor.y => Scroll1(w).cell[c] = "blank"
<1> DEFINE cell == [c \in Cells |-> CASE c \notin Text -> w.cell[c]
                                      [] c[2] = w.cursor.y -> "blank"
                                      [] OTHER -> w.cell[<<c[1], c[2] + 1>>]]
           dirty == w.dirty \cup {c \in Cells : cell[c] # w.cell[c]}
<1>1. w.cell \in [Cells -> Contents] /\ w.dirty \in SUBSET Cells /\ "blank" \in Contents
  BY DEF Windows, Contents, Marks
<1>2. ASSUME NEW c \in Cells
      PROVE  /\ cell[c] \in Contents
             /\ cell[c] # "cursor" /\ cell[c] # "overprint"
             /\ c[2] > w.cursor.y \/ c[1] = Columns => cell[c] = "blank"
             /\ c[2] = w.cursor.y => cell[c] = "blank"
  <2>1. c[1] \in 0 .. Columns /\ c[2] \in 0 .. Rows - 1 /\ c = <<c[1], c[2]>>
    BY CellParts
  <2>2. c \in Text <=> c[1] # Columns
    BY <2>1 DEF Text
  <2>3. CASE c \notin Text
    BY <1>1, <2>2, <2>3 DEF Clean
  <2>4. CASE c \in Text /\ c[2] = w.cursor.y
    BY <1>1, <2>1, <2>2, <2>4
  <2>5. CASE c \in Text /\ c[2] # w.cursor.y
    <3> DEFINE d == <<c[1], c[2] + 1>>
    <3>1. d \in Cells /\ cell[c] = w.cell[d]
      BY <2>1, <2>5 DEF Cells
    <3>2. ~(c[2] > w.cursor.y) /\ c[1] # Columns
      BY <2>1, <2>2, <2>5
    <3> HIDE DEF d
    <3> QED BY <1>1, <2>5, <3>1, <3>2 DEF Clean
  <2> QED BY <2>3, <2>4, <2>5
<1>3. cell \in [Cells -> Contents] /\ dirty \in SUBSET Cells
  <2>1. \A c \in Cells : cell[c] \in Contents
    BY <1>2
  <2> QED BY <1>1, <2>1
<1>4. Scroll1(w) = [w EXCEPT !.cell = cell, !.dirty = dirty]
  BY DEF Scroll1, Written
<1> HIDE DEF cell, dirty
<1>5. Scroll1(w) \in Windows /\ Scroll1(w).cursor = w.cursor /\ Scroll1(w).cell = cell
  BY <1>3, <1>4 DEF Windows
<1> QED
  BY <1>2, <1>5 DEF Clean

\* A new line begins with a row that is blank.
LEMMA NewlineFacts ==
  ASSUME NEW w \in Windows, Clean(w)
  PROVE  Printable(Newline(w)) /\ Newline(w).cursor.x = 0
<1> DEFINE start == [w EXCEPT !.cursor.x = 0]
           next == [start EXCEPT !.cursor.y = @ + 1]
<1>1. /\ w.cursor.x \in 0 .. Columns /\ w.cursor.y \in 0 .. Rows - 1
      /\ w.cursor = [x |-> w.cursor.x, y |-> w.cursor.y]
      /\ w = [cursor |-> w.cursor, cell |-> w.cell, dirty |-> w.dirty]
      /\ w.cell \in [Cells -> Contents] /\ w.dirty \in SUBSET Cells
  BY DEF Windows
<1>2. start = [cursor |-> [x |-> 0, y |-> w.cursor.y], cell |-> w.cell, dirty |-> w.dirty]
  BY <1>1
<1> HIDE DEF start
<1>3. start \in Windows /\ Clean(start) /\ start.cursor.x = 0 /\ start.cursor.y = w.cursor.y
  <2>1. /\ start.cursor.x = 0 /\ start.cursor.y = w.cursor.y /\ start.cell = w.cell
        /\ start.cursor = [x |-> 0, y |-> w.cursor.y]
    BY <1>2
  <2>2. start.cursor \in [x : 0 .. Columns, y : 0 .. Rows - 1]
    BY <1>1, <2>1
  <2>3. start \in Windows
    BY <1>1, <1>2, <2>1, <2>2 DEF Windows
  <2> QED BY <2>1, <2>3 DEF Clean
<1>4. next = [cursor |-> [x |-> 0, y |-> w.cursor.y + 1], cell |-> w.cell, dirty |-> w.dirty]
  BY <1>2
<1>5. CASE w.cursor.y < Rows - 1
  <2>1. Newline(w) = next
    BY <1>5 DEF Newline, start
  <2>2. w.cursor.y + 1 \in 0 .. Rows - 1
    BY <1>1, <1>5
  <2> HIDE DEF next
  <2>3. next \in Windows /\ next.cursor.x = 0 /\ next.cursor.y = w.cursor.y + 1 /\ next.cell = w.cell
    <3>1. /\ next.cursor.x = 0 /\ next.cursor.y = w.cursor.y + 1 /\ next.cell = w.cell
          /\ next.cursor = [x |-> 0, y |-> w.cursor.y + 1]
      BY <1>4
    <3>2. next.cursor \in [x : 0 .. Columns, y : 0 .. Rows - 1]
      BY <2>2, <3>1
    <3> QED BY <1>1, <1>4, <3>1, <3>2 DEF Windows
  <2>4. ASSUME NEW c \in Cells
        PROVE  /\ next.cell[c] # "cursor" /\ next.cell[c] # "overprint"
               /\ c[2] > next.cursor.y \/ c[1] = Columns => next.cell[c] = "blank"
               /\ c[2] = next.cursor.y => next.cell[c] = "blank"
    <3>1. c[2] \in 0 .. Rows - 1
      BY CellParts
    <3>2. c[2] > next.cursor.y \/ c[2] = next.cursor.y => c[2] > w.cursor.y
      BY <1>1, <2>3, <3>1
    <3> QED BY <2>3, <3>2 DEF Clean
  <2> QED BY <2>1, <2>3, <2>4 DEF Printable, Clean, RestIsBlank
<1>6. CASE ~(w.cursor.y < Rows - 1)
  <2>1. Newline(w) = Scroll1(start) /\ start.cursor.y = Rows - 1
    BY <1>1, <1>3, <1>6 DEF Newline, start
  <2>2. /\ Scroll1(start) \in Windows /\ Scroll1(start).cursor = start.cursor
        /\ Clean(Scroll1(start))
        /\ \A c \in Cells : c[2] = start.cursor.y => Scroll1(start).cell[c] = "blank"
    BY <1>3, <2>1, Scroll1Facts
  <2> QED BY <1>3, <2>1, <2>2 DEF Printable, RestIsBlank
<1> QED BY <1>5, <1>6

\* A character written on a blank cell is what is then seen.
LEMMA WriteAsciiFacts ==
  ASSUME NEW w \in Windows, NEW at \in Cells, w.cell[at] = "blank", NEW char \in Contents
  PROVE  /\ WriteAscii(w, at, char) \in Windows
         /\ WriteAscii(w, at, char).cursor = w.cursor
         /\ \A c \in Cells : WriteAscii(w, at, char).cell[c] = IF c = at THEN char ELSE w.cell[c]
         /\ \A c \in WriteAscii(w, at, char).dirty : c \in w.dirty \/ c = at
<1>1. WriteAscii(w, at, char) = Fill(w, {at}, char)
  BY DEF WriteAscii
<1>2. \A c \in Cells : c \in {at} <=> c = at
  OBVIOUS
<1> QED
  BY <1>1, <1>2, FillFacts

\* Moving the cursor within its row changes nothing else.
LEMMA MovedCursor ==
  ASSUME NEW w \in Windows, NEW n \in 0 .. Columns,
         NEW moved, moved = [w EXCEPT !.cursor.x = n]
  PROVE  /\ moved \in Windows /\ moved.cell = w.cell /\ moved.dirty = w.dirty
         /\ moved.cursor.x = n /\ moved.cursor.y = w.cursor.y
<1>1. /\ w.cursor.y \in 0 .. Rows - 1 /\ w.cursor = [x |-> w.cursor.x, y |-> w.cursor.y]
      /\ w = [cursor |-> w.cursor, cell |-> w.cell, dirty |-> w.dirty]
      /\ w.cell \in [Cells -> Contents] /\ w.dirty \in SUBSET Cells
  BY DEF Windows
<1> DEFINE cursor == [w.cursor EXCEPT !.x = n]
<1>2. cursor = [x |-> n, y |-> w.cursor.y]
  BY <1>1
<1>3. moved = [w EXCEPT !.cursor = cursor]
  OBVIOUS
<1> HIDE DEF cursor
<1>4. moved = [cursor |-> cursor, cell |-> w.cell, dirty |-> w.dirty]
  BY ONLY <1>1, <1>3
<1>5. /\ moved.cell = w.cell /\ moved.dirty = w.dirty /\ moved.cursor = cursor
      /\ cursor.x = n /\ cursor.y = w.cursor.y
  BY ONLY <1>2, <1>4
<1>6. cursor \in [x : 0 .. Columns, y : 0 .. Rows - 1]
  BY <1>1, <1>2
<1>7. moved \in Windows
  BY ONLY <1>1, <1>4, <1>6 DEF Windows
<1> QED
  BY <1>5, <1>7

\* After each character, printing can go on, at the start of a line after a newline.
LEMMA PrintCharFacts ==
  ASSUME NEW w, Printable(w), NEW char \in {"out", "prompt", "newline"}
  PROVE  /\ Printable(PrintChar(w, char))
         /\ char = "newline" => PrintChar(w, char).cursor.x = 0
         /\ char = "prompt" /\ w.cursor.x = 0 =>
              /\ PrintChar(w, char).cursor.x = 1
              /\ PrintChar(w, char).cell[<<0, PrintChar(w, char).cursor.y>>] = "prompt"
<1>1. w \in Windows /\ Clean(w) /\ RestIsBlank(w) /\ w.cursor.x < Columns
  BY DEF Printable, Clean
<1>2. /\ Cursor(w) \in Cells /\ Cursor(w)[1] = w.cursor.x /\ Cursor(w)[2] = w.cursor.y
      /\ w.cursor.x \in 0 .. Columns /\ w.cursor.y \in 0 .. Rows - 1
  BY <1>1, CursorIsCell
<1>3. CASE char = "newline"
  BY <1>1, <1>3, NewlineFacts DEF PrintChar
<1>4. CASE char # "newline"
  <2> DEFINE at == Cursor(w)
             written == WriteAscii(w, at, char)
  <2>1. char \in Contents /\ char # "cursor" /\ char # "overprint"
    BY <1>4 DEF Contents, Marks
  <2>2. w.cell[at] = "blank"
    BY <1>1, <1>2 DEF RestIsBlank
  <2>3. PrintChar(w, char) = IF w.cursor.x = Columns - 1 THEN Newline(written)
                             ELSE [written EXCEPT !.cursor.x = w.cursor.x + 1]
    <3>1. written.cursor = w.cursor
      BY <1>1, <1>2, <2>1, <2>2, WriteAsciiFacts
    <3> QED BY <1>4, <3>1 DEF PrintChar
  <2> HIDE DEF written
  <2>4. /\ written \in Windows /\ written.cursor = w.cursor
        /\ \A c \in Cells : written.cell[c] = IF c = at THEN char ELSE w.cell[c]
    BY <1>1, <1>2, <2>1, <2>2, WriteAsciiFacts DEF written
  <2> HIDE DEF at
  <2>5. Clean(written)
    <3>1. ASSUME NEW c \in Cells
          PROVE  /\ written.cell[c] # "cursor" /\ written.cell[c] # "overprint"
                 /\ c[2] > w.cursor.y \/ c[1] = Columns => written.cell[c] = "blank"
      <4>1. c = at => ~(c[2] > w.cursor.y) /\ c[1] # Columns
        BY <1>1, <1>2 DEF at
      <4> QED BY <1>1, <2>1, <2>4, <4>1 DEF Clean
    <3> QED BY <2>4, <3>1 DEF Clean
  <2>6. CASE w.cursor.x = Columns - 1
    <3>1. PrintChar(w, char) = Newline(written)
      BY <2>3, <2>6
    <3>2. ~(char = "prompt" /\ w.cursor.x = 0)
      BY <2>6
    <3> QED BY <1>4, <2>4, <2>5, <3>1, <3>2, NewlineFacts
  <2>7. CASE w.cursor.x # Columns - 1
    <3> DEFINE n == w.cursor.x + 1
               moved == [written EXCEPT !.cursor.x = n]
    <3>1. PrintChar(w, char) = moved /\ n \in 0 .. Columns /\ n < Columns /\ n \in Nat
      BY <1>1, <1>2, <2>3, <2>7
    <3>2. n = w.cursor.x + 1
      OBVIOUS
    <3> HIDE DEF n
    <3>a. moved = [written EXCEPT !.cursor.x = n]
      OBVIOUS
    <3> HIDE DEF moved
    <3>3. /\ moved \in Windows /\ moved.cell = written.cell
          /\ moved.cursor.x = n /\ moved.cursor.y = w.cursor.y
      BY <2>4, <3>1, <3>a, MovedCursor
    <3>4. Clean(moved)
      BY <2>4, <2>5, <3>3 DEF Clean
    <3>5. RestIsBlank(moved)
      <4>1. ASSUME NEW c \in Cells, c[2] = w.cursor.y, c[1] >= n PROVE written.cell[c] = "blank"
        <5>1. c[1] \in 0 .. Columns
          BY CellParts
        <5>2. c # at /\ c[1] >= w.cursor.x
          BY <1>2, <3>1, <3>2, <4>1, <5>1 DEF at
        <5> QED BY <1>1, <2>4, <4>1, <5>2 DEF RestIsBlank
      <4> QED BY <3>3, <4>1 DEF RestIsBlank
    <3>6. char = "prompt" /\ w.cursor.x = 0 =>
            moved.cursor.x = 1 /\ moved.cell[<<0, moved.cursor.y>>] = "prompt"
      <4>1. w.cursor.x = 0 => at = <<0, w.cursor.y>> /\ at \in Cells
        BY <1>2 DEF at, Cursor
      <4> QED BY <2>4, <3>2, <3>3, <4>1
    <3> QED BY <1>4, <3>1, <3>3, <3>4, <3>5, <3>6 DEF Printable
  <2> QED BY <2>6, <2>7
<1> QED BY <1>3, <1>4

\* The loop of Print has a window after each number of turns: it is the one the turn
\* makes of the window before.
LEMMA PrintingTurns ==
  ASSUME NEW w, NEW S, NEW s \in Seq(S)
  PROVE  Printing(w, s) =
           [i \in 0 .. Len(s) |-> IF i = 0 THEN w ELSE PrintChar(Printing(w, s)[i - 1], s[i])]
<1> DEFINE Turn(g, i) == IF i = 0 THEN w ELSE PrintChar(g[i - 1], s[i])
           Turns(g, n) == g = [i \in 0 .. n |-> Turn(g, i)]
           Bad == {n \in 0 .. Len(s) : ~(\E f : Turns(f, n))}
<1>1. Len(s) \in Nat
  OBVIOUS
<1>2. Turns([i \in 0 .. 0 |-> w], 0)
  OBVIOUS
<1>3. ASSUME NEW n \in 1 .. Len(s), NEW f, Turns(f, n - 1)
      PROVE  Turns([i \in 0 .. n |-> IF i = n THEN PrintChar(f[n - 1], s[n]) ELSE f[i]], n)
  <2> DEFINE h == [i \in 0 .. n |-> IF i = n THEN PrintChar(f[n - 1], s[n]) ELSE f[i]]
  <2>1. ASSUME NEW i \in 0 .. n PROVE h[i] = Turn(h, i)
    <3>1. CASE i = 0
      BY <1>3, <3>1
    <3>2. CASE i \in 1 .. n - 1
      <4>1. h[i] = f[i] /\ h[i - 1] = f[i - 1] /\ f[i] = PrintChar(f[i - 1], s[i]) /\ i # 0
        BY <1>3, <3>2
      <4> QED BY <4>1
    <3>3. CASE i = n
      <4>1. h[i] = PrintChar(f[n - 1], s[n]) /\ h[n - 1] = f[n - 1] /\ i # 0
        BY <3>3
      <4> QED BY <3>3, <4>1
    <3> QED BY <3>1, <3>2, <3>3
  <2>2. h = [i \in 0 .. n |-> h[i]]
    OBVIOUS
  <2> HIDE DEF h, Turn
  <2>3. h = [i \in 0 .. n |-> Turn(h, i)]
    BY <2>1, <2>2
  <2> QED BY <2>3 DEF h
<1> HIDE DEF Turns
<1>4. Bad = {}
  <2> SUFFICES ASSUME Bad # {} PROVE FALSE
    OBVIOUS
  <2> DEFINE n == Min(Bad)
  <2>1. Bad \in SUBSET Nat
    OBVIOUS
  <2>2. n \in Bad /\ \A m \in Bad : n <= m
    <3> HIDE DEF Bad
    <3> QED BY <2>1, LeastExists
  <2> HIDE DEF n
  <2>3. n # 0
    BY <1>2, <2>2
  <2>4. n - 1 \notin Bad /\ n \in 1 .. Len(s) /\ n - 1 \in 0 .. Len(s)
    BY <1>1, <2>1, <2>2, <2>3
  <2>5. PICK f : Turns(f, n - 1)
    BY <2>4
  <2>6. \E h : Turns(h, n)
    BY <1>3, <2>4, <2>5
  <2> QED BY <2>2, <2>6
<1>5. \E f : Turns(f, Len(s))
  BY <1>1, <1>4
<1>6. Printing(w, s) = CHOOSE f : Turns(f, Len(s))
  BY DEF Printing, Turns
<1>7. Turns(Printing(w, s), Len(s))
  BY <1>5, <1>6
<1> QED
  BY <1>7 DEF Turns

\* The window after the loop of Print, and where it ends if the last character is a
\* newline or the only one is the prompt.
LEMMA PrintingFacts ==
  ASSUME NEW w, Printable(w), NEW s \in Seq({"out", "prompt", "newline"})
  PROVE  /\ Printable(Printing(w, s)[Len(s)])
         /\ s = << >> => Printing(w, s)[Len(s)] = w
         /\ s # << >> /\ s[Len(s)] = "newline" => Printing(w, s)[Len(s)].cursor.x = 0
         /\ s = <<"prompt">> /\ w.cursor.x = 0 =>
              /\ Printing(w, s)[Len(s)].cursor.x = 1
              /\ Printing(w, s)[Len(s)].cell[<<0, Printing(w, s)[Len(s)].cursor.y>>] = "prompt"
<1> DEFINE S == {"out", "prompt", "newline"}
           after == Printing(w, s)
           Bad == {n \in 0 .. Len(s) : ~Printable(after[n])}
<1>a. ASSUME NEW v, Printable(v), NEW char \in S
      PROVE  /\ Printable(PrintChar(v, char))
             /\ char = "newline" => PrintChar(v, char).cursor.x = 0
  BY <1>a, PrintCharFacts
<1> HIDE DEF S
<1>1. Len(s) \in Nat /\ \A i \in 1 .. Len(s) : s[i] \in S
  BY DEF S
<1>2. after = [i \in 0 .. Len(s) |-> IF i = 0 THEN w ELSE PrintChar(after[i - 1], s[i])]
  BY PrintingTurns
<1> HIDE DEF after
<1>3. after[0] = w /\ \A i \in 1 .. Len(s) : after[i] = PrintChar(after[i - 1], s[i])
  <2>1. ASSUME NEW i \in 1 .. Len(s) PROVE after[i] = PrintChar(after[i - 1], s[i])
    <3>1. i \in 0 .. Len(s) /\ i # 0
      BY <1>1
    <3> QED BY <1>2, <3>1
  <2>2. after[0] = w
    <3>1. 0 \in 0 .. Len(s)
      BY <1>1
    <3> QED BY <1>2, <3>1
  <2> QED BY <2>1, <2>2
<1>4. Bad = {}
  <2> SUFFICES ASSUME Bad # {} PROVE FALSE
    OBVIOUS
  <2> DEFINE n == Min(Bad)
  <2>1. Bad \in SUBSET Nat
    OBVIOUS
  <2>2. n \in Bad /\ \A m \in Bad : n <= m
    <3> HIDE DEF Bad
    <3> QED BY <2>1, LeastExists
  <2> HIDE DEF n
  <2>3. n # 0
    BY <1>3, <2>2
  <2>4. n - 1 \notin Bad /\ n \in 1 .. Len(s) /\ n - 1 \in 0 .. Len(s)
    BY <1>1, <2>1, <2>2, <2>3
  <2>5. Printable(after[n - 1]) /\ s[n] \in S
    BY <1>1, <2>4
  <2>6. Printable(after[n])
    BY <1>3, <1>a, <2>4, <2>5
  <2> QED BY <2>2, <2>6
<1>5. \A i \in 0 .. Len(s) : Printable(after[i])
  BY <1>4
<1>6. Printable(after[Len(s)]) /\ (s = << >> => after[Len(s)] = w)
  <2>1. s = << >> => Len(s) = 0
    OBVIOUS
  <2> QED BY <1>1, <1>3, <1>5, <2>1
<1>7. ASSUME s # << >>, s[Len(s)] = "newline" PROVE after[Len(s)].cursor.x = 0
  <2>1. Len(s) \in 1 .. Len(s) /\ Len(s) - 1 \in 0 .. Len(s)
    BY <1>1, <1>7
  <2>2. Printable(after[Len(s) - 1]) /\ after[Len(s)] = PrintChar(after[Len(s) - 1], "newline")
    BY <1>3, <1>5, <1>7, <2>1
  <2>3. "newline" \in S
    BY DEF S
  <2> QED BY <1>a, <2>2, <2>3
<1>8. ASSUME s = <<"prompt">>, w.cursor.x = 0
      PROVE  after[Len(s)].cursor.x = 1 /\ after[Len(s)].cell[<<0, after[Len(s)].cursor.y>>] = "prompt"
  <2>1. Len(s) = 1 /\ s[1] = "prompt"
    BY <1>8
  <2>2. after[1] = PrintChar(w, "prompt")
    BY <1>3, <2>1
  <2> QED BY ZenonT(40), <1>8, <2>1, <2>2, PrintCharFacts
<1> QED
  BY <1>6, <1>7, <1>8 DEF after

\* The loop of WriteString has a window after each number of turns: it is the one the turn
\* makes of the window before.
LEMMA WritingTurns ==
  ASSUME NEW w, NEW S, NEW s \in Seq(S)
  PROVE  Writing(w, s) =
           [i \in 0 .. Len(s) |->
              IF i = 0 THEN w ELSE WriteAscii(Writing(w, s)[i - 1], <<i, w.cursor.y>>, s[i])]
<1> DEFINE Turn(g, i) == IF i = 0 THEN w ELSE WriteAscii(g[i - 1], <<i, w.cursor.y>>, s[i])
           Turns(g, n) == g = [i \in 0 .. n |-> Turn(g, i)]
           Bad == {n \in 0 .. Len(s) : ~(\E f : Turns(f, n))}
<1>1. Len(s) \in Nat
  OBVIOUS
<1>2. Turns([i \in 0 .. 0 |-> w], 0)
  OBVIOUS
<1>3. ASSUME NEW n \in 1 .. Len(s), NEW f, Turns(f, n - 1)
      PROVE  Turns([i \in 0 .. n |-> IF i = n THEN WriteAscii(f[n - 1], <<n, w.cursor.y>>, s[n]) ELSE f[i]], n)
  <2> DEFINE h == [i \in 0 .. n |-> IF i = n THEN WriteAscii(f[n - 1], <<n, w.cursor.y>>, s[n]) ELSE f[i]]
  <2>1. ASSUME NEW i \in 0 .. n PROVE h[i] = Turn(h, i)
    <3>1. CASE i = 0
      BY <1>3, <3>1
    <3>2. CASE i \in 1 .. n - 1
      <4>1. h[i] = f[i] /\ h[i - 1] = f[i - 1] /\ f[i] = WriteAscii(f[i - 1], <<i, w.cursor.y>>, s[i]) /\ i # 0
        BY SMTT(40), <1>3, <3>2
      <4> QED BY <4>1
    <3>3. CASE i = n
      <4>1. h[i] = WriteAscii(f[n - 1], <<n, w.cursor.y>>, s[n]) /\ h[n - 1] = f[n - 1] /\ i # 0
        BY <3>3
      <4> QED BY <3>3, <4>1
    <3> QED BY <3>1, <3>2, <3>3
  <2>2. h = [i \in 0 .. n |-> h[i]]
    OBVIOUS
  <2> HIDE DEF h, Turn
  <2>3. h = [i \in 0 .. n |-> Turn(h, i)]
    BY <2>1, <2>2
  <2> QED BY <2>3 DEF h
<1> HIDE DEF Turns
<1>4. Bad = {}
  <2> SUFFICES ASSUME Bad # {} PROVE FALSE
    OBVIOUS
  <2> DEFINE n == Min(Bad)
  <2>1. Bad \in SUBSET Nat
    OBVIOUS
  <2>2. n \in Bad /\ \A m \in Bad : n <= m
    <3> HIDE DEF Bad
    <3> QED BY <2>1, LeastExists
  <2> HIDE DEF n
  <2>3. n # 0
    BY <1>2, <2>2
  <2>4. n - 1 \notin Bad /\ n \in 1 .. Len(s) /\ n - 1 \in 0 .. Len(s)
    BY <1>1, <2>1, <2>2, <2>3
  <2>5. PICK f : Turns(f, n - 1)
    BY <2>4
  <2>6. \E h : Turns(h, n)
    BY <1>3, <2>4, <2>5
  <2> QED BY <2>2, <2>6
<1>5. \E f : Turns(f, Len(s))
  BY <1>1, <1>4
<1>6. Writing(w, s) = CHOOSE f : Turns(f, Len(s))
  BY DEF Writing, Turns
<1>7. Turns(Writing(w, s), Len(s))
  BY <1>5, <1>6
<1> QED
  BY <1>7 DEF Turns

\* A line written over blank cells is seen there, and nothing else changes.
LEMMA WritingFacts ==
  ASSUME NEW w \in Windows, NEW s \in Lines,
         \A c \in Cells : c[2] = w.cursor.y /\ c[1] \in 1 .. Columns - 1 => w.cell[c] = "blank",
         NEW v, v = Writing(w, s)[Len(s)]
  PROVE  /\ v \in Windows /\ v.cursor = w.cursor
         /\ \A c \in Cells : v.cell[c] = IF c[2] = w.cursor.y /\ c[1] \in 1 .. Len(s)
                                         THEN s[c[1]] ELSE w.cell[c]
         /\ \A c \in v.dirty : \/ c \in w.dirty
                               \/ c[2] = w.cursor.y /\ c[1] \in 1 .. Columns - 1
<1> DEFINE after == Writing(w, s)
           y == w.cursor.y
           Good(n) == /\ after[n] \in Windows /\ after[n].cursor = w.cursor
                      /\ \A c \in Cells : after[n].cell[c] = IF c[2] = y /\ c[1] \in 1 .. n
                                                             THEN s[c[1]] ELSE w.cell[c]
                      /\ \A c \in after[n].dirty : \/ c \in w.dirty
                                                   \/ c[2] = y /\ c[1] \in 1 .. Columns - 1
           Bad == {n \in 0 .. Len(s) : ~Good(n)}
<1>1. /\ s \in Seq(Chars) /\ Len(s) \in Nat /\ Len(s) <= Columns - 1
      /\ \A i \in 1 .. Len(s) : s[i] \in Chars /\ s[i] \in Contents
      /\ y \in 0 .. Rows - 1
  <2>1. s \in Seq(Chars) /\ Len(s) < Columns
    BY DEF Lines
  <2>2. Len(s) \in Nat /\ \A i \in 1 .. Len(s) : s[i] \in Chars
    BY <2>1
  <2>3. Len(s) <= Columns - 1
    BY <2>1, <2>2
  <2>4. y \in 0 .. Rows - 1
    BY CursorIsCell
  <2> QED BY <2>1, <2>2, <2>3, <2>4 DEF Contents
<1>2. after = [i \in 0 .. Len(s) |-> IF i = 0 THEN w ELSE WriteAscii(after[i - 1], <<i, y>>, s[i])]
  BY <1>1, WritingTurns
<1> HIDE DEF after
<1>3. after[0] = w /\ \A i \in 1 .. Len(s) : after[i] = WriteAscii(after[i - 1], <<i, y>>, s[i])
  <2>1. ASSUME NEW i \in 1 .. Len(s) PROVE after[i] = WriteAscii(after[i - 1], <<i, y>>, s[i])
    <3>1. i \in 0 .. Len(s) /\ i # 0
      BY <1>1
    <3> QED BY <1>2, <3>1
  <2>2. after[0] = w
    <3>1. 0 \in 0 .. Len(s)
      BY <1>1
    <3> QED BY <1>2, <3>1
  <2> QED BY <2>1, <2>2
<1>4. Good(0)
  <2>1. \A c : c \notin 1 .. 0
    OBVIOUS
  <2> QED BY <1>3, <2>1
<1>5. ASSUME NEW n \in 1 .. Len(s), Good(n - 1) PROVE Good(n)
  <2> DEFINE at == <<n, y>>
             prev == after[n - 1]
             next == after[n]
  <2>1. at \in Cells /\ at[1] = n /\ at[2] = y /\ n \in 1 .. Columns - 1
    BY <1>1 DEF Cells
  <2>2. prev \in Windows /\ prev.cursor = w.cursor
    BY <1>5
  <2>3. prev.cell[at] = "blank"
    <3>1. ~(n \in 1 .. n - 1)
      OBVIOUS
    <3> QED BY <1>5, <2>1, <3>1
  <2>4. next = WriteAscii(prev, at, s[n]) /\ s[n] \in Contents
    BY <1>1, <1>3
  <2>5. \A c \in Cells : prev.cell[c] = IF c[2] = y /\ c[1] \in 1 .. n - 1
                                     THEN s[c[1]] ELSE w.cell[c]
    BY <1>5
  <2>6. \A c \in prev.dirty : c \in w.dirty \/ (c[2] = y /\ c[1] \in 1 .. Columns - 1)
    BY <1>5
  <2> HIDE DEF at, prev, next
  <2>7. /\ next \in Windows /\ next.cursor = prev.cursor
        /\ \A c \in Cells : next.cell[c] = IF c = at THEN s[n] ELSE prev.cell[c]
        /\ \A c \in next.dirty : c \in prev.dirty \/ c = at
    BY <2>1, <2>2, <2>3, <2>4, WriteAsciiFacts
  <2>8. ASSUME NEW c \in Cells
        PROVE  next.cell[c] = IF c[2] = y /\ c[1] \in 1 .. n THEN s[c[1]] ELSE w.cell[c]
    <3>1. CASE c = at
      BY <2>1, <2>7, <3>1
    <3>2. CASE c # at
      <4>1. c[1] \in 0 .. Columns /\ c = <<c[1], c[2]>>
        BY CellParts
      <4>2. c[2] = y => c[1] # n
        BY <3>2, <4>1 DEF at
      <4>3. c[2] = y => (c[1] \in 1 .. n <=> c[1] \in 1 .. n - 1)
        BY <4>1, <4>2
      <4> QED BY <2>5, <2>7, <3>2, <4>3
    <3> QED BY <3>1, <3>2
  <2>9. \A c \in next.dirty : c \in w.dirty \/ (c[2] = y /\ c[1] \in 1 .. Columns - 1)
    BY <2>1, <2>6, <2>7
  <2> QED BY <2>2, <2>7, <2>8, <2>9 DEF next
<1>6. Bad = {}
  <2> HIDE DEF Good
  <2> SUFFICES ASSUME Bad # {} PROVE FALSE
    OBVIOUS
  <2> DEFINE n == Min(Bad)
  <2>1. Bad \in SUBSET Nat
    OBVIOUS
  <2>2. n \in Bad /\ \A m \in Bad : n <= m
    <3> HIDE DEF Bad
    <3> QED BY <2>1, LeastExists
  <2> HIDE DEF n
  <2>3. n # 0
    BY <1>4, <2>2
  <2>4. n - 1 \notin Bad /\ n \in 1 .. Len(s) /\ n - 1 \in 0 .. Len(s)
    BY <1>1, <2>1, <2>2, <2>3
  <2>5. Good(n)
    BY <1>5, <2>4
  <2> QED BY <2>2, <2>5
<1>7. Good(Len(s))
  <2> HIDE DEF Good
  <2> QED BY <1>1, <1>6
<1>8. v = after[Len(s)]
  BY DEF after
<1> QED
  BY <1>7, <1>8

\* The cursor taken away.
LEMMA CursorTaken ==
  ASSUME NEW w, w \in Windows
  PROVE  /\ DrawCursor(w, FALSE) \in Windows /\ DrawCursor(w, FALSE).cursor = w.cursor
         /\ Cursor(w) \in Cells /\ DrawCursor(w, FALSE).cell[Cursor(w)] = "blank"
         /\ \A c \in Cells : c # Cursor(w) => DrawCursor(w, FALSE).cell[c] = w.cell[c]
         /\ \A c \in DrawCursor(w, FALSE).dirty : c \in w.dirty \/ c = Cursor(w)
BY DrawCursorFacts, CursorIsCell

\* The cursor drawn on a window with nothing behind it, and taken away again.
LEMMA CursorDrawn ==
  ASSUME NEW v, Clean(v), RestIsBlank(v)
  PROVE  /\ CursorShown(DrawCursor(v, TRUE))
         /\ DrawCursor(v, TRUE).cursor = v.cursor
         /\ \A c \in Cells : c # Cursor(v) => DrawCursor(v, TRUE).cell[c] = v.cell[c]
         /\ \A c \in DrawCursor(v, TRUE).dirty : c \in v.dirty \/ c = Cursor(v)
<1> DEFINE w == DrawCursor(v, TRUE)
           u == DrawCursor(w, FALSE)
<1>1. v \in Windows /\ Cursor(v) \in Cells /\ Cursor(v)[1] = v.cursor.x /\ Cursor(v)[2] = v.cursor.y
      /\ v.cursor.x \in 0 .. Columns
  BY CursorIsCell DEF Clean
<1>2. /\ w \in Windows /\ w.cursor = v.cursor /\ w.cell[Cursor(v)] = "cursor"
      /\ \A c \in Cells : c # Cursor(v) => w.cell[c] = v.cell[c]
      /\ \A c \in w.dirty : c \in v.dirty \/ c = Cursor(v)
  BY <1>1, DrawCursorFacts
<1> HIDE DEF w
<1>3. Cursor(w) = Cursor(v)
  BY <1>2 DEF Cursor
<1>4. /\ u \in Windows /\ u.cursor = v.cursor
      /\ u.cell[Cursor(v)] = "blank"
      /\ \A c \in Cells : c # Cursor(v) => u.cell[c] = w.cell[c]
  <2>1. u = DrawCursor(w, FALSE)
    OBVIOUS
  <2> HIDE DEF u
  <2>2. /\ u \in Windows /\ u.cursor = w.cursor /\ u.cell[Cursor(w)] = "blank"
        /\ \A c \in Cells : c # Cursor(w) => u.cell[c] = w.cell[c]
    BY ONLY <1>2, <2>1, CursorTaken, Zenon
  <2> QED BY <1>2, <1>3, <2>2
<1>5. v.cell[Cursor(v)] = "blank"
  BY <1>1 DEF RestIsBlank
<1> HIDE DEF u
<1>6. \A c \in Cells : u.cell[c] = v.cell[c]
  BY <1>2, <1>4, <1>5
<1>7. Clean(u) /\ RestIsBlank(u)
  BY <1>4, <1>6 DEF Clean, RestIsBlank
<1>8. CursorShown(w)
  BY <1>2, <1>3, <1>7 DEF CursorShown, u
<1> QED
  BY <1>2, <1>8 DEF w

\* Asking for an area to be drawn changes only what is dirty.
LEMMA DrawnFacts ==
  ASSUME NEW w, CursorShown(w), NEW area
  PROVE  /\ CursorShown(Drawn(w, area))
         /\ Drawn(w, area).cursor = w.cursor /\ Drawn(w, area).cell = w.cell
         /\ \A c \in Drawn(w, area).dirty : c \in w.dirty /\ c \notin area /\ c \in Cells
<1> DEFINE v == Drawn(w, area)
           D(x) == DrawCursor(x, FALSE)
<1>1. w \in Windows /\ w.cell[Cursor(w)] = "cursor" /\ Clean(D(w)) /\ RestIsBlank(D(w))
  BY DEF CursorShown
<1>2. v \in Windows /\ v.cursor = w.cursor /\ v.cell = w.cell /\ v.dirty = w.dirty \ area
  BY <1>1 DEF Drawn, Windows
<1> HIDE DEF v, D
<1>3. Cursor(v) = Cursor(w)
  BY <1>2 DEF Cursor
<1>4. /\ D(v) \in Windows /\ D(v).cursor = w.cursor
      /\ D(v).cell[Cursor(w)] = "blank"
      /\ \A c \in Cells : c # Cursor(w) => D(v).cell[c] = w.cell[c]
  <2>1. /\ D(v) \in Windows /\ D(v).cursor = v.cursor /\ D(v).cell[Cursor(v)] = "blank"
        /\ \A c \in Cells : c # Cursor(v) => D(v).cell[c] = v.cell[c]
    BY ONLY <1>2, CursorTaken, Zenon DEF D
  <2> QED BY <1>2, <1>3, <2>1
<1>5. /\ D(w).cursor = w.cursor
      /\ D(w).cell[Cursor(w)] = "blank"
      /\ \A c \in Cells : c # Cursor(w) => D(w).cell[c] = w.cell[c]
  BY ONLY <1>1, CursorTaken, Zenon DEF D
<1>6. \A c \in Cells : D(v).cell[c] = D(w).cell[c]
  BY <1>4, <1>5
<1>7. Clean(D(v)) /\ RestIsBlank(D(v))
  BY <1>1, <1>4, <1>5, <1>6 DEF Clean, RestIsBlank
<1>8. CursorShown(v)
  BY <1>1, <1>2, <1>3, <1>7 DEF CursorShown, D
<1>9. w.dirty \in SUBSET Cells
  BY <1>1, CursorIsCell
<1> QED
  BY <1>2, <1>8, <1>9 DEF v

\* Print ends with the cursor seen, at the start of a line after whole lines and
\* behind the prompt after the prompt.
LEMMA PrintStringFacts ==
  ASSUME NEW w, Printable(DrawCursor(w, FALSE)), w \in Windows, w.cursor.x = 0,
         NEW s \in Seq({"out", "prompt", "newline"}),
         NEW v, v = PrintString(w, s)
  PROVE  /\ CursorShown(v) /\ Printable(DrawCursor(v, FALSE))
         /\ s = << >> \/ s[Len(s)] = "newline" => v.cursor.x = 0
         /\ s = <<"prompt">> => v.cursor.x = 1 /\ v.cell[<<0, v.cursor.y>>] = "prompt"
<1> DEFINE off == DrawCursor(w, FALSE)
           u == Printing(off, s)[Len(s)]
<1>1. off.cursor = w.cursor
  BY CursorTaken
<1>a. Printable(off)
  OBVIOUS
<1> HIDE DEF off
<1>b. /\ Printable(u)
      /\ s = << >> => u = off
      /\ s # << >> /\ s[Len(s)] = "newline" => u.cursor.x = 0
      /\ s = <<"prompt">> /\ off.cursor.x = 0 =>
           u.cursor.x = 1 /\ u.cell[<<0, u.cursor.y>>] = "prompt"
  BY ONLY <1>a, s \in Seq({"out", "prompt", "newline"}), PrintingFacts, Zenon
<1>3. v = DrawCursor(u, TRUE)
  BY DEF PrintString, off
<1> HIDE DEF u
<1>2. /\ Printable(u)
      /\ s = << >> \/ s[Len(s)] = "newline" => u.cursor.x = 0
      /\ s = <<"prompt">> => u.cursor.x = 1 /\ u.cell[<<0, u.cursor.y>>] = "prompt"
  BY <1>1, <1>b
<1>4. Clean(u) /\ RestIsBlank(u) /\ u.cursor.x < Columns /\ u \in Windows
  BY <1>2 DEF Printable, Clean
<1>5. /\ CursorShown(v) /\ v.cursor = u.cursor
      /\ \A c \in Cells : c # Cursor(u) => v.cell[c] = u.cell[c]
  BY ONLY <1>3, <1>4, CursorDrawn, Zenon
<1>6. Printable(DrawCursor(v, FALSE))
  <2>1. v \in Windows /\ Clean(DrawCursor(v, FALSE)) /\ RestIsBlank(DrawCursor(v, FALSE))
    BY <1>5 DEF CursorShown
  <2>2. DrawCursor(v, FALSE).cursor = v.cursor
    BY <2>1, CursorTaken
  <2> QED BY <1>4, <1>5, <2>1, <2>2 DEF Printable
<1>7. s = <<"prompt">> => v.cursor.x = 1 /\ v.cell[<<0, v.cursor.y>>] = "prompt"
  <2>1. <<0, u.cursor.y>> \in Cells /\ Cursor(u)[1] = u.cursor.x
    BY <1>4, CursorIsCell DEF Cells
  <2>2. u.cursor.x = 1 => <<0, u.cursor.y>> # Cursor(u)
    BY <2>1
  <2> QED BY <1>2, <1>5, <2>1, <2>2
<1> QED
  BY <1>2, <1>5, <1>6, <1>7

\* To take away the cursor where it is not changes nothing that matters to Print.
LEMMA PrintableWithout ==
  ASSUME NEW w, Printable(w)
  PROVE  w \in Windows /\ Printable(DrawCursor(w, FALSE))
<1> DEFINE off == DrawCursor(w, FALSE)
<1>1. w \in Windows /\ Clean(w) /\ RestIsBlank(w) /\ w.cursor.x < Columns
  BY DEF Printable, Clean
<1>2. /\ off \in Windows /\ off.cursor = w.cursor
      /\ Cursor(w) \in Cells /\ off.cell[Cursor(w)] = "blank"
      /\ \A c \in Cells : c # Cursor(w) => off.cell[c] = w.cell[c]
  BY <1>1, CursorTaken
<1> HIDE DEF off
<1>3. \A c \in Cells : off.cell[c] = w.cell[c] \/ off.cell[c] = "blank"
  BY <1>2
<1>4. Clean(off)
  BY <1>1, <1>2, <1>3 DEF Clean
<1>5. RestIsBlank(off)
  BY <1>1, <1>2, <1>3 DEF RestIsBlank
<1> QED
  BY <1>1, <1>2, <1>4, <1>5 DEF Printable, off

\* A new line begins with the prompt, and is drawn with all the rest.
LEMMA PromptPrinted ==
  ASSUME NEW w, w \in Windows, w.cursor.x = 0, Printable(DrawCursor(w, FALSE)),
         NEW v, v = Drawn(PrintString(w, <<"prompt">>), Text)
  PROVE  /\ CursorShown(v) /\ v.cursor.x = 1 /\ v.cell[<<0, v.cursor.y>>] = "prompt"
         /\ \A c \in v.dirty : c[1] = Columns
<1> DEFINE s == <<"prompt">>
           u == PrintString(w, s)
<1>1. s \in Seq({"out", "prompt", "newline"})
  OBVIOUS
<1>2. CursorShown(u) /\ u.cursor.x = 1 /\ u.cell[<<0, u.cursor.y>>] = "prompt"
  BY <1>1, PrintStringFacts
<1>3. v = Drawn(u, Text)
  OBVIOUS
<1> HIDE DEF u
<1>4. /\ CursorShown(v) /\ v.cursor = u.cursor /\ v.cell = u.cell
      /\ \A c \in v.dirty : c \notin Text /\ c \in Cells
  BY <1>2, <1>3, DrawnFacts
<1>5. ASSUME NEW c \in v.dirty PROVE c[1] = Columns
  <2>1. c \in Cells /\ c \notin Text
    BY <1>4
  <2> QED BY <2>1, CellParts DEF Text
<1> QED
  BY <1>2, <1>4, <1>5

LEMMA TerminalStartsInv == TerminalInit => TerminalInv
<1> SUFFICES ASSUME TerminalInit PROVE TerminalInv
  OBVIOUS
<1> DEFINE w == EmptyWindow
<1>1. /\ w \in Windows /\ w.cursor.x = 0 /\ w.cursor.y = 0
      /\ \A c \in Cells : w.cell[c] = "blank"
  <2>1. "blank" \in Contents
    BY DEF Contents, Marks
  <2>2. [c \in Cells |-> "blank"] \in [Cells -> Contents]
    BY <2>1
  <2> QED BY <2>2 DEF EmptyWindow, Windows
<1>2. window = Drawn(PrintString(w, <<"prompt">>), Text)
  BY DEF TerminalInit
<1> HIDE DEF w
<1>3. Printable(w)
  BY <1>1 DEF Printable, Clean, RestIsBlank
<1>4. /\ CursorShown(window) /\ window.cursor.x = 1
      /\ window.cell[<<0, window.cursor.y>>] = "prompt"
      /\ \A c \in window.dirty : c[1] = Columns
  BY <1>1, <1>2, <1>3, PrintableWithout, PromptPrinted
<1>5. linebuf = << >> /\ Len(linebuf) = 0 /\ linebuf \in Lines
  BY DEF TerminalInit, Lines
<1>6. /\ history \in [1 .. HistorySize -> Lines] /\ historyIndex \in -1 .. HistorySize - 1
      /\ erased = FALSE
  BY <1>5 DEF TerminalInit
<1>7. LineAtCursor /\ LineIsShown
  BY <1>4, <1>5 DEF LineAtCursor, LineIsShown
<1> QED
  BY <1>4, <1>5, <1>6, <1>7 DEF TerminalInv, EchoComplete

\* What a command leaves behind: a window whose cursor is at the start of a line.
LEMMA CommandLeaves ==
  ASSUME NEW n, Printable(n), n.cursor.x = 0, NEW w \in ExecuteLine(n)
  PROVE  w \in Windows /\ w.cursor.x = 0 /\ Printable(DrawCursor(w, FALSE))
<1>1. n \in Windows /\ Printable(DrawCursor(n, FALSE)) /\ Clean(n)
  BY PrintableWithout DEF Printable
<1>2. \/ w = n
      \/ w = Clear(n)
      \/ \E s \in Outputs : w = PrintString(n, s)
  BY DEF ExecuteLine
<1>3. CASE w = n
  BY <1>1, <1>3
<1>4. CASE w = Clear(n)
  <2> DEFINE full == Fill(n, Text, "blank")
  <2>1. "blank" \in Contents
    BY DEF Contents, Marks
  <2>2. /\ full \in Windows /\ full.cursor = n.cursor
        /\ \A c \in Cells : full.cell[c] = IF c \in Text THEN "blank" ELSE n.cell[c]
    BY <1>1, <2>1, FillFacts
  <2>3. w = [full EXCEPT !.cursor.y = 0]
    BY <1>4 DEF Clear
  <2> HIDE DEF full
  <2>4. /\ full = [cursor |-> full.cursor, cell |-> full.cell, dirty |-> full.dirty]
        /\ full.cursor = [x |-> full.cursor.x, y |-> full.cursor.y]
        /\ full.cell \in [Cells -> Contents] /\ full.dirty \in SUBSET Cells
        /\ full.cursor.x = 0
    BY <2>2 DEF Windows
  <2> DEFINE cursor == [full.cursor EXCEPT !.y = 0]
  <2>5. cursor = [x |-> 0, y |-> 0]
    BY <2>4
  <2>6. w = [full EXCEPT !.cursor = cursor]
    BY <2>3
  <2> HIDE DEF cursor
  <2>7. w = [cursor |-> cursor, cell |-> full.cell, dirty |-> full.dirty]
    BY ONLY <2>4, <2>6
  <2>8. w.cursor.x = 0 /\ w.cursor.y = 0 /\ w.cell = full.cell /\ w.cursor = cursor
    BY ONLY <2>5, <2>7
  <2>9. cursor \in [x : 0 .. Columns, y : 0 .. Rows - 1]
    BY <2>5
  <2>10. w \in Windows
    BY ONLY <2>4, <2>7, <2>9 DEF Windows
  <2>11. \A c \in Cells : w.cell[c] = "blank"
    <3>1. ASSUME NEW c \in Cells PROVE full.cell[c] = "blank"
      <4>1. CASE c \in Text
        BY <2>2, <4>1
      <4>2. CASE c \notin Text
        <5>1. c[1] = Columns
          BY <4>2, CellParts DEF Text
        <5> QED BY <1>1, <2>2, <4>2, <5>1 DEF Clean
      <4> QED BY <4>1, <4>2
    <3> QED BY <2>8, <3>1
  <2>12. Printable(w)
    BY <2>8, <2>10, <2>11 DEF Printable, Clean, RestIsBlank
  <2> QED BY <2>8, <2>12, PrintableWithout
<1>5. CASE \E s \in Outputs : w = PrintString(n, s)
  <2>1. PICK s \in Outputs : w = PrintString(n, s)
    BY <1>5
  <2>2. s \in Seq({"out", "newline"}) /\ (s = << >> \/ s[Len(s)] = "newline")
    BY TerminalAssumption
  <2>3. s \in Seq({"out", "prompt", "newline"})
    <3>1. Len(s) \in Nat /\ s \in [1 .. Len(s) -> {"out", "newline"}]
      BY <2>2
    <3>2. s \in [1 .. Len(s) -> {"out", "prompt", "newline"}]
      BY <3>1
    <3> QED BY <3>1, <3>2
  <2>4. CursorShown(w) /\ Printable(DrawCursor(w, FALSE)) /\ w.cursor.x = 0
    BY ONLY <1>1, n.cursor.x = 0, <2>1, <2>2, <2>3, PrintStringFacts, Zenon
  <2> QED BY <2>4 DEF CursorShown
<1> QED BY <1>2, <1>3, <1>4, <1>5

----------------------------------------------------------------------------
(* The keys.                                                               *)

\* What the invariant says of the window with the cursor taken away.
LEMMA PlainFacts ==
  ASSUME TerminalInv
  PROVE  /\ window \in Windows /\ Plain \in Windows /\ Plain.cursor = window.cursor
         /\ Clean(Plain) /\ RestIsBlank(Plain)
         /\ Cursor(window) \in Cells /\ Plain.cell[Cursor(window)] = "blank"
         /\ Cursor(Plain) = Cursor(window)
         /\ Cursor(window)[1] = window.cursor.x /\ Cursor(window)[2] = window.cursor.y
         /\ window.cursor.x \in 0 .. Columns /\ window.cursor.y \in 0 .. Rows - 1
         /\ \A c \in Cells : c # Cursor(window) => Plain.cell[c] = window.cell[c]
         /\ \A c \in Plain.dirty : c \in window.dirty \/ c = Cursor(window)
         /\ linebuf \in Seq(Chars) /\ Len(linebuf) \in Nat /\ Len(linebuf) < Columns
<1>1. window \in Windows /\ Clean(Plain) /\ RestIsBlank(Plain)
  BY DEF TerminalInv, CursorShown, Plain
<1>2. /\ Plain \in Windows /\ Plain.cursor = window.cursor
      /\ Cursor(window) \in Cells /\ Plain.cell[Cursor(window)] = "blank"
      /\ \A c \in Cells : c # Cursor(window) => Plain.cell[c] = window.cell[c]
      /\ \A c \in Plain.dirty : c \in window.dirty \/ c = Cursor(window)
  BY <1>1, CursorTaken DEF Plain
<1>3. Cursor(Plain) = Cursor(window)
  BY <1>2 DEF Cursor
<1>4. /\ Cursor(window)[1] = window.cursor.x /\ Cursor(window)[2] = window.cursor.y
      /\ window.cursor.x \in 0 .. Columns /\ window.cursor.y \in 0 .. Rows - 1
  BY <1>1, CursorIsCell
<1>5. linebuf \in Seq(Chars) /\ Len(linebuf) < Columns
  BY DEF TerminalInv, Lines
<1>6. Len(linebuf) \in Nat
  BY <1>5
<1> QED
  BY <1>1, <1>2, <1>3, <1>4, <1>5, <1>6

LEMMA EnterKeeps == TerminalInv /\ Enter => TerminalInv'
<1> SUFFICES ASSUME TerminalInv, Enter PROVE TerminalInv'
  OBVIOUS
<1> DEFINE n == Newline(Plain)
<1>1. Printable(n) /\ n.cursor.x = 0
  BY PlainFacts, NewlineFacts
<1>2. PICK w \in ExecuteLine(n) : window' = Drawn(PrintString(w, <<"prompt">>), Text)
  BY DEF Enter
<1> HIDE DEF n
<1>3. w \in Windows /\ w.cursor.x = 0 /\ Printable(DrawCursor(w, FALSE))
  BY <1>1, CommandLeaves
<1>4. /\ CursorShown(window') /\ window'.cursor.x = 1
      /\ window'.cell[<<0, window'.cursor.y>>] = "prompt"
      /\ \A c \in window'.dirty : c[1] = Columns
  BY ONLY <1>2, <1>3, PromptPrinted, Zenon
<1>5. linebuf' = << >> /\ Len(linebuf') = 0 /\ linebuf' \in Lines
  BY DEF Enter, Lines
<1>6. historyIndex' \in -1 .. HistorySize - 1 /\ erased' = FALSE
  BY DEF Enter
<1>7. history' \in [1 .. HistorySize -> Lines]
  <2>1. history \in [1 .. HistorySize -> Lines] /\ linebuf \in Lines
    BY DEF TerminalInv
  <2>2. history' = history \/ history' = <<linebuf>> \o SubSeq(history, 1, HistorySize - 1)
    BY DEF Enter
  <2>3. HistorySize \in Nat /\ HistorySize >= 1
    OBVIOUS
  <2>4. history \in Seq(Lines) /\ Len(history) = HistorySize
    BY <2>1, <2>3
  <2> DEFINE rest == SubSeq(history, 1, HistorySize - 1)
  <2>5. rest \in Seq(Lines) /\ Len(rest) = HistorySize - 1
    BY <2>3, <2>4
  <2> HIDE DEF rest
  <2>6. <<linebuf>> \o rest \in Seq(Lines) /\ Len(<<linebuf>> \o rest) = HistorySize
    BY <2>1, <2>3, <2>5
  <2>7. <<linebuf>> \o rest \in [1 .. HistorySize -> Lines]
    <3> DEFINE q == <<linebuf>> \o rest
    <3> HIDE DEF q
    <3> SUFFICES q \in [1 .. HistorySize -> Lines]
      BY DEF q
    <3>1. q \in Seq(Lines) /\ Len(q) = HistorySize
      BY <2>6 DEF q
    <3> QED BY ONLY <3>1
  <2> QED BY <2>1, <2>2, <2>7 DEF rest
<1>8. LineAtCursor' /\ LineIsShown'
  BY <1>4, <1>5 DEF LineAtCursor, LineIsShown
<1> QED
  BY <1>4, <1>5, <1>6, <1>7, <1>8 DEF TerminalInv, EchoComplete

LEMMA BackspaceKeeps == TerminalInv /\ Backspace => TerminalInv'
<1> SUFFICES ASSUME TerminalInv, Backspace PROVE TerminalInv'
  OBVIOUS
<1> DEFINE x == window.cursor.x
           y == window.cursor.y
           n == x - 1
           back == [Plain EXCEPT !.cursor.x = n]
           at == Cursor(back)
           full == Fill(back, {at}, "blank")
           shown == DrawCursor(full, TRUE)
<1>1. x \in 1 .. Columns /\ n \in 0 .. Columns /\ n \in Nat /\ n = x - 1 /\ x = n + 1
  BY SMTT(40), PlainFacts DEF Backspace
<1>2. window' = Drawn(shown, {at, <<at[1] + 1, at[2]>>})
  BY PlainFacts DEF Backspace
<1> HIDE DEF n
<1>a. back = [Plain EXCEPT !.cursor.x = n]
  OBVIOUS
<1> HIDE DEF back
<1>3. /\ back \in Windows /\ back.cell = Plain.cell /\ back.dirty = Plain.dirty
      /\ back.cursor.x = n /\ back.cursor.y = y
  <2>1. Plain \in Windows /\ Plain.cursor = window.cursor
    BY PlainFacts
  <2>2. /\ back \in Windows /\ back.cell = Plain.cell /\ back.dirty = Plain.dirty
        /\ back.cursor.x = n /\ back.cursor.y = Plain.cursor.y
    <3>1. n \in 0 .. Columns
      BY <1>1
    <3> DEFINE p == Plain
    <3>2. p \in Windows /\ back = [p EXCEPT !.cursor.x = n]
      BY <1>a, <2>1
    <3> HIDE DEF p
    <3>3. /\ back \in Windows /\ back.cell = p.cell /\ back.dirty = p.dirty
          /\ back.cursor.x = n /\ back.cursor.y = p.cursor.y
      BY SMTT(40), <3>1, <3>2, MovedCursor
    <3> QED BY <3>3 DEF p
  <2> QED BY <2>1, <2>2
<1>4. at \in Cells /\ at = <<n, y>> /\ at[1] = n /\ at[2] = y
  BY <1>3, CursorIsCell DEF Cursor
<1> HIDE DEF at
<1>5. /\ full \in Windows /\ full.cursor = back.cursor
      /\ full.cell[at] = "blank"
      /\ \A c \in Cells : c # at => full.cell[c] = Plain.cell[c]
      /\ \A c \in full.dirty : c \in Plain.dirty \/ c = at
  <2>1. "blank" \in Contents /\ \A c : c \in {at} <=> c = at
    BY DEF Contents, Marks
  <2> QED BY <1>3, <1>4, <2>1, FillFacts
<1> HIDE DEF full
<1>6. Clean(full) /\ RestIsBlank(full)
  <2>1. \A c \in Cells : full.cell[c] = Plain.cell[c] \/ full.cell[c] = "blank"
    BY <1>5
  <2>2. Clean(full)
    BY <1>3, <1>5, <2>1, PlainFacts DEF Clean
  <2>3. ASSUME NEW c \in Cells, c[2] = y, c[1] >= n PROVE full.cell[c] = "blank"
    <3>1. c[1] \in 0 .. Columns /\ c = <<c[1], c[2]>>
      BY CellParts
    <3>2. CASE c[1] = n
      BY <1>4, <1>5, <2>3, <3>1, <3>2
    <3>3. CASE c[1] # n
      <4>1. c[1] >= x
        BY <1>1, <2>3, <3>1, <3>3
      <4>2. Plain.cell[c] = "blank"
        BY <2>3, <4>1, PlainFacts DEF RestIsBlank
      <4> QED BY <2>1, <4>2
    <3> QED BY <3>2, <3>3
  <2> QED BY <1>3, <1>5, <2>2, <2>3 DEF RestIsBlank
<1>7. Cursor(full) = at
  BY <1>3, <1>4, <1>5 DEF Cursor
<1>8. /\ CursorShown(shown) /\ shown.cursor = back.cursor
      /\ \A c \in Cells : c # at => shown.cell[c] = Plain.cell[c]
      /\ \A c \in shown.dirty : c \in Plain.dirty \/ c = at
  BY ZenonT(40), <1>5, <1>6, <1>7, CursorDrawn
<1> HIDE DEF shown
<1>9. /\ CursorShown(window') /\ window'.cursor = back.cursor /\ window'.cell = shown.cell
      /\ \A c \in window'.dirty : c \in shown.dirty /\ c \notin {at, <<at[1] + 1, at[2]>>}
  BY <1>2, <1>8, DrawnFacts
<1>10. window'.cursor.x = n /\ window'.cursor.y = y
  BY <1>3, <1>9
<1>11. /\ linebuf' = IF linebuf = << >> THEN linebuf ELSE Front(linebuf)
       /\ erased' = (erased \/ x = 1) /\ erased \in BOOLEAN
       /\ history' = history /\ historyIndex' = historyIndex
  BY DEF Backspace, TerminalInv
<1>12. /\ linebuf = << >> => linebuf' = << >> /\ Len(linebuf') = 0 /\ Len(linebuf) = 0
       /\ linebuf # << >> => /\ Len(linebuf) \in Nat \ {0} /\ Len(linebuf') = Len(linebuf) - 1
                             /\ \A i \in 1 .. Len(linebuf) - 1 : linebuf'[i] = linebuf[i]
       /\ linebuf' \in Lines
  <2>1. CASE linebuf = << >>
    BY <1>11, <2>1, PlainFacts DEF Lines
  <2>2. CASE linebuf # << >>
    <3>1. linebuf \in Seq(Chars) /\ Len(linebuf) \in Nat \ {0} /\ Len(linebuf) < Columns
      BY <2>2, PlainFacts
    <3>2. linebuf' = SubSeq(linebuf, 1, Len(linebuf) - 1)
      BY <1>11, <2>2 DEF Front
    <3>a. Len(linebuf) - 1 \in 0 .. Len(linebuf) /\ 1 \in 1 .. Len(linebuf) + 1
      BY <3>1
    <3>3. /\ linebuf' \in Seq(Chars) /\ Len(linebuf') = Len(linebuf) - 1
          /\ \A i \in 1 .. Len(linebuf) - 1 : linebuf'[i] = linebuf[i]
      <4>1. \A i \in 1 .. Len(linebuf) - 1 : linebuf[i] \in Chars
        BY <3>1
      <4>2. /\ SubSeq(linebuf, 1, Len(linebuf) - 1) \in Seq(Chars)
            /\ Len(SubSeq(linebuf, 1, Len(linebuf) - 1)) =
                 IF 1 <= Len(linebuf) - 1 THEN Len(linebuf) - 1 - 1 + 1 ELSE 0
            /\ \A i \in 1 .. Len(linebuf) - 1 - 1 + 1 :
                 SubSeq(linebuf, 1, Len(linebuf) - 1)[i] = linebuf[1 + i - 1]
        BY ONLY <3>1, <3>a, <4>1, SubSeqProperties
      <4>3. Len(linebuf) - 1 - 1 + 1 = Len(linebuf) - 1 /\ \A i \in Int : 1 + i - 1 = i
        BY <3>1
      <4> QED BY <3>1, <3>2, <4>2, <4>3
    <3> QED BY <2>2, <3>1, <3>3 DEF Lines
  <2> QED BY <2>1, <2>2
<1>17. (erased => erased') /\ (x = 1 => erased') /\ (~erased' => ~erased /\ x # 1)
  BY ONLY <1>11, Zenon
<1>13. LineAtCursor'
  <2>1. Len(linebuf) = x - 1 \/ (erased /\ Len(linebuf) = x)
    BY DEF TerminalInv, LineAtCursor
  <2>2. Len(linebuf') = n - 1 \/ Len(linebuf') = n
    BY <1>1, <1>12, <2>1
  <2>3. Len(linebuf') = n => x = 1 \/ Len(linebuf) = x
    BY <1>1, <1>12, <2>1
  <2>4. Len(linebuf) = x => erased
    BY <1>1, <2>1
  <2>5. Len(linebuf') = n - 1 \/ (erased' /\ Len(linebuf') = n)
    BY ONLY <1>17, <2>2, <2>3, <2>4, Zenon
  <2> QED BY <1>10, <2>5 DEF LineAtCursor
<1>14. LineIsShown'
  <2> SUFFICES ASSUME ~erased'
               PROVE  /\ window'.cell[<<0, y>>] = "prompt"
                      /\ \A i \in 1 .. Len(linebuf') : window'.cell[<<i, y>>] = linebuf'[i]
    BY <1>10 DEF LineIsShown
  <2>0. ~erased /\ x # 1
    BY ONLY ~erased', <1>17, Zenon
  <2>1. ~erased /\ x # 1 /\ n > 0
    BY <1>1, <2>0
  <2>2. Len(linebuf) = n /\ linebuf # << >> /\ Len(linebuf') = n - 1
    BY SMTT(40), <1>1, <1>12, <2>1 DEF TerminalInv, LineAtCursor
  <2>3. ASSUME NEW i \in 0 .. n - 1 PROVE window'.cell[<<i, y>>] = window.cell[<<i, y>>]
    <3>1. i \in 0 .. Columns /\ i # n /\ i # x /\ y \in 0 .. Rows - 1
      BY SMTT(40), <1>1, PlainFacts
    <3>2. <<i, y>> \in Cells /\ <<i, y>> # at /\ <<i, y>> # Cursor(window)
      BY <1>4, <3>1 DEF Cells, Cursor
    <3> QED BY <1>8, <1>9, <3>2, PlainFacts
  <2>4. /\ window.cell[<<0, y>>] = "prompt"
        /\ \A i \in 1 .. Len(linebuf) : window.cell[<<i, y>>] = linebuf[i]
    BY <2>1 DEF TerminalInv, LineIsShown
  <2>5. window'.cell[<<0, y>>] = "prompt"
    BY <1>1, <2>1, <2>3, <2>4
  <2>6. ASSUME NEW i \in 1 .. n - 1 PROVE window'.cell[<<i, y>>] = linebuf'[i]
    <3>1. i \in 0 .. n - 1 /\ i \in 1 .. Len(linebuf) /\ linebuf'[i] = linebuf[i]
      BY SMTT(40), <1>1, <1>12, <2>2
    <3> QED BY <2>3, <2>4, <3>1
  <2> QED BY <2>2, <2>5, <2>6
<1>15. EchoComplete'
  <2>1. ASSUME NEW c \in window'.dirty PROVE c[1] = Columns \/ (erased' /\ c[1] = 0)
    <3>1. c \in Plain.dirty /\ c # at /\ c # <<at[1] + 1, at[2]>>
      BY <1>8, <1>9
    <3>2. Cursor(window) = <<at[1] + 1, at[2]>>
      BY <1>1, <1>4 DEF Cursor
    <3>3. c \in window.dirty
      BY <3>1, <3>2, PlainFacts
    <3>4. c[1] = Columns \/ (erased /\ c[1] = 0)
      BY <3>3 DEF TerminalInv, EchoComplete
    <3> QED BY ONLY <1>17, <3>4, Zenon
  <2> QED BY <2>1 DEF EchoComplete
<1>16. erased' \in BOOLEAN /\ history' \in [1 .. HistorySize -> Lines]
       /\ historyIndex' \in -1 .. HistorySize - 1
  BY <1>11 DEF TerminalInv
<1> QED
  BY <1>9, <1>12, <1>13, <1>14, <1>15, <1>16 DEF TerminalInv

LEMMA TypeKeeps == \A char \in Chars : TerminalInv /\ Type(char) => TerminalInv'
<1> SUFFICES ASSUME TerminalInv, NEW char \in Chars, Type(char) PROVE TerminalInv'
  OBVIOUS
<1> DEFINE x == window.cursor.x
           y == window.cursor.y
           n == x + 1
           at == Cursor(window)
           typed == WriteAscii(Plain, at, char)
           next == [typed EXCEPT !.cursor.x = n]
           shown == DrawCursor(next, TRUE)
<1>1. /\ x \in 0 .. Columns /\ n \in 0 .. Columns /\ n \in Nat /\ n = x + 1 /\ x < Columns - 1
      /\ x \in Nat /\ y \in 0 .. Rows - 1
  <2>1. x \in 0 .. Columns /\ y \in 0 .. Rows - 1
    BY PlainFacts
  <2>2. x < Columns - 1
    BY DEF Type
  <2> HIDE DEF x, y
  <2> QED BY <2>1, <2>2
<1>2. /\ Plain \in Windows /\ Plain.cursor = window.cursor /\ Clean(Plain) /\ RestIsBlank(Plain)
      /\ at \in Cells /\ at = <<x, y>> /\ at[1] = x /\ at[2] = y /\ Plain.cell[at] = "blank"
  BY PlainFacts DEF Cursor
<1>3. char \in Contents /\ char # "cursor" /\ char # "overprint"
  BY DEF Contents, Marks
<1>4. window' = Drawn(shown, {at, <<at[1] + 1, at[2]>>})
  <2>1. typed.cursor = window.cursor
    BY <1>2, <1>3, WriteAsciiFacts
  <2> QED BY <2>1 DEF Type
<1>5. /\ typed \in Windows /\ typed.cursor = window.cursor
      /\ typed.cell[at] = char
      /\ \A c \in Cells : c # at => typed.cell[c] = Plain.cell[c]
      /\ \A c \in typed.dirty : c \in Plain.dirty \/ c = at
  <2> HIDE DEF at
  <2>1. /\ WriteAscii(Plain, at, char) \in Windows
        /\ WriteAscii(Plain, at, char).cursor = Plain.cursor
        /\ \A c \in Cells : WriteAscii(Plain, at, char).cell[c] =
                             IF c = at THEN char ELSE Plain.cell[c]
        /\ \A c \in WriteAscii(Plain, at, char).dirty : c \in Plain.dirty \/ c = at
    BY <1>2, <1>3, WriteAsciiFacts
  <2>2. typed = WriteAscii(Plain, at, char)
    OBVIOUS
  <2> HIDE DEF typed
  <2> QED BY ONLY <1>2, <2>1, <2>2
<1> HIDE DEF n, typed
<1>a. next = [typed EXCEPT !.cursor.x = n]
  OBVIOUS
<1> HIDE DEF next
<1>6. /\ next \in Windows /\ next.cell = typed.cell /\ next.dirty = typed.dirty
      /\ next.cursor.x = n /\ next.cursor.y = y
  <2>1. n \in 0 .. Columns
    BY <1>1
  <2>2. /\ next \in Windows /\ next.cell = typed.cell /\ next.dirty = typed.dirty
        /\ next.cursor.x = n /\ next.cursor.y = typed.cursor.y
    <3> HIDE DEF x, y, at
    <3>1. /\ typed \in Windows /\ n \in 0 .. Columns
      BY <1>5, <2>1
    <3>2. next = [typed EXCEPT !.cursor.x = n]
      BY <1>a
    <3>3. /\ [typed EXCEPT !.cursor.x = n] \in Windows
          /\ [typed EXCEPT !.cursor.x = n].cell = typed.cell
          /\ [typed EXCEPT !.cursor.x = n].dirty = typed.dirty
          /\ [typed EXCEPT !.cursor.x = n].cursor.x = n
          /\ [typed EXCEPT !.cursor.x = n].cursor.y = typed.cursor.y
      BY <3>1, MovedCursor
    <3> QED BY ONLY <3>2, <3>3, Zenon
  <2> QED BY <1>5, <2>2
<1>7. Clean(next) /\ RestIsBlank(next)
  <2>1. ASSUME NEW c \in Cells
        PROVE  /\ next.cell[c] # "cursor" /\ next.cell[c] # "overprint"
               /\ c[2] > y \/ c[1] = Columns => next.cell[c] = "blank"
    <3>1. CASE c = at
      <4>1. ~(c[2] > y) /\ c[1] # Columns
        BY <1>1, <1>2, <3>1
      <4> QED BY <1>3, <1>5, <1>6, <3>1, <4>1
    <3>2. CASE c # at
      BY <1>2, <1>5, <1>6, <3>2 DEF Clean
    <3> QED BY <3>1, <3>2
  <2>2. Clean(next)
    BY <1>6, <2>1 DEF Clean
  <2>3. ASSUME NEW c \in Cells, c[2] = y, c[1] >= n PROVE next.cell[c] = "blank"
    <3>1. c[1] \in 0 .. Columns
      BY CellParts
    <3>2. c # at /\ c[1] >= x
      BY <1>1, <1>2, <2>3, <3>1
    <3>3. Plain.cell[c] = "blank"
      BY <1>2, <2>3, <3>2 DEF RestIsBlank
    <3> QED BY <1>5, <1>6, <3>2, <3>3
  <2> QED BY <1>6, <2>2, <2>3 DEF RestIsBlank
<1>8. Cursor(next) = <<at[1] + 1, at[2]>>
  BY <1>1, <1>2, <1>6 DEF Cursor
<1>9. /\ CursorShown(shown) /\ shown.cursor = next.cursor
      /\ \A c \in Cells : c # Cursor(next) => shown.cell[c] = next.cell[c]
      /\ \A c \in shown.dirty : c \in next.dirty \/ c = Cursor(next)
  BY <1>7, CursorDrawn
<1> HIDE DEF shown
<1>10. /\ CursorShown(window') /\ window'.cursor = next.cursor /\ window'.cell = shown.cell
       /\ \A c \in window'.dirty : c \in shown.dirty /\ c \notin {at, <<at[1] + 1, at[2]>>}
  BY <1>4, <1>9, DrawnFacts
<1>11. /\ linebuf' = Append(linebuf, char) /\ history' = history
       /\ historyIndex' = historyIndex /\ erased' = erased
  BY DEF Type
<1>12. Len(linebuf) = x - 1 \/ (erased /\ Len(linebuf) = x)
  BY DEF TerminalInv, LineAtCursor
<1>13. /\ linebuf \in Seq(Chars) /\ Len(linebuf) \in Nat /\ Len(linebuf) <= x
       /\ linebuf' \in Lines /\ Len(linebuf') = Len(linebuf) + 1
       /\ linebuf'[Len(linebuf) + 1] = char
       /\ \A i \in 1 .. Len(linebuf) : linebuf'[i] = linebuf[i]
  <2>1. linebuf \in Seq(Chars) /\ Len(linebuf) \in Nat /\ Len(linebuf) <= x
    BY SMTT(40), <1>1, <1>12, PlainFacts
  <2>2. /\ linebuf' \in Seq(Chars) /\ Len(linebuf') = Len(linebuf) + 1
        /\ linebuf'[Len(linebuf) + 1] = char
        /\ \A i \in 1 .. Len(linebuf) : linebuf'[i] = linebuf[i]
    BY <1>11, <2>1
  <2>3. Len(linebuf') < Columns
    BY SMTT(40), <1>1, <2>1, <2>2
  <2> QED BY <2>1, <2>2, <2>3 DEF Lines
<1>14. LineAtCursor'
  <2>1. window'.cursor.x = n
    BY <1>6, <1>10
  <2>2. Len(linebuf') = n - 1 \/ (erased /\ Len(linebuf') = n)
    BY SMTT(40), <1>1, <1>12, <1>13
  <2> QED BY <1>11, <2>1, <2>2 DEF LineAtCursor
<1>15. LineIsShown'
  <2> SUFFICES ASSUME ~erased'
               PROVE  /\ window'.cell[<<0, y>>] = "prompt"
                      /\ \A i \in 1 .. Len(linebuf') : window'.cell[<<i, y>>] = linebuf'[i]
    BY <1>6, <1>10 DEF LineIsShown
  <2>1. ~erased /\ Len(linebuf) = x - 1 /\ x > 0
    BY SMTT(40), <1>1, <1>11, <1>12, <1>13
  <2>2. /\ window.cell[<<0, y>>] = "prompt"
        /\ \A i \in 1 .. Len(linebuf) : window.cell[<<i, y>>] = linebuf[i]
    BY <2>1 DEF TerminalInv, LineIsShown
  <2>3. ASSUME NEW i \in 0 .. x
        PROVE window'.cell[<<i, y>>] = IF i = x THEN char ELSE window.cell[<<i, y>>]
    <3>1. <<i, y>> \in Cells /\ <<i, y>> # Cursor(next) /\ (<<i, y>> = at <=> i = x)
      <4> HIDE DEF x, y, at
      <4>1. i \in 0 .. Columns /\ i # x + 1
        BY <1>1
      <4> QED BY ONLY <1>1, <1>2, <1>8, <4>1 DEF Cells
    <3>2. window'.cell[<<i, y>>] = typed.cell[<<i, y>>]
      <4> HIDE DEF x, y, at
      <4> QED BY ONLY <1>6, <1>9, <1>10, <3>1
    <3>3. CASE i = x
      <4>1. <<i, y>> = at
        BY ONLY <1>2, <3>1, <3>3
      <4> QED BY ONLY <1>5, <3>2, <3>3, <4>1
    <3>4. CASE i # x
      <4>1. <<i, y>> # at
        BY ONLY <3>1, <3>4
      <4>2. typed.cell[<<i, y>>] = Plain.cell[<<i, y>>]
        BY ONLY <1>5, <3>1, <4>1
      <4>3. <<i, y>> # Cursor(window)
        BY <4>1
      <4>4. Plain.cell[<<i, y>>] = window.cell[<<i, y>>]
        BY <3>1, <4>3, PlainFacts
      <4> QED BY ONLY <3>2, <3>4, <4>2, <4>4
    <3> QED BY ONLY <3>3, <3>4
  <2>4. window'.cell[<<0, y>>] = "prompt"
    <3>1. 0 \in 0 .. x /\ 0 # x
      BY <1>1, <2>1
    <3> QED BY <2>2, <2>3, <3>1
  <2>5. ASSUME NEW i \in 1 .. Len(linebuf') PROVE window'.cell[<<i, y>>] = linebuf'[i]
    <3>1. i \in 0 .. x /\ (i # x => i \in 1 .. Len(linebuf)) /\ x = Len(linebuf) + 1
      <4> HIDE DEF x, y, at
      <4> QED BY ONLY <1>1, <1>13, <2>1, i \in 1 .. Len(linebuf')
    <3>2. CASE i = x
      BY <1>13, <2>3, <3>1, <3>2
    <3>3. CASE i # x
      <4>1. linebuf'[i] = linebuf[i] /\ window.cell[<<i, y>>] = linebuf[i]
        BY <1>13, <2>2, <3>1, <3>3
      <4> QED BY <2>3, <3>1, <3>3, <4>1
    <3> QED BY <3>2, <3>3
  <2> QED BY <2>4, <2>5
<1>16. EchoComplete'
  <2>1. ASSUME NEW c \in window'.dirty PROVE c[1] = Columns \/ (erased' /\ c[1] = 0)
    <3>1. c \in Plain.dirty /\ c # at
      BY <1>5, <1>6, <1>8, <1>9, <1>10
    <3>2. c \in window.dirty
      BY <3>1, PlainFacts
    <3> QED BY <1>11, <3>2 DEF TerminalInv, EchoComplete
  <2> QED BY <2>1 DEF EchoComplete
<1> QED
  BY <1>10, <1>11, <1>13, <1>14, <1>15, <1>16 DEF TerminalInv

LEMMA HistoryKeeps ==
  \A direction \in {-1, 1} : TerminalInv /\ HistoryUpDown(direction) => TerminalInv'
<1> SUFFICES ASSUME TerminalInv, NEW direction \in {-1, 1}, HistoryUpDown(direction)
             PROVE  TerminalInv'
  OBVIOUS
<1> DEFINE y == window.cursor.y
           down == direction = -1 /\ historyIndex >= 0
           up == direction = 1 /\ historyIndex + 1 < HistorySize
           index == IF down \/ up THEN historyIndex + direction ELSE historyIndex
           line == IF index >= 0 THEN history[index + 1] ELSE << >>
           area == {<<i, window.cursor.y>> : i \in 1 .. Columns - 1}
           empty == Fill(Plain, area, "blank")
           recalled == Writing(empty, line)[Len(line)]
           n == Len(line) + 1
           next == [recalled EXCEPT !.cursor.x = n]
           shown == DrawCursor(next, TRUE)
<1>1. /\ history \in [1 .. HistorySize -> Lines] /\ historyIndex \in -1 .. HistorySize - 1
      /\ erased \in BOOLEAN
  BY DEF TerminalInv
<1>2. index \in -1 .. HistorySize - 1 /\ line \in Lines
  <2>1. index \in -1 .. HistorySize - 1
    BY <1>1
  <2> HIDE DEF index
  <2>2. index >= 0 => index + 1 \in 1 .. HistorySize
    BY <2>1
  <2>3. << >> \in Lines
    BY DEF Lines
  <2> QED BY <1>1, <2>1, <2>2, <2>3
<1>3. /\ historyIndex' = index /\ linebuf' = line /\ history' = history /\ erased' = erased
      /\ window' = Drawn(shown, area)
  BY DEF HistoryUpDown
<1> HIDE DEF line, index
<1>4. n \in 1 .. Columns /\ n \in Nat /\ n = Len(line) + 1 /\ Len(line) \in Nat
  <2>1. Len(line) \in Nat /\ Len(line) < Columns
    BY <1>2 DEF Lines
  <2> QED BY <2>1
<1>5. /\ Plain \in Windows /\ Plain.cursor = window.cursor /\ Clean(Plain)
      /\ Cursor(window) \in Cells /\ y \in 0 .. Rows - 1
  BY PlainFacts
<1>6. \A c \in Cells : c \in area <=> c[2] = y /\ c[1] \in 1 .. Columns - 1
  <2>1. ASSUME NEW c \in Cells PROVE c \in area <=> c[2] = y /\ c[1] \in 1 .. Columns - 1
    <3>1. c = <<c[1], c[2]>>
      BY CellParts
    <3> QED BY <3>1
  <2> QED BY <2>1
<1> HIDE DEF area
<1>7. /\ empty \in Windows /\ empty.cursor = window.cursor
      /\ \A c \in Cells : empty.cell[c] = IF c \in area THEN "blank" ELSE Plain.cell[c]
      /\ \A c \in empty.dirty : c \in Plain.dirty \/ c \in area
  <2>1. "blank" \in Contents
    BY DEF Contents, Marks
  <2> QED BY <1>5, <2>1, FillFacts
<1> HIDE DEF empty
<1>8. /\ recalled \in Windows /\ recalled.cursor = window.cursor
      /\ \A c \in Cells : recalled.cell[c] = IF c[2] = y /\ c[1] \in 1 .. Len(line)
                                             THEN line[c[1]] ELSE empty.cell[c]
      /\ \A c \in recalled.dirty : \/ c \in empty.dirty
                                   \/ c[2] = y /\ c[1] \in 1 .. Columns - 1
  <2>1. \A c \in Cells : c[2] = y /\ c[1] \in 1 .. Columns - 1 => empty.cell[c] = "blank"
    BY <1>6, <1>7
  <2> QED BY <1>2, <1>7, <2>1, WritingFacts
<1> HIDE DEF recalled, n
<1>a. next = [recalled EXCEPT !.cursor.x = n]
  OBVIOUS
<1> HIDE DEF next
<1>9. /\ next \in Windows /\ next.cell = recalled.cell /\ next.dirty = recalled.dirty
      /\ next.cursor.x = n /\ next.cursor.y = y
  <2>1. n \in 0 .. Columns
    BY <1>4
  <2>2. /\ next \in Windows /\ next.cell = recalled.cell /\ next.dirty = recalled.dirty
        /\ next.cursor.x = n /\ next.cursor.y = recalled.cursor.y
    BY <1>8, <1>a, <2>1, MovedCursor
  <2> QED BY <1>8, <2>2
<1>10. \A i \in 1 .. Len(line) : line[i] \in Chars /\ line[i] # "cursor" /\ line[i] # "overprint"
  BY <1>2, <1>4 DEF Lines, Marks
<1>11. Clean(next) /\ RestIsBlank(next)
  <2>1. ASSUME NEW c \in Cells
        PROVE  /\ next.cell[c] # "cursor" /\ next.cell[c] # "overprint"
               /\ c[2] > y \/ c[1] = Columns => next.cell[c] = "blank"
               /\ c[2] = y /\ c[1] >= n => next.cell[c] = "blank"
    <3>1. c[1] \in 0 .. Columns /\ c[2] \in 0 .. Rows - 1
      BY CellParts
    <3>2. CASE c[2] = y /\ c[1] \in 1 .. Len(line)
      <4>1. ~(c[2] > y) /\ c[1] # Columns /\ ~(c[1] >= n)
        BY <1>4, <1>5, <3>1, <3>2
      <4> QED BY <1>8, <1>9, <1>10, <3>2, <4>1
    <3>3. CASE ~(c[2] = y /\ c[1] \in 1 .. Len(line))
      <4>1. next.cell[c] = empty.cell[c]
        BY <1>8, <1>9, <3>3
      <4>2. empty.cell[c] = "blank" \/ empty.cell[c] = Plain.cell[c]
        BY <1>7
      <4>3. /\ Plain.cell[c] # "cursor" /\ Plain.cell[c] # "overprint"
            /\ c[2] > y \/ c[1] = Columns => Plain.cell[c] = "blank"
        BY <1>5 DEF Clean
      <4>4. c[2] = y /\ c[1] >= n => c[1] = Columns \/ c \in area
        BY <1>4, <1>6, <3>1
      <4> QED BY <1>7, <4>1, <4>2, <4>3, <4>4
    <3> QED BY <3>2, <3>3
  <2> QED BY <1>9, <2>1 DEF Clean, RestIsBlank
<1>12. Cursor(next) = <<n, y>>
  BY <1>9 DEF Cursor
<1>13. /\ CursorShown(shown) /\ shown.cursor = next.cursor
       /\ \A c \in Cells : c # Cursor(next) => shown.cell[c] = next.cell[c]
       /\ \A c \in shown.dirty : c \in next.dirty \/ c = Cursor(next)
  BY <1>11, CursorDrawn
<1> HIDE DEF shown
<1>14. /\ CursorShown(window') /\ window'.cursor = next.cursor /\ window'.cell = shown.cell
       /\ \A c \in window'.dirty : c \in shown.dirty /\ c \notin area /\ c \in Cells
  BY <1>3, <1>13, DrawnFacts
<1>15. window'.cursor.x = n /\ window'.cursor.y = y
  BY <1>9, <1>14
<1>16. LineAtCursor'
  BY <1>3, <1>4, <1>15 DEF LineAtCursor
<1>17. ~erased => window.cursor.x \in 1 .. Columns
  <2>1. ~erased => Len(linebuf) = window.cursor.x - 1
    BY DEF TerminalInv, LineAtCursor
  <2> QED BY <2>1, PlainFacts
<1>18. LineIsShown'
  <2> SUFFICES ASSUME ~erased'
               PROVE  /\ window'.cell[<<0, y>>] = "prompt"
                      /\ \A i \in 1 .. Len(line) : window'.cell[<<i, y>>] = line[i]
    BY <1>3, <1>15 DEF LineIsShown
  <2>1. window.cell[<<0, y>>] = "prompt" /\ window.cursor.x \in 1 .. Columns
    BY <1>3, <1>17 DEF TerminalInv, LineIsShown
  <2>2. window'.cell[<<0, y>>] = "prompt"
    <3> DEFINE c == <<0, y>>
    <3>1. c \in Cells /\ c # Cursor(next) /\ c # Cursor(window) /\ c \notin area
          /\ c[1] = 0
      BY <1>4, <1>5, <1>6, <1>12, <2>1 DEF Cells, Cursor
    <3> HIDE DEF c
    <3>2. window'.cell[c] = window.cell[c]
      BY <1>4, <1>7, <1>8, <1>9, <1>13, <1>14, <3>1, PlainFacts
    <3> QED BY <2>1, <3>2 DEF c
  <2>3. ASSUME NEW i \in 1 .. Len(line) PROVE window'.cell[<<i, y>>] = line[i]
    <3> DEFINE c == <<i, y>>
    <3>1. c \in Cells /\ c # Cursor(next) /\ c[1] = i /\ c[2] = y
      BY <1>4, <1>5, <1>12 DEF Cells
    <3> HIDE DEF c
    <3>2. window'.cell[c] = line[i]
      BY <1>8, <1>9, <1>13, <1>14, <3>1
    <3> QED BY <3>2 DEF c
  <2> QED BY <2>2, <2>3
<1>19. EchoComplete'
  <2>1. ASSUME NEW c \in window'.dirty PROVE c[1] = Columns \/ (erased /\ c[1] = 0)
    <3>1. c \in Cells /\ c \notin area /\ c \in shown.dirty
      BY <1>14
    <3>2. c[1] \in 0 .. Columns /\ ~(c[2] = y /\ c[1] \in 1 .. Columns - 1)
      BY <1>6, <3>1, CellParts
    <3>3. CASE c = Cursor(next)
      BY <1>4, <1>5, <1>12, <3>2, <3>3
    <3>4. CASE c # Cursor(next)
      <4>1. c \in Plain.dirty
        BY <1>7, <1>8, <1>9, <1>13, <3>1, <3>2, <3>4
      <4>2. CASE c = Cursor(window)
        <5>1. c[1] = window.cursor.x /\ c[2] = y
          BY <4>2, PlainFacts
        <5> QED BY <1>17, <3>2, <5>1
      <4>3. CASE c \in window.dirty
        BY <4>3 DEF TerminalInv, EchoComplete
      <4> QED BY <4>1, <4>2, <4>3, PlainFacts
    <3> QED BY <3>3, <3>4
  <2> QED BY <1>3, <2>1 DEF EchoComplete
<1> QED
  BY <1>1, <1>2, <1>3, <1>14, <1>16, <1>18, <1>19 DEF TerminalInv

LEMMA TerminalUnchanged == TerminalInv /\ UNCHANGED terminalVars => TerminalInv'
<1> SUFFICES ASSUME TerminalInv, UNCHANGED terminalVars PROVE TerminalInv'
  OBVIOUS
<1>1. /\ window' = window /\ linebuf' = linebuf /\ history' = history
      /\ historyIndex' = historyIndex /\ erased' = erased
  BY DEF terminalVars
<1>2. CursorShown(window) => CursorShown(window')
  BY <1>1
<1>3. (LineAtCursor => LineAtCursor') /\ (EchoComplete => EchoComplete')
  BY <1>1 DEF LineAtCursor, EchoComplete
<1>4. LineIsShown => LineIsShown'
  BY <1>1 DEF LineIsShown
<1> QED
  BY <1>1, <1>2, <1>3, <1>4 DEF TerminalInv

LEMMA TerminalInvAlways == TerminalSpec => []TerminalInv
<1>1. TerminalInv /\ [TerminalNext]_terminalVars => TerminalInv'
  BY EnterKeeps, BackspaceKeeps, TypeKeeps, HistoryKeeps, TerminalUnchanged DEF TerminalNext
<1> QED
  BY <1>1, TerminalStartsInv, PTL DEF TerminalSpec

LEMMA TerminalInvImplies == TerminalInv => PromptThenLine
<1> SUFFICES ASSUME TerminalInv PROVE PromptThenLine
  OBVIOUS
<1> DEFINE y == window.cursor.y
           x == window.cursor.x
<1>1. /\ y \in 0 .. Rows - 1 /\ x \in 0 .. Columns
      /\ linebuf \in Seq(Chars) /\ Len(linebuf) \in Nat /\ Len(linebuf) < Columns
  BY PlainFacts
<1>2. Len(linebuf) = x - 1 \/ (erased /\ Len(linebuf) = x)
  BY DEF TerminalInv, LineAtCursor
<1>3. ASSUME NEW c \in Cells
      PROVE  /\ window.cell[c] # "overprint"
             /\ c[2] > y => window.cell[c] = "blank"
             /\ window.cell[c] = "cursor" <=> c = Cursor(window)
  <2>1. Plain.cell[c] # "cursor" /\ Plain.cell[c] # "overprint"
        /\ (c[2] > y => Plain.cell[c] = "blank")
    BY PlainFacts DEF Clean
  <2>2. window.cell[Cursor(window)] = "cursor"
    BY DEF TerminalInv, CursorShown
  <2>3. c[2] > y => c # Cursor(window)
    BY <1>1, PlainFacts
  <2>4. c # Cursor(window) => window.cell[c] = Plain.cell[c]
    BY PlainFacts
  <2> QED BY <2>1, <2>2, <2>3, <2>4
<1>4. ASSUME ~erased PROVE [i \in 0 .. Columns |-> window.cell[<<i, y>>]] = RowOf(linebuf)
  <2>1. /\ Len(linebuf) = x - 1
        /\ window.cell[<<0, y>>] = "prompt"
        /\ \A i \in 1 .. Len(linebuf) : window.cell[<<i, y>>] = linebuf[i]
    BY <1>2, <1>4 DEF TerminalInv, LineIsShown
  <2>2. ASSUME NEW i \in 0 .. Columns PROVE window.cell[<<i, y>>] = RowOf(linebuf)[i]
    <3>1. RowOf(linebuf)[i] = CASE i = 0 -> "prompt"
                                [] i \in 1 .. Len(linebuf) -> linebuf[i]
                                [] i = Len(linebuf) + 1 -> "cursor"
                                [] OTHER -> "blank"
      BY DEF RowOf
    <3>2. CASE i = 0
      BY SMTT(40), <1>1, <2>1, <3>1, <3>2
    <3>3. CASE i \in 1 .. Len(linebuf)
      BY SMTT(40), <1>1, <2>1, <3>1, <3>3
    <3>4. CASE i = x
      <4>1. i # 0 /\ ~(i \in 1 .. Len(linebuf)) /\ i = Len(linebuf) + 1
        BY <1>1, <2>1, <3>4
      <4>2. <<i, y>> = Cursor(window)
        BY <3>4 DEF Cursor
      <4> QED BY <3>1, <4>1, <4>2 DEF TerminalInv, CursorShown
    <3>5. CASE i # 0 /\ ~(i \in 1 .. Len(linebuf)) /\ i # x
      <4>1. i # Len(linebuf) + 1 /\ i > x
        BY <1>1, <2>1, <3>5
      <4> DEFINE c == <<i, y>>
      <4>2. c \in Cells /\ c[2] = y /\ c[1] >= x /\ c # Cursor(window)
        BY <1>1, <4>1, <3>5 DEF Cells, Cursor
      <4> HIDE DEF c
      <4>3. window.cell[c] = "blank"
        BY <4>2, PlainFacts DEF RestIsBlank
      <4> QED BY <3>1, <3>5, <4>1, <4>3 DEF c
    <3> QED BY <3>2, <3>3, <3>4, <3>5
  <2>3. RowOf(linebuf) = [i \in 0 .. Columns |-> RowOf(linebuf)[i]]
    BY DEF RowOf
  <2> QED BY <2>2, <2>3
<1>5. Len(linebuf) <= x
  BY <1>1, <1>2
<1> QED
  BY <1>1, <1>3, <1>4, <1>5 DEF PromptThenLine

\* What is seen on the row of the cursor is the prompt and the line that will be
\* executed, and nothing is written over something else, for every size of the window
\* and whatever a command prints in whole lines (terminal.cpp, InputKey and Print).
THEOREM PromptAlwaysThenLine == TerminalSpec => []PromptThenLine
BY TerminalInvAlways, TerminalInvImplies, PTL

\* The areas InputKey asks to be drawn contain all it has changed, but for the column
\* behind the last character and, without the prompt, the first.
THEOREM EchoAlwaysComplete == TerminalSpec => []EchoComplete
<1>1. TerminalInv => EchoComplete
  BY DEF TerminalInv
<1> QED BY <1>1, TerminalInvAlways, PTL
=============================================================================
