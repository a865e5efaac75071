------------------------------- MODULE Layers -------------------------------
(***************************************************************************)
(* The layers of the screen: the stack of windows, the drawing of parts of *)
(* it through the back buffer (src/layer.cpp, src/window.cpp,              *)
(* src/frame_buffer.cpp), the active layer, and the mouse that activates   *)
(* and drags layers (src/mouse.cpp).                                       *)
(*                                                                         *)
(* The main task draws with interrupts enabled: between any two layers of  *)
(* a Draw, and between the calls of Move, UpDown and Activate, the handler *)
(* of the AHCI controller may log, and what it logs is drawn at once on    *)
(* the console and in what is above it.  It also comes into the drawing of *)
(* the AHCI task's own log, as does the main task, which is of a higher    *)
(* level, and the start of the terminal, with interrupts disabled.         *)
(*                                                                         *)
(* The screen is one row of cells and a rectangle is a set of cells: what  *)
(* & of rectangles and the clipping of FrameBuffer::Copy do is             *)
(* intersection.                                                           *)
(***************************************************************************)
EXTENDS Integers, FiniteSetsExt, SequencesExt

CONSTANTS
  ScreenWidth,  \* cells of the screen
  Width,        \* cells of each window
  Start,        \* where each layer is at first
  MaxMoves,     \* bound: interrupts of the mouse
  MaxKeys,      \* bound: keys and echoes on the way to and from the terminal at a time
  MaxLogs       \* bound: lines the AHCI task logs

Background == "background"
ConsoleLayer == "console"
MainWindow == "main"
TextWindow == "text"
TerminalWindow == "terminal"
Mouse == "mouse"
NoLayer == "none"     \* layer id 0

Draggable == {MainWindow, TextWindow, TerminalWindow}
Layer == Draggable \cup {Background, ConsoleLayer, Mouse}
ScreenCells == 0 .. ScreenWidth - 1

ASSUME LayersAssumption ==
  /\ ScreenWidth \in Nat \ {0} /\ MaxMoves \in Nat /\ MaxKeys \in Nat /\ MaxLogs \in Nat
  /\ Width \in [Layer -> Nat \ {0}] /\ Start \in [Layer -> ScreenCells]
  /\ Start[Background] = 0 /\ Width[Background] = ScreenWidth

\* desk is the state of the layer manager, the windows and the buffers:
\*   stack     layer_stack_, the lowest layer first
\*   pos       pos_ of each layer
\*   lit       whether the title bar of a window is the one of the active window
\*   back, screen  the buffers: what was painted in each cell, and if the window
\*             still has these contents
\*   active    active_layer_
VARIABLES
  desk,
  stage,          \* where the main task, or the start of the terminal, is; "wait": nowhere
  job,            \* what its Move and Activate work on, and what follows them
  draw,           \* the loop of its present Draw; next = 0: it does not draw
  drag, pressed,  \* drag_layer_id_ and previous_buttons_ of the mouse
  started,        \* the window of the terminal has been put in the stack
  keys, asked,    \* keys sent to the terminal, DrawArea messages it has sent
  log,            \* the loop of Draw in the AHCI task; next = 0: it does not draw
  moves, logs,
  raced,          \* history: the stack has changed while the AHCI task drew
  mouseSeen       \* history: the mouse has moved, and was drawn

tasks == <<stage, job, draw>>
counts == <<started, keys, asked, moves, logs, mouseSeen>>
vars == <<desk, tasks, drag, pressed, log, raced, counts>>

----------------------------------------------------------------------------
(* Windows and buffers.                                                    *)

Area(d, id) == d.pos[id] .. d.pos[id] + Width[id] - 1

\* What a window shows at an offset: a toplevel window has its title at 0, and
\* elsewhere there are its contents.  A cell that was painted with contents the
\* window no longer has is "old".
Look(d, id, offset) ==
  IF id \in Draggable /\ offset = 0 THEN <<id, IF d.lit[id] THEN "lit" ELSE "dark">>
  ELSE <<id, "new">>

\* The cells that drawing a layer within an area writes.  The window of the mouse
\* is transparent but for its first cell, and such a window ignores the area.
PaintedCells(d, id, area) ==
  ScreenCells \cap (IF id = Mouse THEN {d.pos[Mouse]} ELSE Area(d, id) \cap area)

\* The back buffer after the layers of the sequence s are drawn, one over the other.
Painted(d, s, area) ==
  [c \in ScreenCells |->
     LET over == {i \in DOMAIN s : c \in PaintedCells(d, s[i], area)}
     IN IF over = {} THEN d.back[c]
                     ELSE Look(d, s[Max(over)], c - d.pos[s[Max(over)]])]

Shown(d, area) ==
  [d EXCEPT !.screen = [c \in ScreenCells |-> IF c \in area THEN d.back[c] ELSE @[c]]]

DrawSeq(d, s, area) == [d EXCEPT !.back = Painted(d, s, area)]

Aged(buffer, id) ==
  [c \in ScreenCells |-> IF buffer[c] = <<id, "new">> THEN <<id, "old">> ELSE buffer[c]]

\* A window has got new contents.
Rewritten(d, id) == [d EXCEPT !.back = Aged(@, id), !.screen = Aged(@, id)]

----------------------------------------------------------------------------
(* LayerManager.                                                           *)

Shows(d, id) == Contains(d.stack, id)

Index(d, id) == CHOOSE i \in DOMAIN d.stack : d.stack[i] = id

GetHeight(d, id) == IF Shows(d, id) THEN Index(d, id) - 1 ELSE -1

Whole(id) == 0 .. Width[id] - 1

\* The two functions Draw: the layers from one of the stack upwards are drawn in the
\* back buffer, and an area of it is copied to the screen.  If the layer to draw is
\* not in the stack, window_area is not initialised: any rectangle, junk, is copied.
NoDraw == [from |-> 0, next |-> 0, area |-> {}]

DrawScreenArea(area) == [from |-> 1, next |-> 1, area |-> area]

DrawLayer(d, id, rel, junk) ==
  LET first == IF Shows(d, id) THEN Index(d, id) ELSE Len(d.stack) + 1
  IN [from |-> first, next |-> first,
      area |-> IF Shows(d, id) THEN Area(d, id) \cap {d.pos[id] + o : o \in rel} ELSE junk]

\* All of such a drawing, where nothing comes in between.
DrawnAtOnce(d, from, area) ==
  Shown(DrawSeq(d, SubSeq(d.stack, from, Len(d.stack)), area), area)

\* Where in the stack, after it has been erased there, UpDown inserts a layer: the
\* iterator to new_pos is computed before, and stands for the same index after it.
\* No height is negative, and UpDown never hides a layer, as the mouse is shown.
NewPosition(d, id, height) ==
  LET h == Min({height, Len(d.stack)})
  IN IF Shows(d, id) /\ h = Len(d.stack) THEN h ELSE h + 1

\* The highest layer, other than exclude, whose window has the cell.
FindLayerByPosition(d, cell, exclude) ==
  LET hit == {i \in DOMAIN d.stack : d.stack[i] # exclude /\ cell \in Area(d, d.stack[i])}
  IN IF hit = {} THEN NoLayer ELSE d.stack[Max(hit)]

----------------------------------------------------------------------------
(* The start.                                                              *)

\* InitializeLayer, with the buffers as the first drawing of the screen leaves them.
InitializeLayer ==
  LET background == [c \in ScreenCells |-> <<Background, "new">>]
  IN [stack |-> <<Background, ConsoleLayer>>,
      pos |-> [Start EXCEPT ![TerminalWindow] = 0, ![Mouse] = 0],
      lit |-> [id \in Draggable |-> FALSE], active |-> NoLayer,
      back |-> background, screen |-> background]

\* InitializeMainWindow and InitializeTextWindow, and the drawing of the screen.
InitializeWindows(d) ==
  DrawnAtOnce([d EXCEPT !.stack = @ \o <<MainWindow, TextWindow>>], 1, ScreenCells)

\* The mouse is moved to its place and then put on top.  It is not drawn: when it
\* was moved it was not yet in the stack.
InitializeMouse(d) ==
  LET moved == DrawnAtOnce([d EXCEPT !.pos[Mouse] = Start[Mouse]], 1, Area(d, Mouse))
  IN [moved EXCEPT !.stack = InsertAt(@, NewPosition(moved, Mouse, Len(@)), Mouse)]

NoJob == [id |-> NoLayer, then |-> "top", to |-> NoLayer, by |-> 0, end |-> "top"]
NoLog == [next |-> 0, end |-> 0, found |-> FALSE]

\* No interrupt of the AHCI controller comes before the AHCI task has set it up,
\* which waits for the main task to come to its loop.
Init ==
  /\ desk = InitializeMouse(InitializeWindows(InitializeLayer))
  /\ stage = "top" /\ job = NoJob /\ draw = NoDraw
  /\ drag = NoLayer /\ pressed = FALSE
  /\ started = FALSE /\ keys = 0 /\ asked = 0
  /\ log = NoLog /\ moves = 0 /\ logs = 0
  /\ raced = FALSE /\ mouseSeen = FALSE

----------------------------------------------------------------------------
(* The loop of Draw in the main task and the start of the terminal, and    *)
(* what they call that draws.                                              *)

\* They have come to a label, and the Draw before it has returned.
IsAt(label) == stage = label /\ draw = NoDraw

\* One layer of the loop.
DrawsOne ==
  /\ draw.next \in 1 .. Len(desk.stack)
  /\ desk' = DrawSeq(desk, <<desk.stack[draw.next]>>, draw.area)
  /\ draw' = [draw EXCEPT !.next = @ + 1]
  /\ UNCHANGED <<stage, job, drag, pressed, log, raced, counts>>

CopiesArea ==
  /\ draw.next = Len(desk.stack) + 1
  /\ desk' = Shown(desk, draw.area)
  /\ draw' = NoDraw
  /\ UNCHANGED <<stage, job, drag, pressed, log, raced, counts>>

\* Mutant: the place is read after the layer has been moved.
OldAreaLate(d, id, new) == Area([d EXCEPT !.pos[id] = new], id)

\* What Move draws first.
OldArea(d, id, new) == Area(d, id)

\* LayerManager::Move and MoveRelative: the layer is moved, where it was is drawn ...
BeginMove(id, new) ==
  /\ desk' = [desk EXCEPT !.pos[id] = new]
  /\ draw' = DrawScreenArea(OldArea(desk, id, new))
  /\ stage' = "moved"

Junk == {a .. b : a, b \in ScreenCells} \cup {{}}

\* ... and then the layer.
Moved ==
  /\ IsAt("moved")
  /\ \E junk \in IF Shows(desk, job.id) THEN {{}} ELSE Junk :
       draw' = DrawLayer(desk, job.id, Whole(job.id), junk)
  /\ stage' = job.then
  /\ UNCHANGED <<desk, job, drag, pressed, log, raced, counts>>

Drags ==
  /\ IsAt("drag")
  /\ BeginMove(drag, desk.pos[drag] + job.by)
  /\ job' = [job EXCEPT !.id = drag, !.then = job.end]
  /\ UNCHANGED <<drag, pressed, log, raced, counts>>

\* ActiveLayer::Activate: nothing to do, or the active layer is told, ...
Deactivates ==
  /\ IsAt("activate")
  /\ \/ /\ desk.active = job.to
        /\ stage' = job.end
        /\ UNCHANGED <<desk, draw>>
     \/ /\ desk.active # job.to /\ desk.active = NoLayer
        /\ stage' = "raise"
        /\ UNCHANGED <<desk, draw>>
     \/ /\ desk.active # job.to /\ desk.active # NoLayer
        /\ stage' = "raise"
        /\ desk' = [desk EXCEPT !.lit[desk.active] = FALSE]
        /\ draw' = DrawLayer(desk, desk.active, Whole(desk.active), {})
  /\ UNCHANGED <<job, drag, pressed, log, raced, counts>>

\* ... then the new one, ...
Activates ==
  /\ IsAt("raise")
  /\ \/ /\ job.to = NoLayer
        /\ desk' = [desk EXCEPT !.active = NoLayer]
        /\ stage' = job.end
     \/ /\ job.to # NoLayer
        /\ desk' = [desk EXCEPT !.active = job.to, !.lit[job.to] = TRUE]
        /\ stage' = "updown"
  /\ UNCHANGED <<job, draw, drag, pressed, log, raced, counts>>

\* Mutant: to the height of the mouse.
AtMouse(d) == GetHeight(d, Mouse)

BelowMouse(d) == GetHeight(d, Mouse) - 1

\* ... which is put in its place below the mouse by UpDown, erase and insert, ...
Erases ==
  /\ IsAt("updown") /\ Shows(desk, job.to)
  /\ job' = [job EXCEPT !.by = NewPosition(desk, job.to, BelowMouse(desk))]
  /\ desk' = [desk EXCEPT !.stack = RemoveAt(@, Index(desk, job.to))]
  /\ raced' = (raced \/ log.next # 0)
  /\ stage' = "insert"
  /\ UNCHANGED <<draw, drag, pressed, log, counts>>

\* ... and drawn.  The terminal is not in the stack when it is activated first.
Inserts ==
  /\ \/ /\ IsAt("insert")
        /\ desk' = [desk EXCEPT !.stack = InsertAt(@, job.by, job.to)]
     \/ /\ IsAt("updown") /\ ~Shows(desk, job.to)
        /\ desk' = [desk EXCEPT !.stack =
                      InsertAt(@, NewPosition(desk, job.to, BelowMouse(desk)), job.to)]
  /\ draw' = DrawLayer(desk', job.to, Whole(job.to), {})
  /\ started' = (started \/ job.to = TerminalWindow)
  /\ raced' = (raced \/ log.next # 0)
  /\ stage' = job.end
  /\ UNCHANGED <<job, drag, pressed, log, keys, asked, moves, logs, mouseSeen>>

----------------------------------------------------------------------------
(* The tasks.                                                              *)

\* A window is given new contents and drawn.
Updates(id) ==
  /\ desk' = Rewritten(desk, id)
  /\ draw' = DrawLayer(desk, id, Whole(id), {})

\* The main task writes the tick count to its window when it has handled a
\* message, before it waits for the next one.
LoopTop ==
  /\ IsAt("top") \/ IsAt("events")
  /\ Updates(MainWindow)
  /\ stage' = "wait" /\ job' = NoJob
  /\ UNCHANGED <<drag, pressed, log, raced, counts>>

\* TaskTerminal up to its loop, with interrupts disabled until the end.
TerminalStarts ==
  /\ IsAt("wait") /\ ~started
  /\ BeginMove(TerminalWindow, Start[TerminalWindow])
  /\ job' = [id |-> TerminalWindow, then |-> "activate", to |-> TerminalWindow, by |-> 0,
             end |-> "sti"]
  /\ UNCHANGED <<drag, pressed, log, raced, counts>>

TerminalReady ==
  /\ IsAt("sti")
  /\ stage' = "wait" /\ job' = NoJob
  /\ UNCHANGED <<desk, draw, drag, pressed, log, raced, counts>>

\* The terminal changes its window and asks the main task to draw the change.
TerminalTypes ==
  /\ IsAt("wait") /\ keys > 0
  /\ keys' = keys - 1 /\ asked' = asked + 1
  /\ desk' = Rewritten(desk, TerminalWindow)
  /\ UNCHANGED <<tasks, drag, pressed, log, raced, started, moves, logs, mouseSeen>>

\* kLayer: ProcessLayerMessage with DrawArea, the one operation that is sent.
\* Everything but the title may have been asked for.
ProcessLayerMessage ==
  /\ IsAt("wait") /\ asked > 0
  /\ asked' = asked - 1
  /\ draw' = DrawLayer(desk, TerminalWindow, Whole(TerminalWindow) \ {0}, {})
  /\ stage' = "top"
  /\ UNCHANGED <<desk, job, drag, pressed, log, raced, started, keys, moves, logs, mouseSeen>>

\* kTimerTimeout of the cursor of the text window.
MainBlinks ==
  /\ IsAt("wait")
  /\ Updates(TextWindow)
  /\ stage' = "top"
  /\ UNCHANGED <<job, drag, pressed, log, raced, counts>>

\* kKeyPush: to the text window, which may ignore the key but is drawn, ...
MainTakesKey ==
  /\ IsAt("wait") /\ desk.active = TextWindow
  /\ desk' \in {desk, Rewritten(desk, TextWindow)}
  /\ draw' = DrawLayer(desk, TextWindow, Whole(TextWindow), {})
  /\ stage' = "top"
  /\ UNCHANGED <<job, drag, pressed, log, raced, counts>>

\* ... to the task of the active layer, ...
MainSendsKey ==
  /\ IsAt("wait") /\ desk.active = TerminalWindow
  /\ keys + asked < MaxKeys
  /\ keys' = keys + 1
  /\ stage' = "top"
  /\ UNCHANGED <<desk, job, draw, drag, pressed, log, raced, started, asked, moves, logs,
                 mouseSeen>>

\* ... or to nobody, which is printed on the console.
MainPrintsKey ==
  /\ IsAt("wait") /\ desk.active \notin {TextWindow, TerminalWindow}
  /\ Updates(ConsoleLayer)
  /\ stage' = "top"
  /\ UNCHANGED <<job, drag, pressed, log, raced, counts>>

\* kInterruptXHCI: ProcessEvents goes from event to event, and logs those that fail.
MainLogs ==
  /\ IsAt("wait") \/ IsAt("events")
  /\ Updates(ConsoleLayer)
  /\ stage' = "events"
  /\ UNCHANGED <<job, drag, pressed, log, raced, counts>>

\* Mouse::OnInterrupt, which ProcessEvents calls.  Which layer is hit does not depend
\* on what the handler draws, so it is found at once.
OnInterrupt(dx, left) ==
  LET old == desk.pos[Mouse]
      new == Max({0, Min({old + dx, ScreenWidth - 1})})
      hit == FindLayerByPosition(desk, new, Mouse)
      Then(label, to, by) ==
        job' = [id |-> Mouse, then |-> label, to |-> to, by |-> by, end |-> "events"]
  IN /\ IsAt("wait") \/ IsAt("events")
     /\ moves < MaxMoves
     /\ moves' = moves + 1
     /\ mouseSeen' = TRUE /\ pressed' = left
     /\ BeginMove(Mouse, new)
     /\ \/ /\ ~pressed /\ left /\ hit \in Draggable
           /\ drag' = hit
           /\ Then("activate", hit, 0)
        \/ /\ ~pressed /\ left /\ hit \notin Draggable
           /\ drag' = drag
           /\ Then("activate", NoLayer, 0)
        \/ /\ pressed /\ left
           /\ drag' = drag
           /\ IF drag = NoLayer THEN Then("events", NoLayer, 0)
                                ELSE Then("drag", NoLayer, new - old)
        \/ /\ ~left
           /\ drag' = IF pressed THEN NoLayer ELSE drag
           /\ Then("events", NoLayer, 0)
     /\ UNCHANGED <<log, raced, started, keys, asked, logs>>

----------------------------------------------------------------------------
(* The AHCI driver.                                                        *)

\* Log in the AHCI task: Console::PutString writes to the window and begins Draw,
\* which takes the end of the stack for its loop.
LogStarts ==
  /\ IsAt("wait") /\ log.next = 0 /\ logs < MaxLogs
  /\ logs' = logs + 1
  /\ desk' = Rewritten(desk, ConsoleLayer)
  /\ log' = [next |-> 1, end |-> Len(desk.stack), found |-> FALSE]
  /\ raced' = FALSE
  /\ UNCHANGED <<tasks, drag, pressed, started, keys, asked, moves, mouseSeen>>

\* One layer of the loop.
LogDraws ==
  /\ IsAt("wait") /\ log.next \in 1 .. log.end
  /\ LET id == desk.stack[log.next]
         found == log.found \/ id = ConsoleLayer
     IN /\ desk' = IF found THEN DrawSeq(desk, <<id>>, Area(desk, ConsoleLayer)) ELSE desk
        /\ log' = [log EXCEPT !.next = @ + 1, !.found = found]
  /\ UNCHANGED <<tasks, drag, pressed, raced, counts>>

LogCopies ==
  /\ IsAt("wait") /\ log.next = log.end + 1 /\ log.next # 1
  /\ desk' = Shown(desk, Area(desk, ConsoleLayer))
  /\ log' = NoLog
  /\ UNCHANGED <<tasks, drag, pressed, raced, counts>>

\* Mutant: the handler leaves it to the next log to draw what it has written.
HandlerWrites ==
  /\ job.end # "sti"
  /\ desk' = Rewritten(desk, ConsoleLayer)
  /\ UNCHANGED <<tasks, drag, pressed, log, raced, counts>>

\* Log in the handler, wherever interrupts are enabled: it writes to the console and
\* draws it with all that is above it, and nothing comes in between.
HandlerLogs ==
  /\ job.end # "sti"
  /\ desk' = DrawnAtOnce(Rewritten(desk, ConsoleLayer), Index(desk, ConsoleLayer),
                   Area(desk, ConsoleLayer))
  /\ raced' = (raced /\ log.next # 0)
  /\ UNCHANGED <<tasks, drag, pressed, log, counts>>

Next ==
  \/ DrawsOne \/ CopiesArea
  \/ Moved \/ Drags \/ Deactivates \/ Activates \/ Erases \/ Inserts
  \/ LoopTop \/ TerminalStarts \/ TerminalReady \/ TerminalTypes
  \/ ProcessLayerMessage \/ MainBlinks
  \/ MainTakesKey \/ MainSendsKey \/ MainPrintsKey \/ MainLogs
  \/ \E dx \in -1 .. 1, left \in BOOLEAN : OnInterrupt(dx, left)
  \/ LogStarts \/ LogDraws \/ LogCopies \/ HandlerLogs

Spec == Init /\ [][Next]_vars

----------------------------------------------------------------------------
(* Properties.                                                             *)

\* Except in the middle of Activate, the mouse is the highest layer and the background
\* and the console the lowest, no layer is twice in the stack, and the active layer
\* is the next below the mouse.  One layer may come between them, when the terminal,
\* which was not shown before, is activated for the first time (layer.cpp:217).  The
\* title bars tell which layer is active.
ActiveOnTop ==
  stage \notin {"raise", "updown", "insert"} =>
    LET n == Len(desk.stack)
    IN /\ SubSeq(desk.stack, 1, 2) = <<Background, ConsoleLayer>> /\ desk.stack[n] = Mouse
       /\ IsInjective(desk.stack)
       /\ ToSet(desk.stack) = IF started THEN Layer ELSE Layer \ {TerminalWindow}
       /\ desk.active # NoLayer =>
            Index(desk, desk.active) >= IF desk.active = TerminalWindow THEN n - 2 ELSE n - 1
       /\ \A id \in Draggable : desk.lit[id] <=> desk.active = id

\* The cells that the present loop draws and copies, ...
Repainted ==
  {c \in ScreenCells \cap draw.area :
     \E i \in draw.from .. Len(desk.stack) : c \in PaintedCells(desk, desk.stack[i], draw.area)}

\* ... and those of the layer that a call of Draw, which has still to come, will draw.
ToDraw ==
  CASE stage = "moved" /\ Shows(desk, job.id) -> PaintedCells(desk, job.id, ScreenCells)
    [] stage \in {"updown", "insert"} -> PaintedCells(desk, job.to, ScreenCells)
    [] OTHER -> {}

\* Cells that may be out of date: those that are about to be drawn, the mouse's until
\* it is first moved, what the terminal has asked to be drawn, and the console's area
\* while the AHCI task draws it or after the stack has changed under that drawing,
\* which can leave out a layer (layer.cpp:80), until the console is drawn again.
Stale ==
  UNION {Repainted, ToDraw,
         IF mouseSeen THEN {} ELSE {desk.pos[Mouse]},
         IF asked > 0 THEN Area(desk, TerminalWindow) \ {desk.pos[TerminalWindow]} ELSE {},
         IF raced \/ log.next # 0 THEN Area(desk, ConsoleLayer) ELSE {}}

\* Although every change draws only a part of the layers in a part of the screen, and
\* the handler may draw in the middle of any of them, at every moment each cell shows
\* the highest layer that is there, with its present contents.
ScreenShowsLayers ==
  \A c \in ScreenCells \ Stale : desk.screen[c] = Painted(desk, desk.stack, ScreenCells)[c]

============================================================================
