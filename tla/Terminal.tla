------------------------------ MODULE Terminal ------------------------------
(***************************************************************************)
(* The line editor of the terminal (src/terminal.cpp): what a key does to  *)
(* the line, the history, the cursor and the cells of the window, and      *)
(* which part of the window InputKey asks the main task to draw.           *)
(*                                                                         *)
(* A cell is where a character fits.  There is one column more than there  *)
(* are characters in a line, which only the cursor can reach.  The main    *)
(* task draws what is asked for when it comes to it, and what it draws are *)
(* the present contents: so a cell counts as drawn when it is asked for.   *)
(***************************************************************************)
EXTENDS Integers, SequencesExt

CONSTANTS
  Rows, Columns,  \* kRows, kColumns
  LineMax,        \* kLineMax
  HistorySize,    \* the size of cmd_history_
  Chars,          \* the characters of a line
  Outputs         \* what a command may print

\* What a cell shows but for the characters of a line: nothing, the prompt, the
\* cursor, or one character over another.
Marks == {"blank", "prompt", "cursor", "overprint"}

\* A command prints whole lines, of characters "out".
ASSUME TerminalAssumption ==
  /\ Rows \in Nat \ {0} /\ Columns \in Nat \ {0, 1} /\ HistorySize \in Nat \ {0}
  /\ LineMax \in Nat /\ LineMax > Columns
  /\ Chars \cap (Marks \cup {"newline"}) = {}
  /\ << >> \in Outputs
  /\ \A s \in Outputs : /\ s \in Seq({"out", "newline"})
                        /\ s # << >> => s[Len(s)] = "newline"

Text == (0 .. Columns - 1) \X (0 .. Rows - 1)    \* the cells of characters
Cells == (0 .. Columns) \X (0 .. Rows - 1)

VARIABLES
  window,        \* [cursor, cell, dirty]; dirty: written and not asked to be drawn
  linebuf,       \* the first linebuf_index_ characters of linebuf_
  history,       \* cmd_history_, the latest line first
  historyIndex,  \* cmd_history_index_
  erased         \* history: backspace has erased the prompt of this line

terminalVars == <<window, linebuf, history, historyIndex, erased>>

----------------------------------------------------------------------------
(* Writing to the window.                                                  *)

Cursor(w) == <<w.cursor.x, w.cursor.y>>

Written(w, cell) ==
  [w EXCEPT !.cell = cell, !.dirty = @ \cup {c \in Cells : cell[c] # w.cell[c]}]

Fill(w, area, char) == Written(w, [c \in Cells |-> IF c \in area THEN char ELSE w.cell[c]])

DrawCursor(w, visible) == Fill(w, {Cursor(w)}, IF visible THEN "cursor" ELSE "blank")

\* WriteAscii sets the pixels of the character and clears none.
WriteAscii(w, at, char) ==
  Fill(w, {at}, IF w.cell[at] = "blank" THEN char ELSE "overprint")

\* The window after each number of turns of the loop of WriteString, from column 1
\* of the row of the cursor.
Writing(w, s) ==
  LET after[i \in 0 .. Len(s)] ==
        IF i = 0 THEN w ELSE WriteAscii(after[i - 1], <<i, w.cursor.y>>, s[i])
  IN after

\* Mutant: the last row is left as it is.
Scroll1Uncleared(w) ==
  Written(w, [c \in Cells |-> IF c \notin Text \/ c[2] = w.cursor.y THEN w.cell[c]
                              ELSE w.cell[<<c[1], c[2] + 1>>]])

\* The rows move up by one, and the row of the cursor is cleared.
Scroll1(w) ==
  Written(w, [c \in Cells |->
                CASE c \notin Text -> w.cell[c]
                  [] c[2] = w.cursor.y -> "blank"
                  [] OTHER -> w.cell[<<c[1], c[2] + 1>>]])

Newline(w) ==
  LET start == [w EXCEPT !.cursor.x = 0]
  IN IF w.cursor.y < Rows - 1 THEN [start EXCEPT !.cursor.y = @ + 1] ELSE Scroll1(start)

PrintChar(w, char) ==
  IF char = "newline" THEN Newline(w)
  ELSE LET written == WriteAscii(w, Cursor(w), char)
       IN IF w.cursor.x = Columns - 1 THEN Newline(written)
          ELSE [written EXCEPT !.cursor.x = @ + 1]

\* The window after each number of turns of the loop of Print.
Printing(w, s) ==
  LET after[i \in 0 .. Len(s)] == IF i = 0 THEN w ELSE PrintChar(after[i - 1], s[i])
  IN after

PrintString(w, s) == DrawCursor(Printing(DrawCursor(w, FALSE), s)[Len(s)], TRUE)

Drawn(w, area) == [w EXCEPT !.dirty = @ \ area]

----------------------------------------------------------------------------
(* InputKey.  Every key begins with the cursor being taken away.           *)

EmptyWindow ==
  [cursor |-> [x |-> 0, y |-> 0], cell |-> [c \in Cells |-> "blank"], dirty |-> {}]

TerminalInit ==
  /\ window = Drawn(PrintString(EmptyWindow, <<"prompt">>), Text)
  /\ linebuf = << >>
  /\ history = [i \in 1 .. HistorySize |-> << >>] /\ historyIndex = -1
  /\ erased = FALSE

Plain == DrawCursor(window, FALSE)

\* clear: the text goes, and the cursor, which is at the start of a line, to the
\* first row.
Clear(w) == [Fill(w, Text, "blank") EXCEPT !.cursor.y = 0]

\* ExecuteLine: an empty line does nothing; of a command it is only told what
\* it does to the window, which is to clear it or to print whole lines.
ExecuteLine(w) ==
  IF linebuf = << >> THEN {w}
  ELSE {Clear(w)} \cup {PrintString(w, s) : s \in Outputs}

Enter ==
  /\ \E w \in ExecuteLine(Newline(Plain)) :
       window' = Drawn(PrintString(w, <<"prompt">>), Text)
  /\ history' = IF linebuf = << >> THEN history
                ELSE <<linebuf>> \o SubSeq(history, 1, HistorySize - 1)
  /\ historyIndex' = -1
  /\ linebuf' = << >>
  /\ erased' = FALSE

\* Mutant: the area is the one of the cursor before it moves.
BackspaceBehind ==
  /\ window.cursor.x > 0
  /\ LET w == [Plain EXCEPT !.cursor.x = @ - 1]
         at == Cursor(window)
     IN window' = Drawn(DrawCursor(Fill(w, {Cursor(w)}, "blank"), TRUE), {at, <<at[1] + 1, at[2]>>})
  /\ linebuf' = IF linebuf = << >> THEN linebuf ELSE Front(linebuf)
  /\ erased' = (erased \/ window.cursor.x = 1)
  /\ UNCHANGED <<history, historyIndex>>

\* The column is looked at, and not the line: the prompt can be erased.
Backspace ==
  /\ window.cursor.x > 0
  /\ LET w == [Plain EXCEPT !.cursor.x = @ - 1]
         at == Cursor(w)
     IN window' = Drawn(DrawCursor(Fill(w, {at}, "blank"), TRUE), {at, <<at[1] + 1, at[2]>>})
  /\ linebuf' = IF linebuf = << >> THEN linebuf ELSE Front(linebuf)
  /\ erased' = (erased \/ window.cursor.x = 1)
  /\ UNCHANGED <<history, historyIndex>>

Type(char) ==
  /\ window.cursor.x < Columns - 1 /\ Len(linebuf) < LineMax - 1
  /\ LET at == Cursor(window)
         w == WriteAscii(Plain, at, char)
     IN window' = Drawn(DrawCursor([w EXCEPT !.cursor.x = @ + 1], TRUE),
                        {at, <<at[1] + 1, at[2]>>})
  /\ linebuf' = Append(linebuf, char)
  /\ UNCHANGED <<history, historyIndex, erased>>

\* The line behind the prompt is replaced, from column 1 on.
HistoryUpDown(direction) ==
  LET down == direction = -1 /\ historyIndex >= 0
      up == direction = 1 /\ historyIndex + 1 < HistorySize
      index == IF down \/ up THEN historyIndex + direction ELSE historyIndex
      line == IF index >= 0 THEN history[index + 1] ELSE << >>
      area == {<<x, window.cursor.y>> : x \in 1 .. Columns - 1}
      recalled == Writing(Fill(Plain, area, "blank"), line)[Len(line)]
  IN /\ historyIndex' = index
     /\ linebuf' = line
     /\ window' = Drawn(DrawCursor([recalled EXCEPT !.cursor.x = Len(line) + 1], TRUE), area)
     /\ UNCHANGED <<history, erased>>

TerminalNext ==
  \/ Enter
  \/ Backspace
  \/ \E char \in Chars : Type(char)
  \/ \E direction \in {-1, 1} : HistoryUpDown(direction)

TerminalSpec == TerminalInit /\ [][TerminalNext]_terminalVars

----------------------------------------------------------------------------
(* Properties.                                                             *)

\* The row of the cursor: the prompt, the line, the cursor, and nothing more.
RowOf(line) ==
  [x \in 0 .. Columns |-> CASE x = 0 -> "prompt"
                            [] x \in 1 .. Len(line) -> line[x]
                            [] x = Len(line) + 1 -> "cursor"
                            [] OTHER -> "blank"]

\* What is seen is what will be executed: as long as the prompt is there, the row
\* of the cursor is the prompt and the line, whatever has been typed, erased,
\* recalled, printed and scrolled.  Nothing is ever written over something else
\* or in the rows below, and even without the prompt the cursor stays at most one
\* column outside and the line within its buffer.
PromptThenLine ==
  LET y == window.cursor.y
  IN /\ y \in 0 .. Rows - 1 /\ window.cursor.x \in 0 .. Columns /\ Len(linebuf) <= window.cursor.x
     /\ ~erased => [x \in 0 .. Columns |-> window.cell[<<x, y>>]] = RowOf(linebuf)
     /\ \A c \in Cells : /\ window.cell[c] # "overprint"
                         /\ c[2] > y => window.cell[c] = "blank"
                         /\ window.cell[c] = "cursor" <=> c = Cursor(window)

\* The areas InputKey returns contain all it has changed.  Without the prompt two
\* cells may be missing: HistoryUpDown leaves column 0, where the cursor was, and
\* the column behind the last character, to which it can move the cursor.
EchoComplete ==
  \A c \in window.dirty : c[1] = Columns \/ (erased /\ c[1] = 0)

============================================================================
