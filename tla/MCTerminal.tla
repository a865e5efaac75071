----------------------------- MODULE MCTerminal -----------------------------
(***************************************************************************)
(* A command prints nothing, an empty line, a line as wide as the window,  *)
(* or more than fits the window.                                           *)
(***************************************************************************)
EXTENDS Terminal

Line(n) == [i \in 1 .. n |-> "out"] \o <<"newline">>

MCOutputs == {<< >>, Line(0), Line(Columns), Line(1) \o Line(Columns + 1)}

============================================================================
