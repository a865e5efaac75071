------------------------------ MODULE MCLayers ------------------------------
(***************************************************************************)
(* A screen of five cells.  The windows start on the console and overlap,  *)
(* as they do at 300, 500 and 100 on the 640 pixels of the real console.   *)
(***************************************************************************)
EXTENDS Layers

MCWidth == (Background :> 5) @@ (ConsoleLayer :> 4) @@ (MainWindow :> 2)
           @@ (TextWindow :> 2) @@ (TerminalWindow :> 3) @@ (Mouse :> 2)

MCStart == (Background :> 0) @@ (ConsoleLayer :> 0) @@ (MainWindow :> 1)
           @@ (TextWindow :> 3) @@ (TerminalWindow :> 1) @@ (Mouse :> 3)

============================================================================
