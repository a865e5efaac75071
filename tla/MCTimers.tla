------------------------------ MODULE MCTimers ------------------------------
(***************************************************************************)
(* Two ticks to a time slice as in the code, three to half a second, so    *)
(* that the two drift apart; two timers of another task beside the cursor. *)
(***************************************************************************)
EXTENDS Timers

============================================================================
