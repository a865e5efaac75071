------------------------------ MODULE Counting ------------------------------
(***************************************************************************)
(* How many elements of a queue are of a kind, for the properties that     *)
(* count what is on its way.                                               *)
(***************************************************************************)
EXTENDS FiniteSets, Sequences

\* Where elements of S stand in the queue q, and how many they are.
Positions(q, S) == {i \in DOMAIN q : q[i] \in S}
CountIn(q, S) == Cardinality(Positions(q, S))

============================================================================
