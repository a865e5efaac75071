--------------------------- MODULE MCKernelTasks ---------------------------
(***************************************************************************)
(* The kernel's four tasks with the levels of the code, two events of the  *)
(* xHCI controller (so that one can come while the other is processed) and *)
(* one interrupt of the AHCI controller.                                   *)
(***************************************************************************)
EXTENDS KernelTasks

============================================================================
