----------------------------- MODULE MCUsbPorts -----------------------------
(***************************************************************************)
(* One port has a keyboard, two have something the kernel has no class     *)
(* driver for.  Three ports are needed for two to wait while the third is  *)
(* being addressed.                                                        *)
(***************************************************************************)
EXTENDS UsbPorts

============================================================================
