------------------------------- MODULE MCAhci -------------------------------
(***************************************************************************)
(* Controllers with two or three ports: two disks and a port that is       *)
(* empty; a disk that has to be spun up beside another device; a gap       *)
(* between the ports, with the only disk below, at, or above it; port      *)
(* multipliers with and without a mode other than AHCI; a single slot.     *)
(***************************************************************************)
EXTENDS AhciStart

C(PI, at, NCS, SSS, SPM, SAM) ==
  [PI |-> PI, device |-> [p \in PI |-> IF p \in DOMAIN at THEN at[p] ELSE "none"],
   NCS |-> NCS, SSS |-> SSS, SPM |-> SPM, SAM |-> SAM]

MCControllers == {
  C({0, 1, 2}, (0 :> "ATA") @@ (2 :> "ATA"), 31, FALSE, FALSE, FALSE),
  C({0, 1}, (0 :> "ATAPI") @@ (1 :> "ATA"), 0, TRUE, TRUE, FALSE),
  C({0, 2}, (0 :> "ATA"), 7, FALSE, TRUE, TRUE),
  C({0, 2, 3}, (2 :> "ATA"), 31, FALSE, FALSE, FALSE),
  C({1, 2}, (1 :> "ATA") @@ (2 :> "ATA"), 31, TRUE, FALSE, FALSE)}

\* What the table of a command covers, for small counts (AhciProofs: for all).
ASSUME CoversChecked ==
  \A count \in 1 .. 100 : Covers(PRDT(count, 4096), 4096, count * SectorBytes)

============================================================================
