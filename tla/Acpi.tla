-------------------------------- MODULE Acpi --------------------------------
(***************************************************************************)
(* The ACPI tables (src/acpi): which of them the kernel takes and when it  *)
(* gives up.  A table is its signature and the sum of its bytes, modulo    *)
(* 256; the sums are what the firmware has left in memory.                 *)
(***************************************************************************)
EXTENDS Integers, SequencesExt

Byte == 0 .. 255

RSDP == [signature : STRING, revision : Byte, sum20 : Byte, sum36 : Byte]

DescriptionHeader == [signature : STRING, sum : Byte]

\* The tables of a machine: the root pointer, the XSDT and its entries, in their
\* order, and the table the FADT calls the DSDT.
AcpiTables == [rsdp : RSDP, xsdt : DescriptionHeader, entry : Seq(DescriptionHeader),
               dsdt : DescriptionHeader]

RsdpIsValid(rsdp) ==
  /\ rsdp.signature = "RSD PTR "
  /\ rsdp.revision = 2
  /\ rsdp.sum20 = 0 /\ rsdp.sum36 = 0

IsValid(header, expected_signature) ==
  header.signature = expected_signature /\ header.sum = 0

\* Reading through the null pointer FindTable returns finds no signature.
NullTable == [signature |-> "", sum |-> 0]

\* Mutant: the sum is not looked at before a table is chosen.
FindTableUnsummed(entry, expected_signature) ==
  LET found == SelectSeq(entry, LAMBDA h : h.signature = expected_signature)
  IN  IF found = <<>> THEN NullTable ELSE found[1]

\* The first table that has the signature and whose sum is right.
FindTable(entry, expected_signature) ==
  LET found == SelectSeq(entry, LAMBDA h : IsValid(h, expected_signature))
  IN  IF found = <<>> THEN NullTable ELSE found[1]

\* acpi::Initialize goes through; otherwise it exits.
AcpiInitializes(tables) ==
  /\ RsdpIsValid(tables.rsdp)
  /\ IsValid(tables.xsdt, "XSDT")
  /\ IsValid(FindTable(tables.entry, "FACP"), "FACP")
  /\ IsValid(FindTable(tables.entry, "APIC"), "APIC")
  /\ IsValid(tables.dsdt, "DSDT")

============================================================================
