---------------------------- MODULE AhciCommand ----------------------------
(***************************************************************************)
(* How a command for a disk is put together: its slot                      *)
(* (src/ata/SATAController.cpp) and the table that tells the controller    *)
(* where the data goes (src/ata/registers.cpp).                            *)
(***************************************************************************)
EXTENDS Integers, Sequences

SectorBytes == 512
MaxDBC == 4194304       \* DBC has 22 bits
TableBytes == 2 * 4096  \* the frames SendH2DFIS asks for

\* The slots that are looked at; if none of them is free, slot 0 is taken all the same.
FindFreeSlot(busy, NCS) ==
  LET free == {i \in 0 .. NCS - 1 : i \notin busy}
  IN  IF free = {} THEN 0 ELSE CHOOSE i \in free : \A j \in free : i <= j

\* The entries of the table for count sectors, which the header counts too.
prdtl(count) == (count - 1) \div 16 + 1

\* Build_Command_table: entries of 16 sectors, and one with what is left.  DBC holds a
\* length less one.
PRDT(count, dba) ==
  [i \in 1 .. prdtl(count) |->
     [DBA |-> dba + (i - 1) * 8 * 1024,
      DBC |-> IF i < prdtl(count) THEN 8 * 1024 - 1
              ELSE ((count - 16 * (prdtl(count) - 1)) * SectorBytes - 1) % MaxDBC,
      I   |-> i = prdtl(count)]]

\* What the controller makes of an entry: the bytes it moves, and where the next go.
Length(entry) == entry.DBC + 1
EndOf(entry) == entry.DBA + Length(entry)

\* The command table, with its entries behind 128 bytes of other things.
CommandTableBytes(count) == 128 + 16 * prdtl(count)

\* A table covers length bytes at dba: without a gap, and not a byte more.
Covers(table, dba, length) ==
  /\ table # << >> /\ table[1].DBA = dba
  /\ \A i \in 1 .. Len(table) - 1 : table[i + 1].DBA = EndOf(table[i])
  /\ EndOf(table[Len(table)]) = dba + length

============================================================================
