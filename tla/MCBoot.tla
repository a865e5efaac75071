------------------------------- MODULE MCBoot -------------------------------
(***************************************************************************)
(* Ten frames and five machines.  The memory maps have reserved            *)
(* descriptors between, before and behind available ones, a gap no         *)
(* descriptor covers, and descriptors that are not in order; in one there  *)
(* is no room for the heap.  The machines:                                 *)
(*   - Intel: an xHC with a 64-bit MSI address and base address, which the *)
(*     firmware may own, and a second table with the FADT's signature      *)
(*     whose sum is wrong;                                                 *)
(*   - bridged: two host bridges, the xHC behind a bridge on the second    *)
(*     bus, a 32-bit MSI address with masks, and so many scratchpad        *)
(*     buffers that the pool has no room for the last of them;             *)
(*   - starved: more scratchpad buffers than the pool has pages, and no    *)
(*     room for the command ring behind them;                              *)
(*   - hidden: the xHC is function 2 of a device with several functions;   *)
(*   - broken: the sum of the MADT is wrong.                               *)
(***************************************************************************)
EXTENDS Boot, PciScan

D(start, pages, available) == [start |-> start, pages |-> pages, available |-> available]

MCMemoryMaps == {
  <<D(0, 3, TRUE), D(3, 1, FALSE), D(5, 5, TRUE)>>,
  <<D(5, 5, TRUE), D(3, 1, FALSE), D(0, 3, TRUE)>>,
  <<D(1, 6, TRUE), D(8, 2, FALSE), D(0, 1, FALSE)>>,
  <<D(0, 8, TRUE), D(9, 1, FALSE)>>,
  <<D(0, 2, TRUE), D(2, 2, FALSE), D(4, 2, TRUE)>>}

F(bus, device, function, multi, vendor, class, secondary, bar, caps) ==
  [bus |-> bus, device |-> device, function |-> function, vendor |-> vendor, class |-> class,
   multi |-> multi, secondary |-> secondary, bars |-> <<bar>>, caps |-> caps]

Bar(wide) == [wide |-> wide, low |-> 4, high |-> 1]
Caps == <<[addr |-> 112, id |-> 1], [addr |-> 128, id |-> 5]>>

Header(wide, masked) ==
  [msi_enable |-> FALSE, multi_msg_capable |-> 3, multi_msg_enable |-> 2,
   addr_64_capable |-> wide, per_vector_mask_capable |-> masked]

\* The configuration space the firmware leaves.
Conf(wide, masked) ==
  [r \in {128, 132, 136, 140, 144, 148, 208, 212, 216, 220} |->
     IF r = 128 THEN Header(wide, masked) ELSE 7]

Host(function, multi) == F(0, 0, function, multi, "Intel", <<6, 0, 0>>, 0, Bar(FALSE), <<>>)
Xhc(bus, device, function, multi, vendor, wide) ==
  F(bus, device, function, multi, vendor, PciXhci, 0, Bar(wide), Caps)

H(signature, sum) == [signature |-> signature, sum |-> sum]
Tables(entry) ==
  [rsdp |-> [signature |-> "RSD PTR ", revision |-> 2, sum20 |-> 0, sum36 |-> 0],
   xsdt |-> H("XSDT", 0), entry |-> entry, dsdt |-> H("DSDT", 0)]
Good == Tables(<<H("FACP", 0), H("APIC", 0)>>)

Machine(functions, wide, masked, tables, legacy, scratchpads, pool_base) ==
  [functions |-> functions, conf |-> Conf(wide, masked), tables |-> tables,
   legacy |-> legacy, scratchpads |-> scratchpads, pool_base |-> pool_base]

Intel == Machine({Host(0, FALSE), Xhc(0, 20, 0, TRUE, "Intel", TRUE)}, TRUE, FALSE,
                 Tables(<<H("FACP", 3), H("SSDT", 0), H("APIC", 0), H("FACP", 0)>>),
                 TRUE, 2, 3904)
Bridged ==
  Machine({Host(0, TRUE), Host(1, TRUE), Xhc(2, 0, 0, FALSE, "other", FALSE),
           F(1, 3, 0, FALSE, "other", <<6, 4, 0>>, 2, Bar(FALSE), <<>>)},
          FALSE, TRUE, Good, FALSE, 31, 4032)
Starved == Machine({Host(0, FALSE), Xhc(0, 1, 0, FALSE, "other", TRUE)}, TRUE, TRUE, Good,
                   FALSE, 33, 64)
Hidden == Machine({Host(0, FALSE), F(0, 2, 0, TRUE, "other", <<1, 6, 1>>, 0, Bar(FALSE), <<>>),
                   Xhc(0, 2, 2, TRUE, "other", TRUE)}, TRUE, TRUE, Good, FALSE, 0, 64)
Broken == Machine({Host(0, FALSE)}, TRUE, TRUE, Tables(<<H("FACP", 0), H("APIC", 9)>>),
                  FALSE, 0, 64)

MCMachines == {Intel, Bridged, Starved, Hidden, Broken}

============================================================================
