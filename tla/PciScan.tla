------------------------------ MODULE PciScan ------------------------------
(***************************************************************************)
(* The scan of the PCI bus (ScanAllBus in src/pci/pci.cpp).  Each operator *)
(* returns the functions in the order in which the code appends them to    *)
(* devices; a bus is scanned where the bridge to it is found.              *)
(***************************************************************************)
EXTENDS Pci

Present(machine, b, d, numbers) ==
  SelectSeq(numbers, LAMBDA n : ~IsConnected(machine, b, d, n))

RECURSIVE ScanBus(_, _)

ScanFunction(machine, f) ==
  <<f>> \o (IF Match(f, PciBridge) THEN ScanBus(machine, f.secondary) ELSE <<>>)

\* Functions 1 to 7 are looked for if the header says that there is only one.
ScanDevice(machine, b, d) ==
  LET function0 == PCIDevice(machine, b, d, 0)
      others    == IF IsSingleFunctionDevice(function0)
                   THEN Present(machine, b, d, [n \in 1 .. 7 |-> n]) ELSE <<>>
  IN  ScanFunction(machine, function0) \o
      FlattenSeq([i \in DOMAIN others |->
                    ScanFunction(machine, PCIDevice(machine, b, d, others[i]))])

ScanBus(machine, b) ==
  LET there == SelectSeq([i \in 1 .. 32 |-> i - 1], LAMBDA d : ~IsConnected(machine, b, d, 0))
  IN  FlattenSeq([i \in DOMAIN there |-> ScanDevice(machine, b, there[i])])

\* A host bridge of several functions has a bus behind each of them.
ScanAllBus(machine) ==
  IF IsSingleFunctionDevice(PCIDevice(machine, 0, 0, 0))
  THEN ScanBus(machine, 0)
  ELSE LET hosts == Present(machine, 0, 0, [i \in 1 .. 8 |-> i - 1])
       IN  FlattenSeq([i \in DOMAIN hosts |-> ScanBus(machine, hosts[i])])

============================================================================
