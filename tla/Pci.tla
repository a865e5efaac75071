-------------------------------- MODULE Pci --------------------------------
(***************************************************************************)
(* The PCI bus (src/pci/pci.cpp): how the kernel finds the functions of a  *)
(* machine and programs one.  A machine is a set of functions, each with   *)
(* what its configuration space holds; the two I/O ports through which the *)
(* space is read are abstracted away.  The scan is module PciScan.         *)
(***************************************************************************)
EXTENDS Integers, SequencesExt

\* MSI_Header.
MSI_Header == [msi_enable : BOOLEAN, multi_msg_capable : Nat, multi_msg_enable : Nat,
               addr_64_capable : BOOLEAN, per_vector_mask_capable : BOOLEAN]

\* A function: its address, the registers the constructor reads (class stands for
\* base, sub and interface, multi for bit 7 of the header type), the bus behind it if
\* it is a bridge, its base address registers and its list of capabilities.
PciFunction ==
  [bus : Nat, device : 0 .. 31, function : 0 .. 7, vendor : STRING, class : Seq(Nat),
   multi : BOOLEAN, secondary : Nat, bars : Seq([wide : BOOLEAN, low : Nat, high : Nat]),
   caps : Seq([addr : Nat, id : Nat])]

PciBridge == <<6, 4>>
PciAhci == <<1, 6>>
PciEhci == <<12, 3, 32>>
PciXhci == <<12, 3, 48>>
kCapabilityMSI == 5

Match(f, class) == IsPrefix(class, f.class)

\* Where no function answers, every register reads as ones.
Nothing == [vendor |-> "none", class |-> <<255, 255, 255>>, multi |-> TRUE]

PCIDevice(machine, b, d, n) ==
  LET found == {f \in machine : f.bus = b /\ f.device = d /\ f.function = n}
  IN  IF found = {} THEN Nothing ELSE CHOOSE f \in found : TRUE

\* Despite its name it answers whether nothing is there.
IsConnected(machine, b, d, n) == PCIDevice(machine, b, d, n).vendor = "none"

IsSingleFunctionDevice(f) == ~f.multi

----------------------------------------------------------------------------
\* The first of the functions, in the order in which they were found, of that class.
FindDevice(devices, class) ==
  LET found == {i \in DOMAIN devices : Match(devices[i], class)}
  IN  IF found = {} THEN Nothing ELSE devices[Min(found)]

----------------------------------------------------------------------------
(* Programming one function.                                               *)

Find_CapAddress(f, id) ==
  LET found == {i \in DOMAIN f.caps : f.caps[i].id = id}
  IN  IF found = {} THEN 0 ELSE f.caps[Min(found)].addr

\* The two halves of the address; the low one still has its flag bits.
ReadBar(f, bar_index) ==
  LET bar == f.bars[bar_index + 1]
  IN  IF bar_index >= 6 \/ (bar.wide /\ bar_index >= 5)
      THEN [high |-> 0, low |-> 0]
      ELSE [high |-> IF bar.wide THEN bar.high ELSE 0, low |-> bar.low]

\* conf is the configuration space, by register, and the result what it holds
\* afterwards: the capability is switched on, and it has the
\* address, the upper half of the address if it has one, the data, and no mask.
ConfigureMSI(f, conf, address, msg_data, num_vector_exponent) ==
  LET cap    == Find_CapAddress(f, kCapabilityMSI)
      header == conf[cap]
      on     == [header EXCEPT !.msi_enable = TRUE,
                   !.multi_msg_enable = IF header.multi_msg_capable <= num_vector_exponent
                                        THEN header.multi_msg_capable ELSE num_vector_exponent]
      data   == IF header.addr_64_capable THEN cap + 12 ELSE cap + 8
      upper  == IF header.addr_64_capable THEN {cap + 8} ELSE {}
      masks  == IF header.per_vector_mask_capable THEN {data + 4, data + 8} ELSE {}
  IN  [r \in DOMAIN conf |-> CASE r = cap -> on
                             [] r = cap + 4 -> address
                             [] r = data -> msg_data
                             [] r \in upper \cup masks -> 0
                             [] OTHER -> conf[r]]

\* What the function with capability cap and space conf sends to interrupt; the
\* masks do not matter where there are none.
MessageOf(conf, cap) ==
  LET wide == conf[cap].addr_64_capable
      data == IF wide THEN cap + 12 ELSE cap + 8
  IN  [enabled |-> conf[cap].msi_enable
                   /\ (conf[cap].per_vector_mask_capable => conf[data + 4] = 0),
       high |-> IF wide THEN conf[cap + 8] ELSE 0, low |-> conf[cap + 4], data |-> conf[data]]

============================================================================
