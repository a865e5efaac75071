--------------------------- MODULE MCUsbTransfers ---------------------------
(***************************************************************************)
(* A keyboard whose interface comes second and has endpoints of two        *)
(* numbers, and a device without an interface the kernel knows.  With six  *)
(* places the control ring begins anew twice during the set-up and has no  *)
(* more room than is needed; the interrupt ring begins anew for ever.      *)
(***************************************************************************)
EXTENDS UsbTransfers

Config == [type |-> "Configuration"]
Interface(class, protocol, endpoints) ==
  [type |-> "Interface", class |-> class, sub |-> 1, protocol |-> protocol,
   endpoints |-> endpoints]
Hid == [type |-> "HID"]
Endpoint(n) == [type |-> "Endpoint", number |-> n]

MCConfigs == { <<Config, Interface(8, 1, 1), Endpoint(3), Interface(3, 1, 2), Hid,
                 Endpoint(1), Endpoint(2)>>,
               <<Config, Interface(8, 1, 2), Endpoint(1), Endpoint(2)>> }

============================================================================
