------------------------------ MODULE XhcStart ------------------------------
(***************************************************************************)
(* How the main task starts the xHCI controller (usb::xhci::Initialize,    *)
(* Controller::Initialize and Controller::Run in src/usb/xhci/xhci.cpp),   *)
(* register by register, while the controller and the firmware act in      *)
(* between.  at is the main task's place in the code.                      *)
(***************************************************************************)
EXTENDS Pci, UsbMemory

CONSTANT Machines   \* the machines that may be booted

kDeviceSize == 8
RingSize == 32          \* the TRBs of the command, event and transfer rings
TrbBytes == 16
PointerBytes == 8
RingBytes == 32         \* sizeof(Ring)
DeviceBytes == 3520     \* sizeof(Device)

VARIABLES
  machine,   \* the machine that boots
  at,
  devices,   \* the PCI functions ScanAllBus has found
  msi,       \* the configuration space ConfigureMSI has left to the xHC
  mmio_base, \* where the driver looks for the controller's registers
  xhc,       \* the controller's registers
  pool       \* the memory of the USB drivers

\* The name of an area of which there is only one.
Area(name) == <<name, 0>>

xhcVars == <<machine, at, devices, msi, mmio_base, xhc, pool>>

----------------------------------------------------------------------------
(* The controller.                                                         *)

\* The registers the driver writes; pointers are addresses in pool.
USBCMD == [run_stop : BOOLEAN, host_controller_reset : BOOLEAN, interrupter_enable : BOOLEAN]
USBSTS == [host_controller_halted : BOOLEAN, controller_not_ready : BOOLEAN]
CRCR == [ring_cycle_state : BOOLEAN, pointer : Nat]
InterrupterRegisterSet ==
  [interrupt_enable : BOOLEAN, ERSTSZ : Nat, ERSTBA : Nat, ERDP : Nat]
USBLEGSUP == [hc_bios_owned_semaphore : BOOLEAN, hc_os_owned_semaphore : BOOLEAN]

\* disturbed: the controller was reset while it ran, or its registers were written
\* while it was not ready; what it does then is undefined.
OperationalRegisters ==
  [cmd : USBCMD, sts : USBSTS, crcr : CRCR, DCBAAP : Nat, CONFIG : Nat,
   interrupter : InterrupterRegisterSet, legsup : USBLEGSUP, disturbed : BOOLEAN]

AfterReset(legsup, disturbed) ==
  [cmd |-> [run_stop |-> FALSE, host_controller_reset |-> FALSE, interrupter_enable |-> FALSE],
   sts |-> [host_controller_halted |-> TRUE, controller_not_ready |-> TRUE],
   crcr |-> [ring_cycle_state |-> FALSE, pointer |-> 0], DCBAAP |-> 0, CONFIG |-> 0,
   interrupter |-> [interrupt_enable |-> FALSE, ERSTSZ |-> 0, ERSTBA |-> 0, ERDP |-> 0],
   legsup |-> legsup, disturbed |-> disturbed]

\* The firmware has used the controller, as its owner or not, and may have left it running.
FirmwareLeaves(legacy) ==
  {[AfterReset(l, FALSE) EXCEPT
      !.cmd.run_stop = running, !.cmd.interrupter_enable = running,
      !.sts = [host_controller_halted |-> ~running, controller_not_ready |-> FALSE],
      !.CONFIG = 1] :
     running \in BOOLEAN,
     l \in {x \in USBLEGSUP :
              /\ ~(x.hc_bios_owned_semaphore /\ x.hc_os_owned_semaphore)
              /\ x.hc_bios_owned_semaphore \/ x.hc_os_owned_semaphore => legacy}}

Busy == xhc.cmd.host_controller_reset \/ xhc.sts.controller_not_ready

OnlyController == UNCHANGED <<machine, at, devices, msi, mmio_base, pool>>

\* A controller that is told to run is no longer halted.
Started == [xhc EXCEPT !.cmd.run_stop = TRUE, !.sts.host_controller_halted = FALSE]

\* As long as the firmware owns the controller it starts and stops it, until it
\* sees that the kernel wants it.
FirmwareDrives ==
  /\ xhc.legsup.hc_bios_owned_semaphore /\ ~Busy
  /\ xhc' = IF xhc.cmd.run_stop THEN [xhc EXCEPT !.cmd.run_stop = FALSE] ELSE Started
  /\ OnlyController

FirmwareYields ==
  /\ xhc.legsup.hc_bios_owned_semaphore /\ xhc.legsup.hc_os_owned_semaphore
  /\ xhc' = [xhc EXCEPT !.legsup.hc_bios_owned_semaphore = FALSE]
  /\ OnlyController

\* Told to stop, it comes to a halt later.
ControllerHalts ==
  /\ ~Busy /\ ~xhc.cmd.run_stop /\ ~xhc.sts.host_controller_halted
  /\ xhc' = [xhc EXCEPT !.sts.host_controller_halted = TRUE]
  /\ OnlyController

ControllerResets ==
  /\ xhc.cmd.host_controller_reset
  /\ xhc' = AfterReset(xhc.legsup, xhc.disturbed)
  /\ OnlyController

ControllerGetsReady ==
  /\ ~xhc.cmd.host_controller_reset /\ xhc.sts.controller_not_ready
  /\ xhc' = [xhc EXCEPT !.sts.controller_not_ready = FALSE]
  /\ OnlyController

Controller == ControllerHalts \/ ControllerResets \/ ControllerGetsReady

----------------------------------------------------------------------------
(* The driver.                                                             *)

\* A write of an operational or runtime register.
Write(registers) == xhc' = IF Busy THEN [xhc EXCEPT !.disturbed = TRUE] ELSE registers

Goes(from, to) == at = from /\ at' = to

Keeps == UNCHANGED <<machine, devices, msi, mmio_base>>

XhcDevice == FindDevice(devices, PciXhci)

\* SwitchEhci2Xhci hands the ports of Intel's controller over, unless an EHCI controller
\* is there too.
SwitchEhci2Xhci(conf) ==
  IF XhcDevice.vendor = "Intel" /\ FindDevice(devices, PciEhci) = Nothing
  THEN [conf EXCEPT ![208] = conf[212], ![216] = conf[220]] ELSE conf

\* The message goes to the processor that boots; its vector is the xHCI handler's.
FindController ==
  /\ Goes("find", IF XhcDevice = Nothing THEN "running" ELSE "devices")
  /\ IF XhcDevice = Nothing THEN UNCHANGED <<msi, mmio_base>>
     ELSE /\ msi' = SwitchEhci2Xhci(ConfigureMSI(XhcDevice, machine.conf, "bsp", "kXHCI", 0))
          /\ mmio_base' = ReadBar(XhcDevice, 0)
  /\ UNCHANGED <<machine, devices, xhc, pool>>

\* DeviceManager::Initialize; an error ends in exit.
InitializeDevices ==
  LET p1 == AllocMem(pool, Area("devices_"), (kDeviceSize + 1) * PointerBytes, 0, 0)
      p2 == AllocMem(p1, Area("device_context_pointers_"), (kDeviceSize + 1) * PointerBytes, 64, 4096)
  IN  /\ Goes("devices", IF AddressOf(p2, Area("devices_")) = 0
                            \/ AddressOf(p2, Area("device_context_pointers_")) = 0
                         THEN "exit" ELSE "ownership")
      /\ pool' = IF AddressOf(p1, Area("devices_")) = 0 THEN p1 ELSE p2
      /\ Keeps /\ UNCHANGED xhc

\* Mutant: nobody waits for the firmware.
RequestHCOwnershipNow ==
  /\ Goes("ownership", "halt")
  /\ xhc' = IF machine.legacy THEN [xhc EXCEPT !.legsup.hc_os_owned_semaphore = TRUE] ELSE xhc
  /\ Keeps /\ UNCHANGED pool

\* Only a controller with the capability for it has the two semaphores.
RequestHCOwnership ==
  /\ IF machine.legacy /\ ~xhc.legsup.hc_os_owned_semaphore
     THEN /\ Goes("ownership", "wait_owned")
          /\ xhc' = [xhc EXCEPT !.legsup.hc_os_owned_semaphore = TRUE]
     ELSE Goes("ownership", "halt") /\ UNCHANGED xhc
  /\ Keeps /\ UNCHANGED pool

Owned ==
  /\ ~xhc.legsup.hc_bios_owned_semaphore /\ xhc.legsup.hc_os_owned_semaphore
  /\ Goes("wait_owned", "halt")
  /\ Keeps /\ UNCHANGED <<xhc, pool>>

Halt ==
  /\ Goes("halt", "wait_halted")
  /\ Write([xhc EXCEPT !.cmd.interrupter_enable = FALSE,
                       !.cmd.run_stop = @ /\ xhc.sts.host_controller_halted])
  /\ Keeps /\ UNCHANGED pool

Halted ==
  /\ xhc.sts.host_controller_halted
  /\ Goes("wait_halted", "reset")
  /\ Keeps /\ UNCHANGED <<xhc, pool>>

Reset ==
  /\ Goes("reset", "wait_reset")
  /\ Write([xhc EXCEPT !.cmd.host_controller_reset = TRUE,
                       !.disturbed = @ \/ ~xhc.sts.host_controller_halted])
  /\ Keeps /\ UNCHANGED pool

\* Mutant: the driver does not wait until the controller is ready.
ResetDoneNotReady ==
  /\ ~xhc.cmd.host_controller_reset
  /\ Goes("wait_reset", "config")
  /\ Keeps /\ UNCHANGED <<xhc, pool>>

ResetDone ==
  /\ ~xhc.cmd.host_controller_reset
  /\ Goes("wait_reset", "wait_ready")
  /\ Keeps /\ UNCHANGED <<xhc, pool>>

Ready ==
  /\ ~xhc.sts.controller_not_ready
  /\ Goes("wait_ready", "config")
  /\ Keeps /\ UNCHANGED <<xhc, pool>>

SetMaxSlots ==
  /\ Goes("config", "scratchpads")
  /\ Write([xhc EXCEPT !.CONFIG = kDeviceSize])
  /\ Keeps /\ UNCHANGED pool

\* The array, and then its buffers one by one; the pointer to it is entry 0 of the
\* device context array.  Nobody looks whether there was room for them.
AllocScratchpadArray ==
  /\ Goes("scratchpads", IF machine.scratchpads > 0 THEN "buffers" ELSE "contexts")
  /\ pool' = IF machine.scratchpads = 0 THEN pool
             ELSE AllocMem(pool, Area("scratchpad_buf_arr"),
                           machine.scratchpads * PointerBytes, 64, 4096)
  /\ Keeps /\ UNCHANGED xhc

AllocScratchpad ==
  \E i \in 1 .. machine.scratchpads :
    /\ at = "buffers"
    /\ \A j \in 1 .. machine.scratchpads : j < i <=> Asked(pool, <<"scratchpad", j>>)
    /\ pool' = AllocMem(pool, <<"scratchpad", i>>, 4096, 4096, 4096)
    /\ at' = IF i = machine.scratchpads THEN "contexts" ELSE "buffers"
    /\ Keeps /\ UNCHANGED xhc

SetDeviceContexts ==
  /\ Goes("contexts", "command_ring")
  /\ Write([xhc EXCEPT !.DCBAAP = AddressOf(pool, Area("device_context_pointers_"))])
  /\ Keeps /\ UNCHANGED pool

\* Ring::Initialize and RegisterCommandRing.
InitializeCommandRing ==
  LET p   == AllocMem(pool, Area("cr_"), RingSize * TrbBytes, 64, 64 * 1024)
      buf == AddressOf(p, Area("cr_"))
  IN  /\ Goes("command_ring", IF buf = 0 THEN "exit" ELSE "event_ring")
      /\ pool' = p
      /\ IF buf = 0 THEN UNCHANGED xhc
         ELSE Write([xhc EXCEPT !.crcr = [ring_cycle_state |-> TRUE, pointer |-> buf]])
      /\ Keeps

\* EventRing::Initialize: the ring, and the table of its one segment.
InitializeEventRing ==
  LET p1  == AllocMem(pool, Area("er_"), RingSize * TrbBytes, 64, 64 * 1024)
      buf == AddressOf(p1, Area("er_"))
      p2  == IF buf = 0 THEN p1 ELSE AllocMem(p1, Area("erst_"), TrbBytes, 64, 64 * 1024)
      erst == AddressOf(p2, Area("erst_"))
  IN  /\ Goes("event_ring", IF erst = 0 THEN "exit" ELSE "interrupter")
      /\ pool' = p2
      /\ IF erst = 0 THEN UNCHANGED xhc
         ELSE Write([xhc EXCEPT !.interrupter.ERSTSZ = 1, !.interrupter.ERDP = buf,
                                !.interrupter.ERSTBA = erst])
      /\ Keeps

EnableInterrupter ==
  /\ Goes("interrupter", "interrupts")
  /\ Write([xhc EXCEPT !.interrupter.interrupt_enable = TRUE])
  /\ Keeps /\ UNCHANGED pool

EnableInterrupts ==
  /\ Goes("interrupts", "run")
  /\ Write([xhc EXCEPT !.cmd.interrupter_enable = TRUE])
  /\ Keeps /\ UNCHANGED pool

Run ==
  /\ Goes("run", "wait_running")
  /\ Write(Started)
  /\ Keeps /\ UNCHANGED pool

\* The ports with a device are configured next (module UsbPorts).
Running ==
  /\ ~xhc.sts.host_controller_halted
  /\ Goes("wait_running", "running")
  /\ Keeps /\ UNCHANGED <<xhc, pool>>

Driver ==
  \/ FindController \/ InitializeDevices \/ RequestHCOwnership \/ Owned
  \/ Halt \/ Halted \/ Reset \/ ResetDone \/ Ready
  \/ SetMaxSlots \/ AllocScratchpadArray \/ AllocScratchpad \/ SetDeviceContexts
  \/ InitializeCommandRing \/ InitializeEventRing
  \/ EnableInterrupter \/ EnableInterrupts \/ Run \/ Running

\* A device gets its slot, and the ring of its control pipe: AllocDevice and
\* AllocTransferRing.  Without room the driver would go on with null pointers.
AllocDevice(slot) ==
  LET p1 == AllocMem(pool, <<"device", slot>>, DeviceBytes, 64, 4096)
      p2 == AllocMem(p1, <<"ring", slot>>, RingBytes, 64, 4096)
      p3 == AllocMem(p2, <<"ring_buf_", slot>>, RingSize * TrbBytes, 64, 64 * 1024)
  IN  /\ at = "running" /\ XhcDevice # Nothing
      /\ AddressOf(pool, <<"device", slot>>) = 0
      /\ \A what \in {"device", "ring", "ring_buf_"} : AddressOf(p3, <<what, slot>>) # 0
      /\ pool' = p3
      /\ UNCHANGED <<machine, at, devices, msi, mmio_base, xhc>>

----------------------------------------------------------------------------
(* What must hold.                                                         *)

\* An area at p is aligned as was asked, and crosses its boundary only if it is longer.
Fits(p, size, alignment, boundary) ==
  /\ alignment > 0 => p % alignment = 0
  /\ boundary > 0 /\ size <= boundary => p \div boundary = (p + size - 1) \div boundary

\* The areas the drivers have got lie in the pool, apart from each other, as they were
\* asked for (usb/memory.hpp, AllocMem).
MemoryIsApart ==
  LET got == {a \in pool.areas : a.p # 0}
  IN  /\ \A a \in got : /\ pool.base <= a.p /\ a.p + a.size <= pool.base + kMemoryPoolSize
                        /\ Fits(a.p, a.size, a.alignment, a.boundary)
      /\ \A a, b \in got : a = b \/ a.p + a.size <= b.p \/ b.p + b.size <= a.p

\* What the controller needs to work for the driver and to interrupt it.
Programmed ==
  /\ xhc.CONFIG = kDeviceSize /\ xhc.DCBAAP = AddressOf(pool, Area("device_context_pointers_"))
  /\ xhc.crcr = [ring_cycle_state |-> TRUE, pointer |-> AddressOf(pool, Area("cr_"))]
  /\ xhc.interrupter = [interrupt_enable |-> TRUE, ERSTSZ |-> 1,
                        ERSTBA |-> AddressOf(pool, Area("erst_")), ERDP |-> AddressOf(pool, Area("er_"))]
  /\ xhc.cmd.interrupter_enable
  /\ \A what \in {"device_context_pointers_", "cr_", "er_", "erst_"} : AddressOf(pool, Area(what)) # 0
  /\ MessageOf(msi, Find_CapAddress(XhcDevice, kCapabilityMSI))
       = [enabled |-> TRUE, high |-> 0, low |-> "bsp", data |-> "kXHCI"]

\* The controller is never reset while it runs, nor written to while it is not ready,
\* and once the driver has reset it, it runs only when it has been given everything it
\* needs.
XhcIsProgrammed ==
  /\ ~xhc.disturbed
  /\ at \in {"run", "wait_running", "running"} /\ xhc.cmd.run_stop /\ XhcDevice # Nothing
       => Programmed /\ ~xhc.legsup.hc_bios_owned_semaphore

============================================================================
