------------------------------ MODULE UsbPorts ------------------------------
(***************************************************************************)
(* The configuration of USB devices by the xHCI driver: the phases of the  *)
(* root hub ports (src/usb/xhci/xhci.cpp), the slots of the device manager *)
(* (src/usb/xhci/devmgr.cpp), the phases of a device and of its class      *)
(* driver (src/usb/device.cpp, src/usb/xhci/device.cpp,                    *)
(* src/usb/classdriver/hid.cpp).                                           *)
(*                                                                         *)
(* The driver is sequential: Initialize goes through the ports, and then   *)
(* ProcessEvents handles one event of the event ring after the other.  The *)
(* controller, the ports and the people who plug and unplug devices go on  *)
(* in between.  The rings are queues here, whose order is what the driver  *)
(* and the controller use of them.                                         *)
(***************************************************************************)
EXTENDS Integers, FiniteSetsExt, SequencesExt, Counting

CONSTANTS
  MaxPorts,     \* root hub ports, HCSPARAMS1.MaxPorts
  MaxSlots,     \* kDeviceSize
  Supported,    \* the ports whose devices have a HID boot interface
  Endpoints,    \* endpoint numbers of such an interface: OnEndpointsConfigured
                \* calls its class driver once for each
  MaxUnplugs,   \* bound: how often a device is unplugged
  MaxFailures   \* bound: how often a device fails although it is plugged in

Ports == 1 .. MaxPorts
Slots == 1 .. MaxSlots

ASSUME UsbAssumption == /\ MaxPorts \in Nat /\ MaxSlots \in Nat /\ Endpoints \in Nat
                        /\ MaxUnplugs \in Nat /\ MaxFailures \in Nat
                        /\ Supported \subseteq Ports

\* ConfigPhase, without the prefix k.
Phases == {"NotConnected", "WaitingAddressed", "ResettingPort", "EnablingSlot",
           "AddressingDevice", "InitializingDevice", "ConfiguringEndpoints", "Configured"}

VARIABLES
  boot,        \* the port Initialize has come to; MaxPorts + 1: it is done
  phase,       \* port_config_phase
  addressing,  \* addressing_port; 0: none
  devices,     \* DeviceManager::devices_ by slot, with the context the controller writes
  commands,    \* the command ring
  events,      \* the event ring
  portsc,      \* PORTSC of each port
  enabled,     \* the slots the controller has enabled
  unplugs, failures

driver == <<boot, phase, addressing>>
faults == <<unplugs, failures>>
vars == <<driver, devices, commands, events, portsc, enabled, faults>>

----------------------------------------------------------------------------
(* Events, commands and devices.                                           *)

PortEvent(p) == [type |-> "port", port |-> p]
CommandEvent(command, s) == [type |-> "command", of |-> command, slot |-> s]
TransferEvent(s, transfer, ok) == [type |-> "transfer", of |-> transfer, slot |-> s, ok |-> ok]

Command(type, s, p) == [type |-> type, slot |-> s, port |-> p]

Transfers == {"GetDevice", "GetConfig", "SetConfig", "SetProtocol"}

\* port is root_hub_port_num of the device context, 0 until the controller has
\* written it; init and hid are the initialize_phase_ of the device and of its
\* class driver; control holds the control transfers in the ring of endpoint 0,
\* reports counts those of the interrupt endpoint.
NoDevice == [there |-> FALSE, port |-> 0, init |-> 0, hid |-> 0, control |-> << >>, reports |-> 0]
NewDevice == [NoDevice EXCEPT !.there = TRUE]

Device(s) == devices[s]

----------------------------------------------------------------------------
(* The controller, and what happens at its ports.                          *)

ControllerUnchanged == UNCHANGED driver

\* A change bit rises: an event, if no change bit of the port was set before;
\* if one was, there may or may not be an event.
Announced(p, before) ==
  CASE before.csc              -> {<< >>}
    [] ~before.csc /\ before.prc -> {<< >>, <<PortEvent(p)>>}
    [] OTHER                   -> {<<PortEvent(p)>>}

Plug(p) ==
  /\ ~portsc[p].ccs
  /\ portsc' = [portsc EXCEPT ![p].ccs = TRUE, ![p].csc = TRUE]
  /\ \E e \in Announced(p, portsc[p]) : events' = events \o e
  /\ UNCHANGED <<devices, commands, enabled, faults>> /\ ControllerUnchanged

Unplug(p) ==
  /\ unplugs < MaxUnplugs /\ portsc[p].ccs
  /\ unplugs' = unplugs + 1
  /\ portsc' = [portsc EXCEPT ![p].ccs = FALSE, ![p].ped = FALSE, ![p].csc = TRUE]
  /\ \E e \in Announced(p, portsc[p]) : events' = events \o e
  /\ UNCHANGED <<devices, commands, enabled, failures>> /\ ControllerUnchanged

\* Enable Slot: a free slot, which one does not matter to the driver; or 0 and an
\* error.
ExecuteEnableSlot ==
  /\ commands # << >> /\ Head(commands).type = "EnableSlot"
  /\ commands' = Tail(commands)
  /\ \/ LET s == Min(Slots \ enabled)
        IN  /\ enabled # Slots
            /\ enabled' = enabled \cup {s}
            /\ events' = Append(events, CommandEvent("EnableSlot", s))
     \/ /\ enabled = Slots
        /\ events' = Append(events, CommandEvent("EnableSlot", 0))
        /\ UNCHANGED enabled
  /\ UNCHANGED <<devices, portsc, faults>> /\ ControllerUnchanged

Fails(p) == /\ portsc[p].ped => failures < MaxFailures
            /\ failures' = IF portsc[p].ped THEN failures + 1 ELSE failures

\* Address Device copies the input context to the device context and sends
\* SET_ADDRESS.  If the device does not answer, the context may have been written.
ExecuteAddressDevice ==
  LET c == Head(commands)
      Written == devices' = [devices EXCEPT ![c.slot].port = c.port]
  IN  /\ commands # << >> /\ c.type = "AddressDevice"
      /\ commands' = Tail(commands)
      /\ \/ c.slot # 0 /\ portsc[c.port].ped /\ Written /\ UNCHANGED failures
         \/ c.slot # 0 /\ Fails(c.port) /\ (Written \/ UNCHANGED devices)
         \/ c.slot = 0 /\ UNCHANGED <<devices, failures>>
      /\ events' = Append(events, CommandEvent("AddressDevice", c.slot))
      /\ UNCHANGED <<portsc, enabled, unplugs>> /\ ControllerUnchanged

ExecuteConfigureEndpoint ==
  LET c == Head(commands)
  IN  /\ commands # << >> /\ c.type = "ConfigureEndpoint"
      /\ commands' = Tail(commands)
      /\ events' = Append(events, CommandEvent("ConfigureEndpoint", c.slot))
      /\ UNCHANGED <<devices, portsc, enabled, faults>> /\ ControllerUnchanged

ExecuteCommand == ExecuteEnableSlot \/ ExecuteAddressDevice \/ ExecuteConfigureEndpoint

\* The controller completes a transfer, with success or without.
Completed(s, transfer) ==
  \E ok \in BOOLEAN :
    /\ IF ok THEN portsc[Device(s).port].ped /\ UNCHANGED failures
             ELSE Fails(Device(s).port)
    /\ events' = Append(events, TransferEvent(s, transfer, ok))

CompleteControl(s) ==
  /\ Device(s).control # << >>
  /\ Completed(s, Head(Device(s).control))
  /\ devices' = [devices EXCEPT ![s].control = Tail(@)]
  /\ UNCHANGED <<commands, portsc, enabled, unplugs>> /\ ControllerUnchanged

\* A report: a key has been pressed or released.
CompleteReport(s) ==
  /\ Device(s).reports > 0
  /\ Completed(s, "Report")
  /\ devices' = [devices EXCEPT ![s].reports = @ - 1]
  /\ UNCHANGED <<commands, portsc, enabled, unplugs>> /\ ControllerUnchanged

----------------------------------------------------------------------------
(* The ports: ResetPort and what follows it.                               *)

\* Mutant: it is not looked whether another port is being addressed.
ResetPortAtOnce(p, a, ph, queue) ==
  LET Resets == portsc[p].ccs /\ ph[p] \in {"NotConnected", "WaitingAddressed"}
  IN  \/ /\ Resets
         /\ phase' = [ph EXCEPT ![p] = "ResettingPort"]
         /\ addressing' = p
         /\ portsc' = [portsc EXCEPT ![p].ped = TRUE, ![p].csc = FALSE, ![p].prc = TRUE]
         /\ events' = Append(queue, PortEvent(p))
      \/ /\ ~Resets
         /\ phase' = ph /\ addressing' = a /\ events' = queue
         /\ UNCHANGED portsc

\* ResetPort of port p when addressing_port is a and the other ports' phases are
\* ph.  It waits until the controller has reset the port, so an enabled port and
\* the event come with it.
ResetPort(p, a, ph, queue) ==
  LET Resets == portsc[p].ccs /\ a = 0 /\ ph[p] \in {"NotConnected", "WaitingAddressed"}
  IN  \/ /\ Resets
         /\ phase' = [ph EXCEPT ![p] = "ResettingPort"]
         /\ addressing' = p
         /\ portsc' = [portsc EXCEPT ![p].ped = TRUE, ![p].csc = FALSE, ![p].prc = TRUE]
         /\ events' = Append(queue, PortEvent(p))
      \/ /\ ~Resets
         /\ phase' = IF portsc[p].ccs /\ a # 0 THEN [ph EXCEPT ![p] = "WaitingAddressed"] ELSE ph
         /\ addressing' = a
         /\ events' = queue
         /\ UNCHANGED portsc

\* One turn of the loop of Initialize, with ConfigurePort.
ConfigurePort ==
  /\ boot \in Ports
  /\ boot' = boot + 1
  /\ IF portsc[boot].ccs /\ phase[boot] = "NotConnected"
     THEN ResetPort(boot, addressing, phase, events)
     ELSE UNCHANGED <<phase, addressing, portsc, events>>
  /\ UNCHANGED <<devices, commands, enabled, faults>>

\* An event is at the front of the event ring and ProcessEvents takes it.
event == Head(events)
Rest == Tail(events)
Event(type) == boot > MaxPorts /\ events # << >> /\ event.type = type

\* The event changes nothing but the event ring: the handler returns an error.
Ignored == /\ events' = Rest
           /\ UNCHANGED <<phase, addressing, devices, commands, portsc>>

EventUnchanged == UNCHANGED <<boot, enabled, faults>>

\* Mutant: the phase is left as it is.
EnableSlotSamePhase(p) ==
  IF portsc[p].ped /\ portsc[p].prc
  THEN /\ portsc' = [portsc EXCEPT ![p].prc = FALSE]
       /\ commands' = Append(commands, Command("EnableSlot", 0, 0))
       /\ events' = Rest
       /\ UNCHANGED <<phase, addressing, devices>>
  ELSE Ignored

EnableSlot(p) ==
  IF portsc[p].ped /\ portsc[p].prc
  THEN /\ portsc' = [portsc EXCEPT ![p].prc = FALSE]
       /\ phase' = [phase EXCEPT ![p] = "EnablingSlot"]
       /\ commands' = Append(commands, Command("EnableSlot", 0, 0))
       /\ events' = Rest
       /\ UNCHANGED <<addressing, devices>>
  ELSE Ignored

OnPortStatusChange ==
  LET p == event.port
  IN  /\ Event("port")
      /\ CASE phase[p] = "NotConnected"  -> ResetPort(p, addressing, phase, Rest)
                                            /\ UNCHANGED <<devices, commands>>
           [] phase[p] = "ResettingPort" -> EnableSlot(p)
           [] OTHER                      -> Ignored
      /\ EventUnchanged

\* Mutant: the device is put at the number of the port.
AddressDeviceAtPort(p, s) ==
  /\ devices' = [devices EXCEPT ![p] = IF @.there THEN @ ELSE NewDevice]
  /\ phase' = [phase EXCEPT ![p] = "AddressingDevice"]
  /\ commands' = Append(commands, Command("AddressDevice", s, p))
  /\ events' = Rest
  /\ UNCHANGED <<addressing, portsc>>

\* AllocDevice makes a device for the slot unless it has one; that it has is not
\* noticed.
AddressDevice(p, s) ==
  /\ devices' = [devices EXCEPT ![s] = IF @.there THEN @ ELSE NewDevice]
  /\ phase' = [phase EXCEPT ![p] = "AddressingDevice"]
  /\ commands' = Append(commands, Command("AddressDevice", s, p))
  /\ events' = Rest
  /\ UNCHANGED <<addressing, portsc>>

\* The completion of Enable Slot.  Its completion code is not looked at.
OnSlotEnabled ==
  /\ Event("command") /\ event.of = "EnableSlot"
  /\ IF addressing # 0 /\ phase[addressing] = "EnablingSlot"
     THEN AddressDevice(addressing, event.slot)
     ELSE Ignored
  /\ EventUnchanged

WaitingPorts == {p \in Ports : phase[p] = "WaitingAddressed"}

\* Mutant: addressing_port is set free after the next port has been reset.
OnDeviceAddressedLate ==
  LET s == event.slot
      p == Device(s).port
      initializing == [phase EXCEPT ![p] = "InitializingDevice"]
  IN  /\ Event("command") /\ event.of = "AddressDevice"
      /\ IF p # 0 /\ p = addressing /\ phase[p] = "AddressingDevice"
         THEN /\ addressing' = 0 /\ phase' = initializing /\ events' = Rest
              /\ devices' = [devices EXCEPT ![s].init = 1,
                                            ![s].control = Append(@, "GetDevice")]
              /\ UNCHANGED <<commands, portsc>>
         ELSE Ignored
      /\ EventUnchanged

\* The completion of Address Device: the first port that waits is reset, and the
\* device begins its initialization with a request for its device descriptor.
OnDeviceAddressed ==
  LET s == event.slot
      p == Device(s).port
      initializing == [phase EXCEPT ![p] = "InitializingDevice"]
  IN  /\ Event("command") /\ event.of = "AddressDevice"
      /\ IF p # 0 /\ p = addressing /\ phase[p] = "AddressingDevice"
         THEN /\ IF WaitingPorts = {}
                 THEN /\ addressing' = 0 /\ phase' = initializing /\ events' = Rest
                      /\ UNCHANGED portsc
                 ELSE ResetPort(Min(WaitingPorts), 0, initializing, Rest)
              /\ devices' = [devices EXCEPT ![s].init = 1,
                                            ![s].control = Append(@, "GetDevice")]
              /\ UNCHANGED commands
         ELSE Ignored
      /\ EventUnchanged

\* The completion of Configure Endpoint: the class driver, once for each of its
\* endpoint numbers, sets the boot protocol.
OnEndpointsConfigured ==
  LET s == event.slot
      p == Device(s).port
  IN  /\ Event("command") /\ event.of = "ConfigureEndpoint"
      /\ IF phase[p] = "ConfiguringEndpoints"
         THEN /\ phase' = [phase EXCEPT ![p] = "Configured"]
              /\ devices' = [devices EXCEPT ![s].hid = 1,
                               ![s].control = @ \o [i \in 1 .. Endpoints |-> "SetProtocol"]]
              /\ events' = Rest
              /\ UNCHANGED <<addressing, commands, portsc>>
         ELSE Ignored
      /\ EventUnchanged

----------------------------------------------------------------------------
(* Transfers.                                                              *)

\* Mutants: the class driver does not look at its phase, or counts it up.
ControlCompletedAgain(d, transfer) ==
  CASE d.init = 4 /\ transfer = "SetProtocol" -> [d EXCEPT !.hid = 2, !.reports = @ + 1]
    [] d.init = 1 /\ transfer = "GetDevice" ->
         [d EXCEPT !.init = 2, !.control = Append(@, "GetConfig")]
    [] d.init = 2 /\ transfer = "GetConfig" /\ d.port \in Supported ->
         [d EXCEPT !.init = 3, !.control = Append(@, "SetConfig")]
    [] d.init = 3 /\ transfer = "SetConfig" -> [d EXCEPT !.init = 4]
    [] OTHER -> d

\* What OnControlCompleted makes of a device when a transfer has succeeded; the
\* device itself if it returns an error.
ControlCompleted(d, transfer) ==
  CASE d.init = 4 /\ transfer = "SetProtocol" /\ d.hid = 1 ->
         [d EXCEPT !.hid = 2, !.reports = @ + 1]
    [] d.init = 1 /\ transfer = "GetDevice" ->
         [d EXCEPT !.init = 2, !.control = Append(@, "GetConfig")]
    [] d.init = 2 /\ transfer = "GetConfig" /\ d.port \in Supported ->
         [d EXCEPT !.init = 3, !.control = Append(@, "SetConfig")]
    [] d.init = 3 /\ transfer = "SetConfig" ->
         [d EXCEPT !.init = 4]
    [] OTHER -> d

\* OnInterruptCompleted asks for the next report.
TransferCompleted(d, transfer) ==
  IF transfer = "Report" THEN [d EXCEPT !.reports = @ + 1] ELSE ControlCompleted(d, transfer)

\* ConfigureEndpoints fails if the port tells no speed, as it may when the device
\* is gone.
ConfigureEndpoints(s, p) ==
  \/ /\ phase' = [phase EXCEPT ![p] = "ConfiguringEndpoints"]
     /\ commands' = Append(commands, Command("ConfigureEndpoint", s, p))
  \/ ~portsc[p].ccs /\ UNCHANGED <<phase, commands>>

OnTransfer ==
  LET s == event.slot
      d == TransferCompleted(Device(s), event.of)
  IN  /\ Event("transfer")
      /\ IF event.ok
         THEN /\ devices' = [devices EXCEPT ![s] = d]
              /\ IF d.init = 4 /\ phase[d.port] = "InitializingDevice"
                 THEN ConfigureEndpoints(s, d.port)
                 ELSE UNCHANGED <<phase, commands>>
              /\ events' = Rest
              /\ UNCHANGED <<addressing, portsc>>
         ELSE Ignored
      /\ EventUnchanged

ProcessEvent == OnPortStatusChange \/ OnSlotEnabled \/ OnDeviceAddressed
                \/ OnEndpointsConfigured \/ OnTransfer

----------------------------------------------------------------------------
\* Some ports have a device from the start: their change bit is set, and the
\* controller may have made an event of it.
Init ==
  /\ boot = 1 /\ addressing = 0
  /\ phase = [p \in Ports |-> "NotConnected"]
  /\ devices = [s \in {0} \cup Slots |-> NoDevice]
  /\ commands = << >> /\ enabled = {}
  /\ \E plugged \in SUBSET Ports, announced \in BOOLEAN :
       /\ portsc = [p \in Ports |-> [ccs |-> p \in plugged, ped |-> FALSE,
                                      csc |-> p \in plugged, prc |-> FALSE]]
       /\ events = IF announced THEN SetToSeq({PortEvent(p) : p \in plugged}) ELSE << >>
  /\ unplugs = 0 /\ failures = 0

Driver == ConfigurePort \/ ProcessEvent

Controller == ExecuteCommand \/ \E s \in Slots : CompleteControl(s)

Next == \/ Driver \/ Controller
        \/ \E s \in Slots : CompleteReport(s)
        \/ \E p \in Ports : Plug(p) \/ Unplug(p)

\* The main task comes to every event (NoUsbEventForgotten of module KernelTasks),
\* and the controller executes commands and completes control transfers.  Nobody
\* has to plug anything or press a key.
Fairness == /\ WF_vars(Driver) /\ WF_vars(ExecuteCommand)
            /\ \A s \in Slots : WF_vars(CompleteControl(s))

Spec == Init /\ [][Next]_vars /\ Fairness

----------------------------------------------------------------------------
(* What must hold.                                                         *)

TypeOK ==
  /\ boot \in 1 .. MaxPorts + 1
  /\ phase \in [Ports -> Phases] /\ addressing \in {0} \cup Ports
  /\ \A s \in {0} \cup Slots :
       /\ Device(s).port \in {0} \cup Ports
       /\ Device(s).init \in 0 .. 4 /\ Device(s).hid \in 0 .. 2
       /\ Device(s).control \in Seq(Transfers) /\ Device(s).reports \in Nat
  /\ portsc \in [Ports -> [ccs : BOOLEAN, ped : BOOLEAN, csc : BOOLEAN, prc : BOOLEAN]]
  /\ enabled \subseteq Slots

\* Between its reset and its address a port has the default address, and two
\* ports must not have it at once (the comment at xhci.cpp:39).  The ports in
\* these phases are at most one: addressing_port.  The types are checked with it.
OneAtATime ==
  /\ TypeOK
  /\ \A p \in Ports : phase[p] \in {"ResettingPort", "EnablingSlot", "AddressingDevice"}
                     <=> addressing = p

\* The commands of a kind that the controller has not executed, and those whose
\* completion the driver has not handled.
CommandsOf(command) == {Command(command, s, p) : s \in {0} \cup Slots, p \in {0} \cup Ports}
CompletionsOf(command) == {CommandEvent(command, s) : s \in {0} \cup Slots}

InFlight(command) ==
  CountIn(commands, CommandsOf(command)) + CountIn(events, CompletionsOf(command))

\* The port being addressed is not stuck: what moves it on is on its way, a port
\* event or exactly one command or its completion, and no command is sent for a
\* port that is not being addressed.  Only a device that has gone or fails, or
\* the last slot being taken, can stop it.
AddressedPortMoves ==
  /\ unplugs = 0 /\ addressing # 0 /\ phase[addressing] = "ResettingPort" =>
       \E i \in 1 .. Len(events) : events[i] = PortEvent(addressing)
  /\ InFlight("EnableSlot")
       = IF addressing # 0 /\ phase[addressing] = "EnablingSlot" THEN 1 ELSE 0
  /\ InFlight("AddressDevice") <= 1
  /\ unplugs + failures = 0 /\ ~Device(0).there =>
       InFlight("AddressDevice")
         = IF addressing # 0 /\ phase[addressing] = "AddressingDevice" THEN 1 ELSE 0

\* No two slots have devices of one port, and from the time a port's device has
\* its address until the end there is such a slot, which the controller has
\* enabled.
SlotsBelongToPorts ==
  /\ \A s, t \in Slots : Device(s).port = Device(t).port /\ Device(s).port # 0 => s = t
  /\ \A p \in Ports :
       phase[p] \in {"InitializingDevice", "ConfiguringEndpoints", "Configured"} =>
         \E s \in enabled : Device(s).there /\ Device(s).port = p /\ Device(s).init > 0

ReportsFrom(s) == {TransferEvent(s, "Report", ok) : ok \in BOOLEAN}

\* A device has one buffer for its reports: never are two reports asked for, or
\* one asked for while another waits to be read, although the class driver is
\* told several times that the endpoints are configured.
OneReport ==
  \A s \in Slots : Device(s).reports + CountIn(events, ReportsFrom(s)) <= 1

\* A port with a device waits to be addressed (xhci.cpp:39) only as long as
\* another port is being addressed; otherwise nothing would ever reset it.
WaitingIsServed == (\E p \in WaitingPorts : portsc[p].ccs) => addressing # 0

\* Every device that is supported is configured in the end and asked for its
\* reports, unless a device is unplugged or fails, or there is no slot left for it
\* or for a device that came before it.
EveryDeviceConfigured ==
  \A p \in Supported :
    portsc[p].ccs ~>
      \/ phase[p] = "Configured" /\ \E s \in Slots : Device(s).port = p /\ Device(s).hid = 2
      \/ unplugs + failures > 0
      \/ Device(0).there /\ phase[p] \in {"WaitingAddressed", "AddressingDevice"}

============================================================================
