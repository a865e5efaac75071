----------------------------- MODULE UsbProofs -----------------------------
(***************************************************************************)
(* Proofs about the USB driver.  First about module UsbPorts: its          *)
(* invariants hold for every number of ports, slots and endpoints, however *)
(* often devices are plugged in, unplugged and fail.  Then about module    *)
(* UsbTransfers: its invariants hold for rings and maps of every size that *)
(* TransferSizes allows, whatever the device says of its interfaces and    *)
(* whatever is typed, and each of its transfer rings is a queue.           *)
(***************************************************************************)
EXTENDS UsbPorts, UsbTransfers, QueueLemmas

USE UsbAssumption

AnySlot == {0} \cup Slots

TransferNames == Transfers \cup {"Report"}

CommandType == {Command("EnableSlot", 0, 0)}
               \cup {Command("AddressDevice", s, p) : s \in AnySlot, p \in Ports}
               \cup {Command("ConfigureEndpoint", s, p) : s \in Slots, p \in Ports}

EventType == {PortEvent(p) : p \in Ports}
             \cup {CommandEvent("EnableSlot", s) : s \in AnySlot}
             \cup {CommandEvent("AddressDevice", s) : s \in AnySlot}
             \cup {CommandEvent("ConfigureEndpoint", s) : s \in Slots}
             \cup {TransferEvent(s, t, ok) : s \in Slots, t \in TransferNames, ok \in BOOLEAN}

----------------------------------------------------------------------------
(* What is in the two rings.                                               *)

PortSaid(q, p) == PortEvent(p) \in ToSet(q)
Finished(q, command, s) == CommandEvent(command, s) \in ToSet(q)
Transferred(q, s) ==
  \E t \in TransferNames, ok \in BOOLEAN : TransferEvent(s, t, ok) \in ToSet(q)
Asked(q, s, p) == Command("AddressDevice", s, p) \in ToSet(q)
Configuring(q, s) == \E p \in Ports : Command("ConfigureEndpoint", s, p) \in ToSet(q)

Done(q, command) == CountIn(q, CompletionsOf(command))
Sent(q, command) == CountIn(q, CommandsOf(command))
Reported(q, s) == CountIn(q, ReportsFrom(s))

\* Ring q holds what r does, and e.
Adds(q, r, e) ==
  /\ ToSet(q) = ToSet(r) \cup {e}
  /\ \A S : CountIn(q, S) = IF e \in S THEN CountIn(r, S) + 1 ELSE CountIn(r, S)

\* A ring to which something is appended.
LEMMA AppendAdds ==
  ASSUME NEW A, NEW q \in Seq(A), NEW e \in A
  PROVE  Append(q, e) \in Seq(A) /\ Adds(Append(q, e), q, e)
BY AppendToQueue, CountAppend DEF Adds

\* A ring from whose front something is taken.
LEMMA TailAdds ==
  ASSUME NEW A, NEW q \in Seq(A), q # << >>
  PROVE  /\ Tail(q) \in Seq(A) /\ Head(q) \in A /\ Head(q) \in ToSet(q)
         /\ Adds(q, Tail(q), Head(q))
<1>1. /\ Tail(q) \in Seq(A)
      /\ Len(Tail(q)) = Len(q) - 1
      /\ \A i \in 1 .. Len(Tail(q)) : Tail(q)[i] = q[i + 1]
      /\ Head(q) = q[1]
  BY HeadTailProperties
<1>2. /\ DOMAIN q = 1 .. Len(q) /\ Len(q) \in Nat \ {0}
      /\ DOMAIN Tail(q) = 1 .. (Len(q) - 1)
  BY <1>1, LenProperties, EmptySeq
<1>3. ToSet(q) = ToSet(Tail(q)) \cup {Head(q)}
  <2>1. ASSUME NEW i \in DOMAIN q PROVE q[i] \in ToSet(Tail(q)) \cup {Head(q)}
    <3>1. CASE i = 1
      BY <1>1, <3>1
    <3>2. CASE i # 1
      <4>1. i - 1 \in 1 .. Len(q) - 1 /\ (i - 1) + 1 = i
        BY <1>2, <3>2
      <4>2. Tail(q)[i - 1] = q[i]
        BY <1>1, <4>1
      <4> QED BY <1>2, <4>1, <4>2 DEF ToSet
    <3> QED BY <3>1, <3>2
  <2>2. ASSUME NEW i \in DOMAIN Tail(q) PROVE Tail(q)[i] \in ToSet(q)
    BY <1>1, <1>2 DEF ToSet
  <2>3. Head(q) \in ToSet(q)
    BY HeadInSet
  <2> QED BY <2>1, <2>2, <2>3 DEF ToSet
<1>4. Head(q) \in A
  BY HeadInSet
<1> QED
  BY <1>1, <1>3, <1>4, CountTail DEF Adds

\* A port event is no completion.
LEMMA PortAdded ==
  ASSUME NEW q, NEW r, NEW p, Adds(q, r, PortEvent(p))
  PROVE  /\ \A x : PortSaid(q, x) <=> x = p \/ PortSaid(r, x)
         /\ \A c, s : Finished(q, c, s) <=> Finished(r, c, s)
         /\ \A s : Transferred(q, s) <=> Transferred(r, s)
         /\ \A c : Done(q, c) = Done(r, c)
         /\ \A s : Reported(q, s) = Reported(r, s)
<1>1. \A c, s : PortEvent(p) # CommandEvent(c, s)
  BY DEF PortEvent, CommandEvent
<1>2. \A s, t, ok : PortEvent(p) # TransferEvent(s, t, ok)
  BY DEF PortEvent, TransferEvent
<1>3. \A x : PortEvent(p) = PortEvent(x) => x = p
  BY DEF PortEvent
<1> QED
  BY <1>1, <1>2, <1>3 DEF Adds, PortSaid, Finished, Transferred, Done, Reported,
                          CompletionsOf, ReportsFrom

\* The completion of a command counts as one of its kind.
LEMMA CompletionAdded ==
  ASSUME NEW q, NEW r, NEW c, NEW s \in AnySlot, Adds(q, r, CommandEvent(c, s))
  PROVE  /\ \A x : PortSaid(q, x) <=> PortSaid(r, x)
         /\ \A d, x : Finished(q, d, x) <=> (d = c /\ x = s) \/ Finished(r, d, x)
         /\ \A x : Transferred(q, x) <=> Transferred(r, x)
         /\ \A d : Done(q, d) = IF d = c THEN Done(r, d) + 1 ELSE Done(r, d)
         /\ \A x : Reported(q, x) = Reported(r, x)
<1>1. \A x : PortEvent(x) # CommandEvent(c, s)
  BY DEF PortEvent, CommandEvent
<1>2. \A x, t, ok : CommandEvent(c, s) # TransferEvent(x, t, ok)
  BY DEF CommandEvent, TransferEvent
<1>3. \A d, x : CommandEvent(c, s) = CommandEvent(d, x) <=> d = c /\ x = s
  BY DEF CommandEvent
<1>4. \A d : CommandEvent(c, s) \in CompletionsOf(d) <=> d = c
  BY <1>3 DEF CompletionsOf, AnySlot
<1> QED
  BY <1>1, <1>2, <1>3, <1>4 DEF Adds, PortSaid, Finished, Transferred, Done, Reported,
                                ReportsFrom

\* The completion of a transfer is a report or another.
LEMMA TransferAdded ==
  ASSUME NEW q, NEW r, NEW s, NEW t \in TransferNames, NEW ok \in BOOLEAN,
         Adds(q, r, TransferEvent(s, t, ok))
  PROVE  /\ \A x : PortSaid(q, x) <=> PortSaid(r, x)
         /\ \A c, x : Finished(q, c, x) <=> Finished(r, c, x)
         /\ \A x : Transferred(q, x) <=> x = s \/ Transferred(r, x)
         /\ \A c : Done(q, c) = Done(r, c)
         /\ \A x : Reported(q, x) = IF x = s /\ t = "Report" THEN Reported(r, x) + 1
                                                            ELSE Reported(r, x)
<1>1. \A x : PortEvent(x) # TransferEvent(s, t, ok)
  BY DEF PortEvent, TransferEvent
<1>2. \A c, x : CommandEvent(c, x) # TransferEvent(s, t, ok)
  BY DEF CommandEvent, TransferEvent
<1>3. \A x, u, b : TransferEvent(s, t, ok) = TransferEvent(x, u, b)
                     <=> s = x /\ t = u /\ ok = b
  BY DEF TransferEvent
<1>4. \A x : TransferEvent(s, t, ok) \in ReportsFrom(x) <=> x = s /\ t = "Report"
  BY <1>3 DEF ReportsFrom
<1> QED
  BY <1>1, <1>2, <1>3, <1>4 DEF Adds, PortSaid, Finished, Transferred, Done, Reported,
                                CompletionsOf

\* A command counts as one of its kind.
LEMMA CommandAdded ==
  ASSUME NEW q, NEW r, NEW c, NEW s \in AnySlot, NEW p \in {0} \cup Ports,
         Adds(q, r, Command(c, s, p))
  PROVE  /\ \A x, y : Asked(q, x, y) <=> (c = "AddressDevice" /\ x = s /\ y = p) \/ Asked(r, x, y)
         /\ \A x : Configuring(q, x) => (c = "ConfigureEndpoint" /\ x = s) \/ Configuring(r, x)
         /\ \A x : Configuring(r, x) => Configuring(q, x)
         /\ p \in Ports /\ c = "ConfigureEndpoint" => Configuring(q, s)
         /\ \A d : Sent(q, d) = IF d = c THEN Sent(r, d) + 1 ELSE Sent(r, d)
<1>1. \A d, x, y : Command(c, s, p) = Command(d, x, y) <=> d = c /\ x = s /\ y = p
  BY DEF Command
<1>2. \A d : Command(c, s, p) \in CommandsOf(d) <=> d = c
  BY <1>1 DEF CommandsOf, AnySlot
<1> QED
  BY <1>1, <1>2 DEF Adds, Asked, Configuring, Sent

\* What is counted as zero is not there.
LEMMA CountedEvents ==
  ASSUME NEW q \in Seq(EventType)
  PROVE  /\ \A c : Done(q, c) \in Nat
         /\ \A c : Done(q, c) = 0 => \A s \in AnySlot : ~Finished(q, c, s)
         /\ \A s : Reported(q, s) \in Nat
<1>1. \A c : Done(q, c) \in Nat
  BY CountType DEF Done
<1>2. \A s : Reported(q, s) \in Nat
  BY CountType DEF Reported
<1>3. ASSUME NEW c, Done(q, c) = 0, NEW s \in AnySlot PROVE ~Finished(q, c, s)
  <2>1. ToSet(q) \cap CompletionsOf(c) = {}
    BY <1>3, CountType DEF Done
  <2> QED BY <2>1 DEF Finished, CompletionsOf, AnySlot
<1> QED
  BY <1>1, <1>2, <1>3

LEMMA CountedCommands ==
  ASSUME NEW q \in Seq(CommandType)
  PROVE  /\ \A c : Sent(q, c) \in Nat
         /\ Sent(q, "AddressDevice") = 0 => \A s \in AnySlot, p \in Ports : ~Asked(q, s, p)
<1>1. \A c : Sent(q, c) \in Nat
  BY CountType DEF Sent
<1>2. ASSUME Sent(q, "AddressDevice") = 0, NEW s \in AnySlot, NEW p \in Ports
      PROVE  ~Asked(q, s, p)
  <2>1. ToSet(q) \cap CommandsOf("AddressDevice") = {}
    BY <1>2, CountType DEF Sent
  <2>2. s \in {0} \cup Slots /\ p \in {0} \cup Ports
    BY DEF AnySlot
  <2>3. Command("AddressDevice", s, p) \in CommandsOf("AddressDevice")
    BY <2>2 DEF CommandsOf, Command
  <2> QED BY <2>1, <2>3 DEF Asked
<1> QED
  BY <1>1, <1>2

\* The kinds of events and commands by their types.
LEMMA KindsOfEvents ==
  ASSUME NEW e \in EventType
  PROVE  /\ e.type = "port" => \E p \in Ports : e = PortEvent(p)
         /\ e.type = "command" /\ e.of = "EnableSlot" =>
              \E s \in AnySlot : e = CommandEvent("EnableSlot", s)
         /\ e.type = "command" /\ e.of = "AddressDevice" =>
              \E s \in AnySlot : e = CommandEvent("AddressDevice", s)
         /\ e.type = "command" /\ e.of = "ConfigureEndpoint" =>
              \E s \in Slots : e = CommandEvent("ConfigureEndpoint", s)
         /\ e.type = "transfer" =>
              \E s \in Slots, t \in TransferNames, ok \in BOOLEAN : e = TransferEvent(s, t, ok)
BY DEF EventType, PortEvent, CommandEvent, TransferEvent

LEMMA KindsOfCommands ==
  ASSUME NEW c \in CommandType
  PROVE  /\ c.type = "EnableSlot" => c = Command("EnableSlot", 0, 0)
         /\ c.type = "AddressDevice" =>
              \E s \in AnySlot, p \in Ports : c = Command("AddressDevice", s, p)
         /\ c.type = "ConfigureEndpoint" =>
              \E s \in Slots, p \in Ports : c = Command("ConfigureEndpoint", s, p)
BY DEF CommandType, Command

----------------------------------------------------------------------------
(* The inductive invariant.                                                *)

DeviceType == [there : BOOLEAN, port : {0} \cup Ports, init : 0 .. 4, hid : 0 .. 2,
               control : Seq(Transfers), reports : Nat]

\* A device with some of its fields changed.
LEMMA DeviceChanged ==
  ASSUME NEW d \in DeviceType, NEW c \in Seq(Transfers)
  PROVE  /\ [d EXCEPT !.control = c] \in DeviceType
         /\ \A i \in 0 .. 4 : [d EXCEPT !.init = i] \in DeviceType
         /\ \A i \in 0 .. 4 : [d EXCEPT !.init = i, !.control = c] \in DeviceType
         /\ \A h \in 0 .. 2 : [d EXCEPT !.hid = h, !.control = c] \in DeviceType
         /\ \A n \in Nat : [d EXCEPT !.reports = n] \in DeviceType
         /\ \A h \in 0 .. 2, n \in Nat : [d EXCEPT !.hid = h, !.reports = n] \in DeviceType
         /\ \A p \in {0} \cup Ports : [d EXCEPT !.port = p] \in DeviceType
<1>1. [d EXCEPT !.control = c] \in DeviceType
  BY Zenon DEF DeviceType
<1>2. ASSUME NEW i \in 0 .. 4
      PROVE  /\ [d EXCEPT !.init = i] \in DeviceType
             /\ [d EXCEPT !.init = i, !.control = c] \in DeviceType
  BY Zenon DEF DeviceType
<1>3. ASSUME NEW h \in 0 .. 2
      PROVE  [d EXCEPT !.hid = h, !.control = c] \in DeviceType
  BY Zenon DEF DeviceType
<1>4. ASSUME NEW h \in 0 .. 2, NEW n \in Nat
      PROVE  /\ [d EXCEPT !.reports = n] \in DeviceType
             /\ [d EXCEPT !.hid = h, !.reports = n] \in DeviceType
  BY Zenon DEF DeviceType
<1>5. ASSUME NEW p \in {0} \cup Ports
      PROVE  [d EXCEPT !.port = p] \in DeviceType
  BY Zenon DEF DeviceType
<1>6. 0 \in 0 .. 2
  OBVIOUS
<1>7. \A n \in Nat : [d EXCEPT !.reports = n] \in DeviceType
  BY <1>4, <1>6
<1> QED
  BY <1>1, <1>2, <1>3, <1>4, <1>5, <1>7

PortscType == [ccs : BOOLEAN, ped : BOOLEAN, csc : BOOLEAN, prc : BOOLEAN]

Typed ==
  /\ boot \in 1 .. MaxPorts + 1
  /\ phase \in [Ports -> Phases] /\ addressing \in {0} \cup Ports
  /\ devices \in [AnySlot -> DeviceType]
  /\ commands \in Seq(CommandType) /\ events \in Seq(EventType)
  /\ portsc \in [Ports -> PortscType]
  /\ enabled \subseteq Slots
  /\ unplugs \in Nat /\ failures \in Nat

AddressingPhases == {"ResettingPort", "EnablingSlot", "AddressingDevice"}
AddressedPhases == {"InitializingDevice", "ConfiguringEndpoints", "Configured"}

\* The port that is being addressed, and no other, is in one of these phases.
OnePort == \A p \in Ports : phase[p] \in AddressingPhases <=> addressing = p

AddressingIn(ph) == addressing # 0 /\ phase[addressing] = ph

NoFaults == unplugs = 0 /\ failures = 0 /\ ~devices[0].there

\* What the controller reports of a port that has been reset.
PortState ==
  /\ \A p \in Ports : phase[p] = "ResettingPort" => portsc[p].prc
  /\ \A p \in Ports : unplugs = 0 /\ phase[p] \notin {"NotConnected", "WaitingAddressed"} =>
                        portsc[p].ped
  /\ unplugs = 0 /\ AddressingIn("ResettingPort") => PortSaid(events, addressing)

\* How many commands to enable a slot and to address a device are on their way.
InFlightState ==
  /\ Sent(commands, "EnableSlot") + Done(events, "EnableSlot")
       = IF AddressingIn("EnablingSlot") THEN 1 ELSE 0
  /\ Sent(commands, "AddressDevice") + Done(events, "AddressDevice")
       <= IF AddressingIn("AddressingDevice") THEN 1 ELSE 0
  /\ NoFaults /\ AddressingIn("AddressingDevice") =>
       Sent(commands, "AddressDevice") + Done(events, "AddressDevice") = 1

\* A slot has no device until the driver has handled that it is enabled.
EnableState ==
  /\ \A s \in Slots : Finished(events, "EnableSlot", s) => s \in enabled /\ devices[s] = NoDevice
  /\ \A s \in Slots \ enabled : devices[s] = NoDevice

\* The command to address a device is for a device that has no port yet, and for a
\* port that has no device yet.
AddressState ==
  /\ \A s \in AnySlot, p \in Ports :
       Asked(commands, s, p) =>
         /\ p = addressing
         /\ devices[s].there /\ devices[s].port = 0 /\ devices[s].init = 0
         /\ \A t \in Slots : devices[t].port # p
  /\ \A s \in AnySlot :
       Finished(events, "AddressDevice", s) =>
         /\ devices[s].there
         /\ s # 0 /\ NoFaults => devices[s].port = addressing

\* How far a device and its class driver are, and the phase of its port.
DeviceState ==
  \A s \in AnySlot :
    /\ devices[s].port # 0 =>
         /\ s # 0 /\ devices[s].there
         /\ phase[devices[s].port] \in AddressedPhases \cup {"AddressingDevice"}
    /\ devices[s].init > 0 =>
         devices[s].port # 0 /\ phase[devices[s].port] \in AddressedPhases
    /\ devices[s].hid > 0 => devices[s].init > 0 /\ phase[devices[s].port] = "Configured"
    /\ devices[s].init = 0 => devices[s].control = << >> /\ devices[s].reports = 0

OneSlotEach ==
  /\ \A s, t \in Slots : devices[s].port = devices[t].port /\ devices[s].port # 0 => s = t
  /\ \A p \in Ports : phase[p] \in AddressedPhases =>
       \E s \in enabled : devices[s].there /\ devices[s].port = p /\ devices[s].init > 0

\* Whatever else is on its way is to or from a device that is initialized.
TransferState ==
  \A s \in Slots :
    \/ Configuring(commands, s)
    \/ Finished(events, "ConfigureEndpoint", s)
    \/ Transferred(events, s)
    => devices[s].init > 0

\* The first report is asked for when the class driver has come to its last phase.
ReportState ==
  \A s \in Slots : devices[s].reports + Reported(events, s)
                     <= IF devices[s].hid = 2 THEN 1 ELSE 0

UsbInv == /\ Typed /\ OnePort /\ PortState /\ InFlightState /\ EnableState /\ AddressState
          /\ DeviceState /\ OneSlotEach /\ TransferState /\ ReportState

----------------------------------------------------------------------------
(* The steps at the ports.                                                 *)

\* A port event more and no other change of the rings.
LEMMA PortEventSent ==
  ASSUME NEW q \in Seq(EventType), NEW p \in Ports
  PROVE  LET r == Append(q, PortEvent(p))
         IN  /\ r \in Seq(EventType)
             /\ \A x : PortSaid(r, x) <=> x = p \/ PortSaid(q, x)
             /\ \A c, s : Finished(r, c, s) <=> Finished(q, c, s)
             /\ \A s : Transferred(r, s) <=> Transferred(q, s)
             /\ \A c : Done(r, c) = Done(q, c)
             /\ \A s : Reported(r, s) = Reported(q, s)
<1>1. PortEvent(p) \in EventType
  BY DEF EventType
<1> QED
  BY <1>1, AppendAdds, PortAdded

\* Plugging in and unplugging change nothing but PORTSC.
LEMMA PortChangeKeepsUsbInv ==
  ASSUME UsbInv, NEW p \in Ports,
         events' = events \/ events' = Append(events, PortEvent(p)),
         portsc' \in [Ports -> PortscType],
         \A x \in Ports : portsc'[x].prc = portsc[x].prc,
         unplugs' \in Nat, unplugs' >= unplugs,
         unplugs' = 0 => \A x \in Ports : portsc'[x].ped = portsc[x].ped,
         UNCHANGED <<boot, phase, addressing, devices, commands, enabled, failures>>
  PROVE  UsbInv'
<1>1. /\ events' \in Seq(EventType)
      /\ \A x : PortSaid(events, x) => PortSaid(events', x)
      /\ \A c, s : Finished(events', c, s) <=> Finished(events, c, s)
      /\ \A s : Transferred(events', s) <=> Transferred(events, s)
      /\ \A c : Done(events', c) = Done(events, c)
      /\ \A s : Reported(events', s) = Reported(events, s)
  <2>1. CASE events' = events
    BY <2>1 DEF UsbInv, Typed
  <2>2. CASE events' = Append(events, PortEvent(p))
    <3>1. events \in Seq(EventType)
      BY DEF UsbInv, Typed
    <3> QED BY <2>2, <3>1, PortEventSent
  <2> QED BY <2>1, <2>2
<1>2. unplugs' = 0 => unplugs = 0
  BY DEF UsbInv, Typed
<1>3. NoFaults' => NoFaults
  BY <1>2 DEF NoFaults
<1>4. \A ph : AddressingIn(ph)' <=> AddressingIn(ph)
  BY DEF AddressingIn
<1>5. Typed'
  BY <1>1 DEF UsbInv, Typed
<1>6. OnePort' /\ DeviceState' /\ OneSlotEach'
  BY DEF UsbInv, OnePort, DeviceState, OneSlotEach
<1>7. PortState'
  BY <1>1, <1>2, <1>4 DEF UsbInv, PortState
<1>8. InFlightState'
  BY <1>1, <1>3, <1>4 DEF UsbInv, InFlightState
<1>9. EnableState'
  BY <1>1 DEF UsbInv, EnableState
<1>10. AddressState'
  BY <1>1, <1>3 DEF UsbInv, AddressState
<1>11. TransferState'
  BY <1>1 DEF UsbInv, TransferState
<1>12. ReportState'
  BY <1>1 DEF UsbInv, ReportState
<1> QED
  BY <1>5, <1>6, <1>7, <1>8, <1>9, <1>10, <1>11, <1>12 DEF UsbInv

LEMMA PlugKeepsUsbInv ==
  ASSUME UsbInv, NEW p \in Ports, Plug(p) \/ Unplug(p)
  PROVE  UsbInv'
<1>1. events' = events \/ events' = Append(events, PortEvent(p))
  <2>1. \E e \in Announced(p, portsc[p]) : events' = events \o e
    BY DEF Plug, Unplug
  <2>2. events \in Seq(EventType)
    BY DEF UsbInv, Typed
  <2>3. Announced(p, portsc[p]) \subseteq {<< >>, <<PortEvent(p)>>}
    BY DEF Announced, UsbInv, Typed, PortscType
  <2>4. events \o << >> = events /\ events \o <<PortEvent(p)>> = Append(events, PortEvent(p))
    BY <2>2
  <2> QED BY <2>1, <2>3, <2>4
<1>2. portsc \in [Ports -> PortscType]
  BY DEF UsbInv, Typed
<1>3. CASE Plug(p)
  <2>1. /\ portsc' \in [Ports -> PortscType]
        /\ \A x \in Ports : portsc'[x].prc = portsc[x].prc /\ portsc'[x].ped = portsc[x].ped
    BY <1>2, <1>3 DEF Plug, PortscType
  <2>2. unplugs' \in Nat /\ unplugs' >= unplugs
    BY <1>3 DEF Plug, faults, UsbInv, Typed
  <2> QED
    BY <1>1, <1>3, <2>1, <2>2, PortChangeKeepsUsbInv
       DEF Plug, ControllerUnchanged, driver, faults
<1>4. CASE Unplug(p)
  <2>2. /\ portsc' \in [Ports -> PortscType]
        /\ \A x \in Ports : portsc'[x].prc = portsc[x].prc
    BY ZenonT(40), <1>2, <1>4 DEF Unplug, PortscType
  <2>1. unplugs' \in Nat /\ unplugs' >= unplugs /\ unplugs' # 0
    BY <1>4 DEF Unplug, UsbInv, Typed
  <2> QED
    BY <1>1, <1>4, <2>1, <2>2, PortChangeKeepsUsbInv
       DEF Unplug, ControllerUnchanged, driver
<1> QED
  BY <1>3, <1>4

\* ResetPort resets the port, or has it wait, or does nothing.
LEMMA ResetPortCases ==
  ASSUME NEW p \in Ports, NEW a, NEW ph, NEW q, ResetPort(p, a, ph, q),
         portsc \in [Ports -> PortscType]
  PROVE  \/ /\ a = 0 /\ ph[p] \in {"NotConnected", "WaitingAddressed"}
            /\ phase' = [ph EXCEPT ![p] = "ResettingPort"] /\ addressing' = p
            /\ events' = Append(q, PortEvent(p))
            /\ portsc' \in [Ports -> PortscType]
            /\ \A x \in Ports : /\ portsc'[x].prc <=> x = p \/ portsc[x].prc
                                /\ portsc'[x].ped <=> x = p \/ portsc[x].ped
         \/ /\ \/ phase' = ph
               \/ a # 0 /\ phase' = [ph EXCEPT ![p] = "WaitingAddressed"]
            /\ addressing' = a /\ events' = q /\ portsc' = portsc
<1> DEFINE resets == portsc[p].ccs /\ a = 0 /\ ph[p] \in {"NotConnected", "WaitingAddressed"}
           after  == [portsc EXCEPT ![p].ped = TRUE, ![p].csc = FALSE, ![p].prc = TRUE]
<1>1. CASE resets
  <2>1. /\ phase' = [ph EXCEPT ![p] = "ResettingPort"] /\ addressing' = p
        /\ events' = Append(q, PortEvent(p)) /\ portsc' = after
    BY <1>1 DEF ResetPort
  <2>2. /\ after \in [Ports -> PortscType]
        /\ \A x \in Ports : /\ after[x].prc <=> x = p \/ portsc[x].prc
                            /\ after[x].ped <=> x = p \/ portsc[x].ped
    <3>1. \A x \in Ports : portsc[x] \in PortscType
      OBVIOUS
    <3>2. /\ after = [x \in Ports |-> after[x]]
          /\ \A x \in Ports : after[x] = IF x = p THEN [portsc[p] EXCEPT !.ped = TRUE, !.csc = FALSE, !.prc = TRUE]
                                         ELSE portsc[x]
      OBVIOUS
    <3> HIDE DEF after
    <3>3. \A x \in Ports : /\ after[x] \in PortscType
                           /\ after[x].prc <=> x = p \/ portsc[x].prc
                           /\ after[x].ped <=> x = p \/ portsc[x].ped
      BY <3>1, <3>2 DEF PortscType
    <3> QED BY <3>2, <3>3
  <2> HIDE DEF after
  <2> QED BY <1>1, <2>1, <2>2
<1>2. CASE ~resets
  BY <1>2 DEF ResetPort
<1> QED
  BY <1>1, <1>2

\* What is left of the event ring when an event has been taken.
LEMMA EventTaken ==
  ASSUME NEW q \in Seq(EventType), q # << >>
  PROVE  /\ Tail(q) \in Seq(EventType)
         /\ Head(q) \in EventType
         /\ \A x : PortSaid(q, x) <=> Head(q) = PortEvent(x) \/ PortSaid(Tail(q), x)
         /\ \A c, s : Finished(Tail(q), c, s) => Finished(q, c, s)
         /\ \A s : Transferred(Tail(q), s) => Transferred(q, s)
         /\ \A c : Done(q, c) = IF \E s \in AnySlot : Head(q) = CommandEvent(c, s)
                                THEN Done(Tail(q), c) + 1 ELSE Done(Tail(q), c)
         /\ \A s : Reported(Tail(q), s) <= Reported(q, s)
<1>1. /\ Tail(q) \in Seq(EventType) /\ Head(q) \in EventType
      /\ Adds(q, Tail(q), Head(q))
  BY TailAdds
<1>2. /\ \A x : PortSaid(q, x) <=> Head(q) = PortEvent(x) \/ PortSaid(Tail(q), x)
      /\ \A c, s : Finished(Tail(q), c, s) => Finished(q, c, s)
      /\ \A s : Transferred(Tail(q), s) => Transferred(q, s)
  BY <1>1 DEF Adds, PortSaid, Finished, Transferred
<1>3. \A c : Done(q, c) = IF \E s \in AnySlot : Head(q) = CommandEvent(c, s)
                          THEN Done(Tail(q), c) + 1 ELSE Done(Tail(q), c)
  BY <1>1 DEF Adds, Done, CompletionsOf, AnySlot
<1>4. \A s : Reported(Tail(q), s) <= Reported(q, s)
  <2> TAKE s
  <2>1. Reported(Tail(q), s) \in Nat
    BY <1>1, CountedEvents
  <2>2. Reported(q, s) = Reported(Tail(q), s) \/ Reported(q, s) = Reported(Tail(q), s) + 1
    BY <1>1 DEF Adds, Reported
  <2> QED BY <2>1, <2>2
<1> QED
  BY <1>1, <1>2, <1>3, <1>4

\* The port that is being addressed is not one whose device is to be configured, and
\* its phase is one of the three.
LEMMA AddressedPort ==
  ASSUME UsbInv
  PROVE  /\ addressing # 0 => addressing \in Ports /\ phase[addressing] \in AddressingPhases
         /\ \A p \in Ports : phase[p] \notin AddressingPhases => addressing # p
BY DEF UsbInv, Typed, OnePort

\* A port that was not connected is reset, or waits, from Initialize or because of
\* an event.
LEMMA ResetKeepsUsbInv ==
  ASSUME UsbInv, NEW p \in Ports, phase[p] = "NotConnected",
         NEW q, \/ q = events
                \/ events # << >> /\ Head(events) = PortEvent(p) /\ q = Tail(events),
         ResetPort(p, addressing, phase, q), boot' \in 1 .. MaxPorts + 1,
         UNCHANGED <<devices, commands, enabled, unplugs, failures>>
  PROVE  UsbInv'
<1>0. /\ events \in Seq(EventType) /\ portsc \in [Ports -> PortscType]
      /\ phase \in [Ports -> Phases] /\ addressing \in {0} \cup Ports /\ 0 \notin Ports
  BY DEF UsbInv, Typed, Ports
<1>1. /\ q \in Seq(EventType)
      /\ \A x : PortSaid(events, x) => x = p \/ PortSaid(q, x)
      /\ \A c, s : Finished(q, c, s) <=> Finished(events, c, s)
      /\ \A s : Transferred(q, s) <=> Transferred(events, s)
      /\ \A c : Done(q, c) = Done(events, c)
      /\ \A s : Reported(q, s) = Reported(events, s)
  <2>1. CASE q = events
    BY <2>1, <1>0
  <2>2. CASE events # << >> /\ Head(events) = PortEvent(p) /\ q = Tail(events)
    <3>1. q \in Seq(EventType) /\ Adds(events, q, PortEvent(p))
      BY <2>2, <1>0, TailAdds
    <3> QED BY <3>1, PortAdded
  <2> QED BY <2>1, <2>2
<1>2. NoFaults' <=> NoFaults
  BY DEF NoFaults
<1>3. addressing # p
  BY AddressedPort DEF AddressingPhases
<1>4. CASE /\ addressing = 0
           /\ phase' = [phase EXCEPT ![p] = "ResettingPort"] /\ addressing' = p
           /\ events' = Append(q, PortEvent(p))
           /\ portsc' \in [Ports -> PortscType]
           /\ \A x \in Ports : /\ portsc'[x].prc <=> x = p \/ portsc[x].prc
                               /\ portsc'[x].ped <=> x = p \/ portsc[x].ped
  <2>1. /\ events' \in Seq(EventType)
        /\ PortSaid(events', p)
        /\ \A c, s : Finished(events', c, s) <=> Finished(events, c, s)
        /\ \A s : Transferred(events', s) <=> Transferred(events, s)
        /\ \A c : Done(events', c) = Done(events, c)
        /\ \A s : Reported(events', s) = Reported(events, s)
    BY <1>1, <1>4, PortEventSent
  <2>2. /\ phase' \in [Ports -> Phases]
        /\ \A x \in Ports : phase'[x] = IF x = p THEN "ResettingPort" ELSE phase[x]
    BY <1>0, <1>4 DEF Phases
  <2>3. Typed'
    BY <1>4, <2>1, <2>2 DEF UsbInv, Typed
  <2>4. OnePort'
    BY <1>0, <1>4, <2>2 DEF UsbInv, OnePort, AddressingPhases
  <2>5. PortState'
    BY <1>4, <2>1, <2>2 DEF UsbInv, PortState, AddressingIn
  <2>6. InFlightState'
    <3>1. ~AddressingIn("EnablingSlot") /\ ~AddressingIn("AddressingDevice")
      BY <1>4 DEF AddressingIn
    <3>2. ~AddressingIn("EnablingSlot")' /\ ~AddressingIn("AddressingDevice")'
      BY <1>4, <2>2 DEF AddressingIn
    <3> QED BY <2>1, <3>1, <3>2 DEF UsbInv, InFlightState
  <2>7. EnableState'
    BY <2>1 DEF UsbInv, EnableState
  <2>8. AddressState'
    <3>1. \A s \in AnySlot, x \in Ports : ~Asked(commands, s, x)
      BY <1>0, <1>4 DEF UsbInv, AddressState
    <3>2. \A s \in AnySlot : ~Finished(events, "AddressDevice", s)
      <4>1. /\ Sent(commands, "AddressDevice") \in Nat /\ Done(events, "AddressDevice") \in Nat
            /\ Sent(commands, "AddressDevice") + Done(events, "AddressDevice") <= 0
        BY <1>4, CountedEvents, CountedCommands DEF UsbInv, Typed, InFlightState, AddressingIn
      <4>2. Done(events, "AddressDevice") = 0
        BY <4>1
      <4> QED BY <1>0, <4>2, CountedEvents
    <3> QED BY <2>1, <3>1, <3>2 DEF AddressState
  <2>9. DeviceState' /\ OneSlotEach'
    <3>1. \A s \in AnySlot : devices[s].port # 0 => devices[s].port \in Ports
      BY DEF UsbInv, Typed, DeviceType
    <3>2. \A s \in AnySlot : devices[s].port # 0 => phase'[devices[s].port] = phase[devices[s].port]
      BY <2>2, <3>1 DEF UsbInv, DeviceState, AddressedPhases
    <3>3. DeviceState'
      BY <3>2 DEF UsbInv, DeviceState
    <3>4. OneSlotEach'
      BY <2>2 DEF UsbInv, OneSlotEach, AddressedPhases
    <3> QED BY <3>3, <3>4
  <2>10. TransferState' /\ ReportState'
    BY <2>1 DEF UsbInv, TransferState, ReportState
  <2> QED
    BY <2>3, <2>4, <2>5, <2>6, <2>7, <2>8, <2>9, <2>10 DEF UsbInv
<1>5. CASE /\ \/ phase' = phase
              \/ addressing # 0 /\ phase' = [phase EXCEPT ![p] = "WaitingAddressed"]
           /\ addressing' = addressing /\ events' = q /\ portsc' = portsc
  <2>1. /\ phase' \in [Ports -> Phases]
        /\ \A x \in Ports : x # p => phase'[x] = phase[x]
        /\ phase'[p] \in {"NotConnected", "WaitingAddressed"}
    BY <1>0, <1>5 DEF Phases
  <2>2. \A ph : AddressingIn(ph)' <=> AddressingIn(ph)
    BY <1>0, <1>3, <1>5, <2>1 DEF AddressingIn
  <2>3. Typed'
    BY <1>1, <1>5, <2>1 DEF UsbInv, Typed
  <2>4. OnePort'
    BY <1>3, <1>5, <2>1 DEF UsbInv, OnePort, AddressingPhases
  <2>5. PortState'
    BY <1>1, <1>3, <1>5, <2>1, <2>2 DEF UsbInv, PortState
  <2>6. InFlightState'
    BY <1>1, <1>2, <1>5, <2>2 DEF UsbInv, InFlightState
  <2>7. EnableState' /\ TransferState' /\ ReportState'
    BY <1>1, <1>5 DEF UsbInv, EnableState, TransferState, ReportState
  <2>8. AddressState'
    BY <1>1, <1>2, <1>5 DEF UsbInv, AddressState
  <2>9. DeviceState' /\ OneSlotEach'
    <3>1. \A s \in AnySlot : devices[s].port # 0 => devices[s].port \in Ports
      BY DEF UsbInv, Typed, DeviceType
    <3>2. \A s \in AnySlot : devices[s].port # 0 => phase'[devices[s].port] = phase[devices[s].port]
      BY <2>1, <3>1 DEF UsbInv, DeviceState, AddressedPhases
    <3>3. DeviceState'
      BY <3>2 DEF UsbInv, DeviceState
    <3>4. OneSlotEach'
      BY <2>1 DEF UsbInv, OneSlotEach, AddressedPhases
    <3> QED BY <3>3, <3>4
  <2> QED
    BY <2>3, <2>4, <2>5, <2>6, <2>7, <2>8, <2>9 DEF UsbInv
<1> QED
  BY <1>0, <1>4, <1>5, ResetPortCases

\* Turns of the loop of Initialize.
LEMMA ConfigurePortKeepsUsbInv == UsbInv /\ ConfigurePort => UsbInv'
<1> SUFFICES ASSUME UsbInv, ConfigurePort PROVE UsbInv'
  OBVIOUS
<1>1. boot \in Ports /\ boot' \in 1 .. MaxPorts + 1
  BY DEF ConfigurePort, UsbInv, Typed, Ports
<1>2. UNCHANGED <<devices, commands, enabled, unplugs, failures>>
  BY DEF ConfigurePort, faults
<1>3. CASE portsc[boot].ccs /\ phase[boot] = "NotConnected"
  BY <1>1, <1>2, <1>3, ResetKeepsUsbInv DEF ConfigurePort
<1>4. CASE ~(portsc[boot].ccs /\ phase[boot] = "NotConnected")
  <2>1. UNCHANGED <<phase, addressing, portsc, events>>
    BY <1>4 DEF ConfigurePort
  <2> QED
    BY <1>1, <1>2, <2>1 DEF UsbInv, Typed, OnePort, PortState, InFlightState, EnableState,
                            AddressState, DeviceState, OneSlotEach, TransferState, ReportState,
                            AddressingIn, NoFaults
<1> QED
  BY <1>3, <1>4

----------------------------------------------------------------------------
(* The steps of ProcessEvents.                                             *)

\* An event that is ignored is not one that moves the port being addressed on.
LEMMA IgnoredKeepsUsbInv ==
  ASSUME UsbInv, events # << >>, Ignored, EventUnchanged,
         \A p \in Ports : Head(events) = PortEvent(p) =>
                            ~(unplugs = 0 /\ phase[p] = "ResettingPort"),
         \A s \in AnySlot : Head(events) = CommandEvent("EnableSlot", s) =>
                              ~AddressingIn("EnablingSlot"),
         \A s \in AnySlot : Head(events) = CommandEvent("AddressDevice", s) =>
                              ~(NoFaults /\ AddressingIn("AddressingDevice"))
  PROVE  UsbInv'
<1>0. events \in Seq(EventType) /\ commands \in Seq(CommandType)
  BY DEF UsbInv, Typed
<1>1. /\ events' = Tail(events)
      /\ UNCHANGED <<boot, phase, addressing, devices, commands, portsc, enabled, unplugs, failures>>
  BY DEF Ignored, Rest, EventUnchanged, faults
<1>2. /\ events' \in Seq(EventType)
      /\ \A x : PortSaid(events, x) <=> Head(events) = PortEvent(x) \/ PortSaid(events', x)
      /\ \A c, s : Finished(events', c, s) => Finished(events, c, s)
      /\ \A s : Transferred(events', s) => Transferred(events, s)
      /\ \A c : Done(events, c) = IF \E s \in AnySlot : Head(events) = CommandEvent(c, s)
                                  THEN Done(events', c) + 1 ELSE Done(events', c)
      /\ \A s : Reported(events', s) <= Reported(events, s)
  BY <1>0, <1>1, EventTaken
<1>3. /\ \A c : Done(events, c) \in Nat /\ Done(events', c) \in Nat /\ Sent(commands, c) \in Nat
      /\ \A s : Reported(events, s) \in Nat /\ Reported(events', s) \in Nat
  BY <1>0, <1>2, CountedEvents, CountedCommands
<1>4. NoFaults' <=> NoFaults
  BY <1>1 DEF NoFaults
<1>5. \A ph : AddressingIn(ph)' <=> AddressingIn(ph)
  BY <1>1 DEF AddressingIn
<1>6. Typed'
  BY <1>1, <1>2 DEF UsbInv, Typed
<1>7. OnePort' /\ DeviceState' /\ OneSlotEach'
  BY <1>1 DEF UsbInv, OnePort, DeviceState, OneSlotEach
<1>8. PortState'
  BY <1>1, <1>2, <1>5, AddressedPort DEF UsbInv, PortState, AddressingIn
<1>9. InFlightState'
  <2>1. Sent(commands, "EnableSlot") + Done(events', "EnableSlot")
          = IF AddressingIn("EnablingSlot") THEN 1 ELSE 0
    <3>1. CASE \E s \in AnySlot : Head(events) = CommandEvent("EnableSlot", s)
      <4>1. ~AddressingIn("EnablingSlot")
        BY <3>1
      <4>2. Done(events, "EnableSlot") = Done(events', "EnableSlot") + 1
        BY <1>2, <3>1
      <4>3. Sent(commands, "EnableSlot") + Done(events, "EnableSlot") = 0
        BY <4>1 DEF UsbInv, InFlightState
      <4> QED BY <1>3, <4>2, <4>3
    <3>2. CASE ~(\E s \in AnySlot : Head(events) = CommandEvent("EnableSlot", s))
      BY <1>2, <3>2 DEF UsbInv, InFlightState
    <3> QED BY <3>1, <3>2
  <2>2. Sent(commands, "AddressDevice") + Done(events', "AddressDevice")
          <= IF AddressingIn("AddressingDevice") THEN 1 ELSE 0
    <3>1. Sent(commands, "AddressDevice") + Done(events, "AddressDevice")
            <= IF AddressingIn("AddressingDevice") THEN 1 ELSE 0
      BY DEF UsbInv, InFlightState
    <3>2. Done(events', "AddressDevice") <= Done(events, "AddressDevice")
      BY <1>2, <1>3
    <3> QED BY <1>3, <3>1, <3>2
  <2>3. NoFaults /\ AddressingIn("AddressingDevice") =>
          Sent(commands, "AddressDevice") + Done(events', "AddressDevice") = 1
    BY <1>2 DEF UsbInv, InFlightState
  <2> QED BY <1>1, <1>4, <1>5, <2>1, <2>2, <2>3 DEF InFlightState
<1>10. EnableState' /\ TransferState'
  BY <1>1, <1>2 DEF UsbInv, EnableState, TransferState
<1>11. AddressState'
  BY <1>1, <1>2, <1>4 DEF UsbInv, AddressState
<1>12. ReportState'
  <2> SUFFICES ASSUME NEW s \in Slots
               PROVE  devices[s].reports + Reported(events', s)
                        <= IF devices[s].hid = 2 THEN 1 ELSE 0
    BY <1>1 DEF ReportState
  <2>1. devices[s].reports \in Nat
    BY DEF UsbInv, Typed, DeviceType, AnySlot
  <2>2. devices[s].reports + Reported(events, s) <= IF devices[s].hid = 2 THEN 1 ELSE 0
    BY DEF UsbInv, ReportState
  <2>3. Reported(events', s) <= Reported(events, s)
    BY <1>2
  <2>4. \A a, b, c, d \in Nat : a + b <= d /\ c <= b => a + c <= d
    OBVIOUS
  <2> QED BY <1>3, <2>1, <2>2, <2>3, <2>4
<1> QED
  BY <1>6, <1>7, <1>8, <1>9, <1>10, <1>11, <1>12 DEF UsbInv

\* EnableSlot of a port that the controller has reset.
LEMMA EnableSlotKeepsUsbInv ==
  ASSUME UsbInv, events # << >>, NEW p \in Ports, Head(events) = PortEvent(p),
         phase[p] = "ResettingPort", portsc[p].ped /\ portsc[p].prc,
         EnableSlot(p), EventUnchanged
  PROVE  UsbInv'
<1>0. /\ events \in Seq(EventType) /\ commands \in Seq(CommandType)
      /\ phase \in [Ports -> Phases] /\ portsc \in [Ports -> PortscType] /\ 0 \notin Ports
  BY DEF UsbInv, Typed, Ports
<1>1. /\ portsc' = [portsc EXCEPT ![p].prc = FALSE]
      /\ phase' = [phase EXCEPT ![p] = "EnablingSlot"]
      /\ commands' = Append(commands, Command("EnableSlot", 0, 0))
      /\ events' = Tail(events)
      /\ UNCHANGED <<boot, addressing, devices, enabled, unplugs, failures>>
  BY DEF EnableSlot, EventUnchanged, Rest, faults
<1>2. /\ events' \in Seq(EventType)
      /\ \A c, s : Finished(events', c, s) <=> Finished(events, c, s)
      /\ \A s : Transferred(events', s) <=> Transferred(events, s)
      /\ \A c : Done(events', c) = Done(events, c)
      /\ \A s : Reported(events', s) = Reported(events, s)
  <2>1. events' \in Seq(EventType) /\ Adds(events, events', PortEvent(p))
    BY <1>0, <1>1, TailAdds
  <2> QED BY <2>1, PortAdded
<1>3. /\ commands' \in Seq(CommandType)
      /\ \A s, x : Asked(commands', s, x) <=> Asked(commands, s, x)
      /\ \A s : Configuring(commands', s) => Configuring(commands, s)
      /\ Sent(commands', "EnableSlot") = Sent(commands, "EnableSlot") + 1
      /\ Sent(commands', "AddressDevice") = Sent(commands, "AddressDevice")
  <2>1. Command("EnableSlot", 0, 0) \in CommandType
    BY DEF CommandType
  <2>2. commands' \in Seq(CommandType) /\ Adds(commands', commands, Command("EnableSlot", 0, 0))
    BY <1>0, <1>1, <2>1, AppendAdds
  <2> QED BY ZenonT(40), <2>2, CommandAdded DEF AnySlot
<1>4. /\ phase' \in [Ports -> Phases]
      /\ \A x \in Ports : phase'[x] = IF x = p THEN "EnablingSlot" ELSE phase[x]
  BY <1>0, <1>1 DEF Phases
<1>5. /\ portsc' \in [Ports -> PortscType]
      /\ \A x \in Ports : /\ portsc'[x].ped = portsc[x].ped
                          /\ x # p => portsc'[x].prc = portsc[x].prc
  BY <1>0, <1>1 DEF PortscType
<1>6. addressing = p
  BY DEF UsbInv, OnePort, AddressingPhases
<1>7. NoFaults' <=> NoFaults
  BY <1>1 DEF NoFaults
<1>8. Typed'
  BY <1>1, <1>2, <1>3, <1>4, <1>5 DEF UsbInv, Typed
<1>9. OnePort'
  BY <1>1, <1>4 DEF UsbInv, OnePort, AddressingPhases
<1>10. PortState'
  <2>1. \A x \in Ports : phase'[x] = "ResettingPort" => portsc'[x].prc
    BY <1>4, <1>5 DEF UsbInv, PortState
  <2>2. \A x \in Ports : unplugs = 0 /\ phase'[x] \notin {"NotConnected", "WaitingAddressed"} =>
                           portsc'[x].ped
    BY <1>4, <1>5 DEF UsbInv, PortState
  <2>3. ~AddressingIn("ResettingPort")'
    BY <1>1, <1>4, <1>6 DEF AddressingIn
  <2> QED BY <1>1, <2>1, <2>2, <2>3 DEF PortState
<1>11. InFlightState'
  <2>1. ~AddressingIn("EnablingSlot") /\ ~AddressingIn("AddressingDevice")
    BY <1>6 DEF AddressingIn
  <2>2. AddressingIn("EnablingSlot")' /\ ~AddressingIn("AddressingDevice")'
    BY <1>0, <1>1, <1>4, <1>6 DEF AddressingIn
  <2>3. \A c : Sent(commands, c) \in Nat /\ Done(events, c) \in Nat
    BY <1>0, CountedEvents, CountedCommands
  <2> QED BY <1>2, <1>3, <2>1, <2>2, <2>3 DEF UsbInv, InFlightState
<1>12. EnableState' /\ TransferState' /\ ReportState'
  BY <1>1, <1>2, <1>3 DEF UsbInv, EnableState, TransferState, ReportState
<1>13. AddressState'
  BY <1>1, <1>2, <1>3, <1>7 DEF UsbInv, AddressState
<1>14. DeviceState' /\ OneSlotEach'
  <2>1. \A s \in AnySlot : devices[s].port # 0 => devices[s].port \in Ports
    BY DEF UsbInv, Typed, DeviceType
  <2>2. \A s \in AnySlot : devices[s].port # 0 => phase'[devices[s].port] = phase[devices[s].port]
    BY <1>4, <2>1 DEF UsbInv, DeviceState, AddressedPhases
  <2>3. DeviceState'
    BY <1>1, <2>2 DEF UsbInv, DeviceState
  <2>4. OneSlotEach'
    BY <1>1, <1>4 DEF UsbInv, OneSlotEach, AddressedPhases
  <2> QED BY <2>3, <2>4
<1> QED
  BY <1>8, <1>9, <1>10, <1>11, <1>12, <1>13, <1>14 DEF UsbInv

\* An event of a port.
LEMMA OnPortStatusChangeKeepsUsbInv == UsbInv /\ OnPortStatusChange => UsbInv'
<1> SUFFICES ASSUME UsbInv, OnPortStatusChange PROVE UsbInv'
  OBVIOUS
<1>1. events # << >> /\ Head(events).type = "port" /\ EventUnchanged
  BY DEF OnPortStatusChange, Event, event
<1>2. PICK p \in Ports : Head(events) = PortEvent(p)
  <2>1. Head(events) \in EventType
    BY <1>1, EventTaken DEF UsbInv, Typed
  <2> QED BY <1>1, <2>1, KindsOfEvents
<1>3. event.port = p
  BY <1>2 DEF event, PortEvent
<1>4. \A x, c, s : /\ PortEvent(p) = PortEvent(x) => x = p
                   /\ PortEvent(p) # CommandEvent(c, s)
  BY DEF PortEvent, CommandEvent
<1>5. CASE phase[p] = "NotConnected"
  <2>1. ResetPort(p, addressing, phase, Tail(events)) /\ UNCHANGED <<devices, commands>>
    BY <1>3, <1>5 DEF OnPortStatusChange, Rest
  <2>2. UNCHANGED <<boot, enabled, unplugs, failures>> /\ boot \in 1 .. MaxPorts + 1
    BY <1>1 DEF EventUnchanged, faults, UsbInv, Typed
  <2> QED BY <1>1, <1>2, <1>5, <2>1, <2>2, ResetKeepsUsbInv
<1>6. CASE phase[p] = "ResettingPort"
  <2>1. EnableSlot(p)
    BY <1>3, <1>6 DEF OnPortStatusChange
  <2>2. CASE portsc[p].ped /\ portsc[p].prc
    BY <1>1, <1>2, <1>6, <2>1, <2>2, EnableSlotKeepsUsbInv
  <2>3. CASE ~(portsc[p].ped /\ portsc[p].prc)
    <3>1. Ignored
      BY <2>1, <2>3 DEF EnableSlot
    <3>2. unplugs # 0
      BY <1>6, <2>3 DEF UsbInv, PortState
    <3> QED BY <1>1, <1>2, <1>4, <3>1, <3>2, IgnoredKeepsUsbInv
  <2> QED BY <2>2, <2>3
<1>7. CASE phase[p] \notin {"NotConnected", "ResettingPort"}
  <2>1. Ignored
    BY <1>3, <1>7 DEF OnPortStatusChange
  <2> QED BY <1>1, <1>2, <1>4, <1>7, <2>1, IgnoredKeepsUsbInv
<1> QED
  BY <1>5, <1>6, <1>7

\* A completion at the front of the event ring.
LEMMA CompletionTaken ==
  ASSUME NEW q \in Seq(EventType), q # << >>, NEW c, NEW s \in AnySlot,
         Head(q) = CommandEvent(c, s)
  PROVE  /\ Tail(q) \in Seq(EventType)
         /\ Finished(q, c, s)
         /\ \A x : PortSaid(Tail(q), x) <=> PortSaid(q, x)
         /\ \A d, x : Finished(Tail(q), d, x) => Finished(q, d, x)
         /\ \A x : Transferred(Tail(q), x) <=> Transferred(q, x)
         /\ \A d : Done(q, d) = IF d = c THEN Done(Tail(q), d) + 1 ELSE Done(Tail(q), d)
         /\ \A x : Reported(Tail(q), x) = Reported(q, x)
<1>1. Tail(q) \in Seq(EventType) /\ Adds(q, Tail(q), CommandEvent(c, s))
  BY TailAdds
<1> QED
  BY <1>1, CompletionAdded

\* The driver makes a device for the slot, and has it addressed.
LEMMA AddressDeviceKeepsUsbInv ==
  ASSUME UsbInv, events # << >>, NEW s \in AnySlot,
         Head(events) = CommandEvent("EnableSlot", s),
         AddressingIn("EnablingSlot"), AddressDevice(addressing, s), EventUnchanged
  PROVE  UsbInv'
<1> DEFINE p == addressing
<1>0. /\ events \in Seq(EventType) /\ commands \in Seq(CommandType)
      /\ phase \in [Ports -> Phases] /\ portsc \in [Ports -> PortscType] /\ 0 \notin Ports
      /\ p \in Ports /\ phase[p] = "EnablingSlot"
      /\ devices \in [AnySlot -> DeviceType] /\ 0 \in AnySlot /\ Slots \subseteq AnySlot
      /\ 0 \notin Slots
  BY AddressedPort DEF UsbInv, Typed, Ports, Slots, AddressingIn, AnySlot
<1>1. /\ devices' = [devices EXCEPT ![s] = IF @.there THEN @ ELSE NewDevice]
      /\ phase' = [phase EXCEPT ![p] = "AddressingDevice"]
      /\ commands' = Append(commands, Command("AddressDevice", s, p))
      /\ events' = Tail(events)
      /\ UNCHANGED <<boot, addressing, portsc, enabled, unplugs, failures>>
  BY DEF AddressDevice, EventUnchanged, Rest, faults
<1>2. /\ events' \in Seq(EventType)
      /\ Finished(events, "EnableSlot", s)
      /\ \A x : PortSaid(events', x) <=> PortSaid(events, x)
      /\ \A c, x : Finished(events', c, x) => Finished(events, c, x)
      /\ \A x : Transferred(events', x) <=> Transferred(events, x)
      /\ Done(events, "EnableSlot") = Done(events', "EnableSlot") + 1
      /\ Done(events, "AddressDevice") = Done(events', "AddressDevice")
      /\ \A x : Reported(events', x) = Reported(events, x)
  BY <1>0, <1>1, CompletionTaken
<1>3. /\ commands' \in Seq(CommandType)
      /\ \A x, y : Asked(commands', x, y) <=> (x = s /\ y = p) \/ Asked(commands, x, y)
      /\ \A x : Configuring(commands', x) => Configuring(commands, x)
      /\ Sent(commands', "EnableSlot") = Sent(commands, "EnableSlot")
      /\ Sent(commands', "AddressDevice") = Sent(commands, "AddressDevice") + 1
  <2>1. Command("AddressDevice", s, p) \in CommandType
    BY <1>0 DEF CommandType
  <2>2. /\ commands' \in Seq(CommandType)
        /\ Adds(commands', commands, Command("AddressDevice", s, p))
    BY <1>0, <1>1, <2>1, AppendAdds
  <2>3. p \in {0} \cup Ports
    BY <1>0
  <2>4. /\ \A x, y : Asked(commands', x, y) <=> (x = s /\ y = p) \/ Asked(commands, x, y)
        /\ \A x : Configuring(commands', x) => Configuring(commands, x)
    BY <2>2, <2>3, CommandAdded
  <2>5. \A d : Sent(commands', d) = IF d = "AddressDevice" THEN Sent(commands, d) + 1
                                                            ELSE Sent(commands, d)
    BY <2>2, <2>3, CommandAdded
  <2> QED BY <2>2, <2>4, <2>5
<1>4. /\ phase' \in [Ports -> Phases]
      /\ \A x \in Ports : phase'[x] = IF x = p THEN "AddressingDevice" ELSE phase[x]
  BY <1>0, <1>1 DEF Phases
<1>5. /\ devices[s].port = 0 /\ devices[s].init = 0 /\ devices[s].hid = 0
      /\ devices[s].control = << >> /\ devices[s].reports = 0
  <2>1. CASE s = 0
    <3>1. devices[0].port = 0
      BY <1>0 DEF UsbInv, DeviceState
    <3>2. devices[0] \in DeviceType
      BY <1>0
    <3>3. devices[0].init = 0
      BY <1>0, <3>1, <3>2 DEF UsbInv, DeviceState, DeviceType
    <3>4. devices[0].hid = 0
      BY <1>0, <3>2, <3>3 DEF UsbInv, DeviceState, DeviceType
    <3> QED BY <1>0, <2>1, <3>1, <3>3, <3>4 DEF UsbInv, DeviceState
  <2>2. CASE s \in Slots
    BY <1>2, <2>2 DEF UsbInv, EnableState, NoDevice
  <2> QED BY <2>1, <2>2 DEF AnySlot
<1>6. /\ devices' \in [AnySlot -> DeviceType]
      /\ devices'[s].there /\ devices'[s].port = 0 /\ devices'[s].init = 0 /\ devices'[s].hid = 0
      /\ devices'[s].control = << >> /\ devices'[s].reports = 0
      /\ \A t \in AnySlot : t # s => devices'[t] = devices[t]
  <2> DEFINE d == IF devices[s].there THEN devices[s] ELSE NewDevice
  <2>1. NewDevice \in DeviceType
    <3>1. << >> \in Seq(Transfers)
      BY EmptySeq
    <3>2. NoDevice \in DeviceType
      BY <3>1 DEF NoDevice, DeviceType
    <3> QED BY <3>2 DEF NewDevice, DeviceType
  <2>2. d \in DeviceType /\ d.there /\ d.port = 0 /\ d.init = 0 /\ d.hid = 0
        /\ d.control = << >> /\ d.reports = 0
    BY <1>0, <1>5, <2>1 DEF NewDevice, NoDevice
  <2>3. devices' = [devices EXCEPT ![s] = d]
    BY <1>1
  <2> HIDE DEF d
  <2> QED BY <1>0, <2>2, <2>3
<1>7. /\ Done(events', "EnableSlot") = 0 /\ Sent(commands', "EnableSlot") = 0
      /\ Done(events', "AddressDevice") = 0 /\ Sent(commands', "AddressDevice") = 1
      /\ Sent(commands, "AddressDevice") = 0
  <2>1. /\ \A c : Sent(commands, c) \in Nat /\ Done(events, c) \in Nat /\ Done(events', c) \in Nat
    BY <1>0, <1>2, CountedEvents, CountedCommands
  <2>2. Sent(commands, "EnableSlot") + Done(events, "EnableSlot") = 1
    BY DEF UsbInv, InFlightState
  <2>3. Sent(commands, "AddressDevice") + Done(events, "AddressDevice") <= 0
    BY DEF UsbInv, InFlightState, AddressingIn
  <2> QED BY <1>2, <1>3, <2>1, <2>2, <2>3
<1>8. /\ \A x \in AnySlot : ~Finished(events', "EnableSlot", x)
      /\ \A x \in AnySlot : ~Finished(events', "AddressDevice", x)
      /\ \A x \in AnySlot, y \in Ports : ~Asked(commands, x, y)
  BY <1>0, <1>2, <1>7, CountedEvents, CountedCommands
<1>9. \A t \in AnySlot : devices[t].port # 0 => devices[t].port \in Ports /\ devices[t].port # p
  BY <1>0 DEF UsbInv, Typed, DeviceType, DeviceState, AddressedPhases
<1>10. Typed'
  BY <1>1, <1>2, <1>3, <1>4, <1>6 DEF UsbInv, Typed
<1>11. OnePort'
  BY <1>0, <1>1, <1>4 DEF UsbInv, OnePort, AddressingPhases
<1>12. PortState'
  <2>1. ~AddressingIn("ResettingPort")'
    BY <1>0, <1>1, <1>4 DEF AddressingIn
  <2> QED BY <1>0, <1>1, <1>4, <2>1 DEF UsbInv, PortState
<1>13. InFlightState'
  <2>1. AddressingIn("AddressingDevice")' /\ ~AddressingIn("EnablingSlot")'
    BY <1>0, <1>1, <1>4 DEF AddressingIn
  <2> QED BY <1>7, <2>1 DEF InFlightState
<1>14. EnableState'
  <2>1. s \in Slots => s \in enabled
    BY <1>2 DEF UsbInv, EnableState
  <2> QED BY <1>0, <1>1, <1>6, <1>8, <2>1 DEF UsbInv, EnableState
<1>15. AddressState'
  <2>1. \A t \in Slots : devices'[t].port # p
    BY <1>0, <1>6, <1>9
  <2> QED BY <1>1, <1>3, <1>6, <1>8, <2>1 DEF AddressState
<1>16. DeviceState'
  BY <1>4, <1>6, <1>9 DEF UsbInv, DeviceState
<1>17. OneSlotEach'
  <2>1. \A t, u \in Slots : devices'[t].port = devices'[u].port /\ devices'[t].port # 0 => t = u
    BY <1>0, <1>6 DEF UsbInv, OneSlotEach
  <2>2. ASSUME NEW x \in Ports, phase'[x] \in AddressedPhases
        PROVE  \E t \in enabled' : devices'[t].there /\ devices'[t].port = x /\ devices'[t].init > 0
    <3>1. phase[x] \in AddressedPhases
      BY <1>4, <2>2 DEF AddressedPhases
    <3>2. PICK t \in enabled : devices[t].there /\ devices[t].port = x /\ devices[t].init > 0
      BY <3>1 DEF UsbInv, OneSlotEach
    <3>3. t # s /\ t \in AnySlot
      BY <1>0, <1>5, <3>2 DEF UsbInv, Typed
    <3> QED BY <1>1, <1>6, <3>2, <3>3
  <2> QED BY <2>1, <2>2 DEF OneSlotEach
<1>18. TransferState'
  BY <1>0, <1>2, <1>3, <1>5, <1>6 DEF UsbInv, TransferState
<1>19. ReportState'
  BY <1>0, <1>2, <1>5, <1>6 DEF UsbInv, ReportState
<1> QED
  BY <1>10, <1>11, <1>12, <1>13, <1>14, <1>15, <1>16, <1>17, <1>18, <1>19 DEF UsbInv

\* The completion of Enable Slot.
LEMMA OnSlotEnabledKeepsUsbInv == UsbInv /\ OnSlotEnabled => UsbInv'
<1> SUFFICES ASSUME UsbInv, OnSlotEnabled PROVE UsbInv'
  OBVIOUS
<1>1. /\ events # << >> /\ Head(events).type = "command" /\ Head(events).of = "EnableSlot"
      /\ EventUnchanged
  BY DEF OnSlotEnabled, Event, event
<1>2. PICK s \in AnySlot : Head(events) = CommandEvent("EnableSlot", s)
  <2>1. Head(events) \in EventType
    BY <1>1, EventTaken DEF UsbInv, Typed
  <2> QED BY <1>1, <2>1, KindsOfEvents
<1>3. event.slot = s
  BY <1>2 DEF event, CommandEvent
<1>4. CASE AddressingIn("EnablingSlot")
  <2>1. AddressDevice(addressing, s)
    BY <1>3, <1>4 DEF OnSlotEnabled, AddressingIn
  <2> QED BY <1>1, <1>2, <1>4, <2>1, AddressDeviceKeepsUsbInv
<1>5. CASE ~AddressingIn("EnablingSlot")
  <2>1. Ignored
    BY <1>5 DEF OnSlotEnabled, AddressingIn
  <2>2. \A x, c : CommandEvent("EnableSlot", s) # PortEvent(x)
                  /\ CommandEvent("EnableSlot", s) # CommandEvent("AddressDevice", c)
    BY DEF CommandEvent, PortEvent
  <2> QED BY <1>1, <1>2, <1>5, <2>1, <2>2, IgnoredKeepsUsbInv
<1> QED
  BY <1>4, <1>5


\* The device of slot s begins its initialization.
Begins(s) == devices' = [devices EXCEPT ![s].init = 1, ![s].control = Append(@, "GetDevice")]

\* The device at port p has its address, and the port n that waited longest, if one
\* did, is reset.
LEMMA DeviceAddressedKeepsUsbInv ==
  ASSUME UsbInv, events # << >>, NEW s \in AnySlot,
         Head(events) = CommandEvent("AddressDevice", s),
         NEW p \in Ports, devices[s].port = p, p = addressing, phase[p] = "AddressingDevice",
         NEW n \in {0} \cup Ports, addressing' = n,
         n = 0 => events' = Tail(events),
         n # 0 => phase[n] = "WaitingAddressed" /\ events' = Append(Tail(events), PortEvent(n)),
         phase' \in [Ports -> Phases],
         \A x \in Ports : phase'[x] = IF x = n THEN "ResettingPort"
                                      ELSE IF x = p THEN "InitializingDevice" ELSE phase[x],
         portsc' \in [Ports -> PortscType],
         \A x \in Ports : /\ portsc'[x].prc <=> x = n \/ portsc[x].prc
                          /\ portsc'[x].ped <=> x = n \/ portsc[x].ped,
         Begins(s),
         UNCHANGED <<boot, commands, enabled, unplugs, failures>>
  PROVE  UsbInv'
<1>0. /\ events \in Seq(EventType) /\ commands \in Seq(CommandType)
      /\ portsc \in [Ports -> PortscType] /\ 0 \notin Ports
      /\ devices \in [AnySlot -> DeviceType] /\ Slots \subseteq AnySlot
      /\ enabled \subseteq Slots
  BY DEF UsbInv, Typed, Ports, AnySlot
<1>1. /\ Tail(events) \in Seq(EventType)
      /\ \A c, x : Finished(Tail(events), c, x) => Finished(events, c, x)
      /\ \A x : Transferred(Tail(events), x) <=> Transferred(events, x)
      /\ Done(Tail(events), "EnableSlot") = Done(events, "EnableSlot")
      /\ Done(events, "AddressDevice") = Done(Tail(events), "AddressDevice") + 1
      /\ \A x : Reported(Tail(events), x) = Reported(events, x)
  BY <1>0, CompletionTaken
<1>2. /\ events' \in Seq(EventType)
      /\ n # 0 => PortSaid(events', n)
      /\ \A c, x : Finished(events', c, x) => Finished(events, c, x)
      /\ \A x : Transferred(events', x) => Transferred(events, x)
      /\ Done(events', "EnableSlot") = Done(events, "EnableSlot")
      /\ Done(events, "AddressDevice") = Done(events', "AddressDevice") + 1
      /\ \A x : Reported(events', x) = Reported(events, x)
  <2>1. CASE n = 0
    BY <1>1, <2>1
  <2>2. CASE n # 0
    <3>1. n \in Ports
      BY <2>2
    <3>2. /\ events' \in Seq(EventType)
          /\ \A x : PortSaid(events', x) <=> x = n \/ PortSaid(Tail(events), x)
          /\ \A c, x : Finished(events', c, x) <=> Finished(Tail(events), c, x)
          /\ \A x : Transferred(events', x) <=> Transferred(Tail(events), x)
          /\ \A c : Done(events', c) = Done(Tail(events), c)
          /\ \A x : Reported(events', x) = Reported(Tail(events), x)
      <4> DEFINE q == Tail(events)
      <4>1. q \in Seq(EventType) /\ events' = Append(q, PortEvent(n))
        BY <1>1, <2>2
      <4> HIDE DEF q
      <4>2. /\ events' \in Seq(EventType)
            /\ \A x : PortSaid(events', x) <=> x = n \/ PortSaid(q, x)
            /\ \A c, x : Finished(events', c, x) <=> Finished(q, c, x)
            /\ \A x : Transferred(events', x) <=> Transferred(q, x)
            /\ \A c : Done(events', c) = Done(q, c)
            /\ \A x : Reported(events', x) = Reported(q, x)
        BY <3>1, <4>1, PortEventSent
      <4> QED BY <4>2 DEF q
    <3> QED BY <1>1, <3>2
  <2> QED BY <2>1, <2>2
<1>3. n # p
  BY <1>0
<1>4. /\ s \in Slots /\ s \in enabled /\ devices[s].there
      /\ devices[s].init = 0 /\ devices[s].hid = 0 /\ devices[s].reports = 0
  <2>1. s # 0 /\ devices[s].there
    BY <1>0 DEF UsbInv, DeviceState
  <2>2. s \in Slots
    BY <2>1 DEF AnySlot
  <2>3. s \in enabled
    BY <1>0, <2>2 DEF UsbInv, EnableState, NoDevice
  <2>4. devices[s] \in DeviceType
    BY <1>0
  <2>5. devices[s].init = 0
    <3>1. devices[s].init \in 0 .. 4
      BY <2>4 DEF DeviceType
    <3>2. ~(devices[s].init > 0)
      BY DEF UsbInv, DeviceState, AddressedPhases
    <3> QED BY <3>1, <3>2
  <2>6. devices[s].hid = 0
    <3>1. devices[s].hid \in 0 .. 2
      BY <2>4 DEF DeviceType
    <3>2. ~(devices[s].hid > 0)
      BY <2>5 DEF UsbInv, DeviceState
    <3> QED BY <3>1, <3>2
  <2>7. devices[s].reports = 0
    BY <1>0, <2>5 DEF UsbInv, DeviceState
  <2> QED BY <2>1, <2>2, <2>3, <2>5, <2>6, <2>7
<1>5. /\ devices' \in [AnySlot -> DeviceType]
      /\ devices'[s].there /\ devices'[s].port = p /\ devices'[s].init = 1
      /\ devices'[s].hid = 0 /\ devices'[s].reports = 0
      /\ \A t \in AnySlot : t # s => devices'[t] = devices[t]
  <2> DEFINE requests == Append(devices[s].control, "GetDevice")
             d == [devices[s] EXCEPT !.init = 1, !.control = requests]
  <2>1. devices[s] \in DeviceType
    BY <1>0
  <2>2. requests \in Seq(Transfers)
    BY <2>1, AppendProperties DEF DeviceType, Transfers
  <2>4. devices' = [devices EXCEPT ![s] = d]
    BY <1>0 DEF Begins
  <2> HIDE DEF requests
  <2>3. d \in DeviceType /\ d.there /\ d.port = p /\ d.init = 1 /\ d.hid = 0 /\ d.reports = 0
    <3>1. d \in DeviceType
      <4>1. 1 \in 0 .. 4
        OBVIOUS
      <4> QED BY <2>1, <2>2, <4>1, DeviceChanged, Zenon
    <3>2. d.there = devices[s].there /\ d.port = devices[s].port /\ d.init = 1
          /\ d.hid = devices[s].hid /\ d.reports = devices[s].reports
      BY <2>1 DEF DeviceType
    <3> QED BY <1>4, <3>1, <3>2
  <2> HIDE DEF d
  <2> QED BY <1>0, <2>3, <2>4
<1>6. /\ Done(events', "AddressDevice") = 0 /\ Sent(commands, "AddressDevice") = 0
      /\ Sent(commands, "EnableSlot") + Done(events', "EnableSlot") = 0
  <2>1. \A c : Sent(commands, c) \in Nat /\ Done(events, c) \in Nat /\ Done(events', c) \in Nat
    BY <1>0, <1>2, CountedEvents, CountedCommands
  <2>2. AddressingIn("AddressingDevice") /\ ~AddressingIn("EnablingSlot")
    BY <1>0 DEF AddressingIn
  <2>3. Sent(commands, "AddressDevice") + Done(events, "AddressDevice") <= 1
    BY <2>2 DEF UsbInv, InFlightState
  <2>4. Sent(commands, "EnableSlot") + Done(events, "EnableSlot") = 0
    BY <2>2 DEF UsbInv, InFlightState
  <2> QED BY <1>2, <2>1, <2>3, <2>4
<1>7. \A t \in AnySlot : t # s /\ devices[t].port # 0 =>
        devices[t].port \in Ports /\ devices[t].port # p /\ devices[t].port # n
  <2> SUFFICES ASSUME NEW t \in AnySlot, t # s, devices[t].port # 0
               PROVE  devices[t].port \in Ports /\ devices[t].port # p /\ devices[t].port # n
    OBVIOUS
  <2>1. devices[t].port \in Ports
    BY <1>0 DEF DeviceType
  <2>2. t \in Slots /\ phase[devices[t].port] \in AddressedPhases \cup {"AddressingDevice"}
    BY DEF UsbInv, DeviceState, AnySlot
  <2>3. devices[t].port # p
    BY <1>4, <2>2 DEF UsbInv, OneSlotEach
  <2>4. devices[t].port # n
    BY <1>0, <2>1, <2>2 DEF AddressedPhases
  <2> QED BY <2>1, <2>3, <2>4
<1>8. Typed'
  BY <1>2, <1>5 DEF UsbInv, Typed
<1>9. OnePort'
  BY <1>0, <1>3 DEF UsbInv, OnePort, AddressingPhases
<1>10. PortState'
  <2>1. \A x \in Ports : phase'[x] = "ResettingPort" => portsc'[x].prc
    BY DEF UsbInv, PortState
  <2>2. \A x \in Ports : unplugs = 0 /\ phase'[x] \notin {"NotConnected", "WaitingAddressed"} =>
                           portsc'[x].ped
    BY DEF UsbInv, PortState
  <2> QED BY <1>2, <2>1, <2>2 DEF PortState, AddressingIn
<1>11. InFlightState'
  <2>1. ~AddressingIn("AddressingDevice")' /\ ~AddressingIn("EnablingSlot")'
    BY DEF AddressingIn
  <2> QED BY <1>6, <2>1 DEF InFlightState
<1>12. EnableState'
  BY <1>0, <1>2, <1>4, <1>5 DEF UsbInv, EnableState, NoDevice
<1>13. AddressState'
  <2>1. /\ \A x \in AnySlot : ~Finished(events', "AddressDevice", x)
        /\ \A x \in AnySlot, y \in Ports : ~Asked(commands, x, y)
    BY <1>0, <1>2, <1>6, CountedEvents, CountedCommands
  <2> QED BY <2>1 DEF AddressState
<1>14. DeviceState'
  <2>1. \A t \in AnySlot : t # s /\ devices[t].port # 0 =>
          phase'[devices[t].port] = phase[devices[t].port]
    BY <1>7
  <2>2. s # 0 /\ phase'[p] = "InitializingDevice"
    BY <1>3, <1>4 DEF Slots
  <2>3. ASSUME NEW t \in AnySlot, t # s
        PROVE  /\ devices'[t].port # 0 =>
                    /\ t # 0 /\ devices'[t].there
                    /\ phase'[devices'[t].port] \in AddressedPhases \cup {"AddressingDevice"}
               /\ devices'[t].init > 0 =>
                    devices'[t].port # 0 /\ phase'[devices'[t].port] \in AddressedPhases
               /\ devices'[t].hid > 0 =>
                    devices'[t].init > 0 /\ phase'[devices'[t].port] = "Configured"
               /\ devices'[t].init = 0 => devices'[t].control = << >> /\ devices'[t].reports = 0
    <3>1. devices'[t] = devices[t]
      BY <1>5, <2>3
    <3>2. devices[t].port # 0 => phase'[devices[t].port] = phase[devices[t].port]
      BY <2>1, <2>3
    <3>3. devices[t] \in DeviceType
      BY <1>0
    <3> QED BY <3>1, <3>2, <3>3 DEF UsbInv, DeviceState, DeviceType
  <2>4. /\ phase'[devices'[s].port] \in AddressedPhases
        /\ devices'[s].init > 0 /\ devices'[s].port # 0 /\ devices'[s].there
        /\ ~(devices'[s].hid > 0) /\ devices'[s].init # 0
    BY <1>0, <1>5, <2>2 DEF AddressedPhases
  <2> QED BY <2>2, <2>3, <2>4 DEF DeviceState
<1>15. OneSlotEach'
  <2>1. \A t, u \in Slots : devices'[t].port = devices'[u].port /\ devices'[t].port # 0 => t = u
    <3>1. \A t \in Slots : devices'[t].port = devices[t].port
      BY <1>0, <1>5
    <3> QED BY <3>1 DEF UsbInv, OneSlotEach
  <2>2. ASSUME NEW x \in Ports, phase'[x] \in AddressedPhases
        PROVE  \E t \in enabled' : devices'[t].there /\ devices'[t].port = x /\ devices'[t].init > 0
    <3>1. CASE x = p
      BY <1>4, <1>5, <3>1
    <3>2. CASE x # p
      <4>1. phase[x] \in AddressedPhases
        BY <2>2, <3>2 DEF AddressedPhases
      <4>2. PICK t \in enabled : devices[t].there /\ devices[t].port = x /\ devices[t].init > 0
        BY <4>1 DEF UsbInv, OneSlotEach
      <4>3. t # s /\ t \in AnySlot
        BY <1>0, <3>2, <4>2
      <4> QED BY <1>5, <4>2, <4>3
    <3> QED BY <3>1, <3>2
  <2> QED BY <2>1, <2>2 DEF OneSlotEach
<1>16. TransferState'
  <2> SUFFICES ASSUME NEW t \in Slots,
                      \/ Configuring(commands, t)
                      \/ Finished(events', "ConfigureEndpoint", t)
                      \/ Transferred(events', t)
               PROVE  devices'[t].init > 0
    BY DEF TransferState
  <2>1. devices[t].init > 0
    BY <1>2 DEF UsbInv, TransferState
  <2> QED BY <1>0, <1>5, <2>1
<1>17. ReportState'
  <2> SUFFICES ASSUME NEW t \in Slots
               PROVE  devices'[t].reports + Reported(events', t)
                        <= IF devices'[t].hid = 2 THEN 1 ELSE 0
    BY DEF ReportState
  <2>1. devices'[t].reports = devices[t].reports /\ devices'[t].hid = devices[t].hid
    BY <1>0, <1>4, <1>5
  <2>2. Reported(events', t) = Reported(events, t)
    BY <1>2
  <2> QED BY <2>1, <2>2 DEF UsbInv, ReportState
<1> QED
  BY <1>8, <1>9, <1>10, <1>11, <1>12, <1>13, <1>14, <1>15, <1>16, <1>17 DEF UsbInv

\* The completion of Address Device.
LEMMA OnDeviceAddressedKeepsUsbInv == UsbInv /\ OnDeviceAddressed => UsbInv'
<1> SUFFICES ASSUME UsbInv, OnDeviceAddressed PROVE UsbInv'
  OBVIOUS
<1>0. /\ portsc \in [Ports -> PortscType] /\ phase \in [Ports -> Phases]
      /\ addressing \in {0} \cup Ports /\ 0 \notin Ports
  BY DEF UsbInv, Typed, Ports
<1>1. /\ events # << >> /\ Head(events).type = "command" /\ Head(events).of = "AddressDevice"
      /\ EventUnchanged
  BY DEF OnDeviceAddressed, Event, event
<1>2. PICK s \in AnySlot : Head(events) = CommandEvent("AddressDevice", s)
  <2>1. Head(events) \in EventType
    BY <1>1, EventTaken DEF UsbInv, Typed
  <2> QED BY <1>1, <2>1, KindsOfEvents
<1>3. event.slot = s
  BY <1>2 DEF event, CommandEvent
<1> DEFINE p == devices[s].port
           initializing == [phase EXCEPT ![p] = "InitializingDevice"]
           own == p # 0 /\ p = addressing /\ phase[p] = "AddressingDevice"
<1>4. CASE own
  <2>1. Begins(s) /\ UNCHANGED <<boot, commands, enabled, unplugs, failures>>
    BY <1>1, <1>3, <1>4 DEF OnDeviceAddressed, Device, EventUnchanged, faults, Begins
  <2>2. p \in Ports
    BY <1>0, <1>4
  <2>3. /\ initializing \in [Ports -> Phases]
        /\ \A x \in Ports : initializing[x] = IF x = p THEN "InitializingDevice" ELSE phase[x]
    BY <1>0, <2>2 DEF Phases
  <2> DEFINE Nothing == /\ addressing' = 0 /\ phase' = initializing
                        /\ events' = Tail(events) /\ portsc' = portsc
  <2>4. CASE Nothing
    <3> DEFINE n == 0
    <3>1. /\ n \in {0} \cup Ports /\ addressing' = n
          /\ n = 0 => events' = Tail(events)
          /\ n # 0 => phase[n] = "WaitingAddressed" /\ events' = Append(Tail(events), PortEvent(n))
          /\ phase' \in [Ports -> Phases]
          /\ portsc' \in [Ports -> PortscType]
      BY <1>0, <2>3, <2>4
    <3>2. \A x \in Ports : phase'[x] = IF x = n THEN "ResettingPort"
                                       ELSE IF x = p THEN "InitializingDevice" ELSE phase[x]
      BY <1>0, <2>3, <2>4
    <3>3. \A x \in Ports : /\ portsc'[x].prc <=> x = n \/ portsc[x].prc
                           /\ portsc'[x].ped <=> x = n \/ portsc[x].ped
      BY <1>0, <2>4
    <3>4. PICK o \in {0} \cup Ports : o = n
      BY <3>1
    <3> HIDE DEF n, initializing, Nothing
    <3> QED
      BY ZenonT(90), <1>1, <1>2, <1>4, <2>1, <2>2, <3>1, <3>2, <3>3, <3>4, DeviceAddressedKeepsUsbInv
  <2>5. CASE ~Nothing
    <3>1. WaitingPorts # {}
      BY <1>1, <1>3, <1>4, <2>5 DEF OnDeviceAddressed, Device, Rest
    <3> DEFINE n == Min(WaitingPorts)
    <3>2. ResetPort(n, 0, initializing, Tail(events))
      BY <1>1, <1>3, <1>4, <3>1 DEF OnDeviceAddressed, Device, Rest
    <3>3. n \in Ports /\ phase[n] = "WaitingAddressed"
      <4>1. WaitingPorts \subseteq Nat
        BY DEF WaitingPorts, Ports
      <4>2. n \in WaitingPorts
        BY <3>1, <4>1, LeastExists
      <4> QED BY <4>2 DEF WaitingPorts
    <3> HIDE DEF n, initializing, p
    <3>8. \/ /\ phase' = [initializing EXCEPT ![n] = "ResettingPort"] /\ addressing' = n
             /\ events' = Append(Tail(events), PortEvent(n))
             /\ portsc' \in [Ports -> PortscType]
             /\ \A x \in Ports : /\ portsc'[x].prc <=> x = n \/ portsc[x].prc
                                 /\ portsc'[x].ped <=> x = n \/ portsc[x].ped
          \/ /\ phase' = initializing \/ 0 # 0
             /\ addressing' = 0 /\ events' = Tail(events) /\ portsc' = portsc
      BY <1>0, <3>2, <3>3, ResetPortCases
    <3>4. /\ phase' = [initializing EXCEPT ![n] = "ResettingPort"] /\ addressing' = n
          /\ events' = Append(Tail(events), PortEvent(n))
          /\ portsc' \in [Ports -> PortscType]
          /\ \A x \in Ports : /\ portsc'[x].prc <=> x = n \/ portsc[x].prc
                              /\ portsc'[x].ped <=> x = n \/ portsc[x].ped
      BY <2>5, <3>8
    <3>5. /\ phase' \in [Ports -> Phases]
          /\ \A x \in Ports : phase'[x] = IF x = n THEN "ResettingPort"
                                          ELSE IF x = p THEN "InitializingDevice" ELSE phase[x]
      BY <2>3, <3>3, <3>4 DEF Phases
    <3>6. p = devices[s].port
      BY DEF p
    <3>7. n # 0
      BY <1>0, <3>3
    <3>9. /\ n \in {0} \cup Ports /\ addressing' = n
          /\ n = 0 => events' = Tail(events)
          /\ n # 0 => phase[n] = "WaitingAddressed" /\ events' = Append(Tail(events), PortEvent(n))
          /\ portsc' \in [Ports -> PortscType]
      BY <3>3, <3>4, <3>7
    <3>10. \A x \in Ports : /\ portsc'[x].prc <=> x = n \/ portsc[x].prc
                            /\ portsc'[x].ped <=> x = n \/ portsc[x].ped
      BY <3>4
    <3> HIDE DEF Nothing
    <3> QED
      BY <1>1, <1>2, <1>4, <2>1, <2>2, <3>5, <3>6, <3>9, <3>10, DeviceAddressedKeepsUsbInv
  <2> QED BY <2>4, <2>5
<1>5. CASE ~own
  <2>1. Ignored
    BY <1>3, <1>5 DEF OnDeviceAddressed, Device
  <2>2. \A x, c : CommandEvent("AddressDevice", s) # PortEvent(x)
                  /\ CommandEvent("AddressDevice", s) # CommandEvent("EnableSlot", c)
    BY DEF CommandEvent, PortEvent
  <2>3. ~(NoFaults /\ AddressingIn("AddressingDevice"))
    <3> SUFFICES ASSUME NoFaults, AddressingIn("AddressingDevice") PROVE FALSE
      OBVIOUS
    <3>1. Finished(events, "AddressDevice", s)
      BY <1>1, <1>2, CompletionTaken DEF UsbInv, Typed
    <3>2. devices[s].there
      BY <3>1 DEF UsbInv, AddressState
    <3>3. s # 0
      BY <3>2 DEF NoFaults
    <3>4. devices[s].port = addressing
      BY <3>1, <3>3 DEF UsbInv, AddressState
    <3> QED BY <1>5, <3>4 DEF AddressingIn
  <2> QED BY <1>1, <1>2, <2>1, <2>2, <2>3, IgnoredKeepsUsbInv
<1> QED
  BY <1>4, <1>5

----------------------------------------------------------------------------
(* The steps of a device that has its address.                             *)

\* The rings after such a step: what is new is of the device's transfers and its
\* Configure Endpoint.
RingsKept(s) ==
  /\ events' \in Seq(EventType) /\ commands' \in Seq(CommandType)
  /\ \A x : PortSaid(events, x) => PortSaid(events', x)
  /\ \A c, x : Finished(events', c, x) =>
                 Finished(events, c, x) \/ (c = "ConfigureEndpoint" /\ x = s)
  /\ \A x : Transferred(events', x) => Transferred(events, x) \/ x = s
  /\ \A x : Configuring(commands', x) => Configuring(commands, x) \/ x = s
  /\ \A x, y : Asked(commands', x, y) => Asked(commands, x, y)
  /\ \A c \in {"EnableSlot", "AddressDevice"} :
       Done(events', c) = Done(events, c) /\ Sent(commands', c) = Sent(commands, c)
  /\ \A x : x # s => Reported(events', x) = Reported(events, x)

\* A device that is initialized goes on, and with it its port and its transfers.
LEMMA DeviceStepKeepsUsbInv ==
  ASSUME UsbInv, NEW s \in Slots, devices[s].init > 0,
         NEW d \in DeviceType, devices' = [devices EXCEPT ![s] = d],
         d.there = devices[s].there, d.port = devices[s].port, d.init > 0,
         d.hid > 0 => phase'[d.port] = "Configured",
         phase' \in [Ports -> Phases], phase'[d.port] \in AddressedPhases,
         \A x \in Ports : x # d.port => phase'[x] = phase[x],
         RingsKept(s),
         d.reports + Reported(events', s) <= IF d.hid = 2 THEN 1 ELSE 0,
         failures' \in Nat, failures' >= failures,
         UNCHANGED <<boot, addressing, portsc, enabled, unplugs>>
  PROVE  UsbInv'
<1> DEFINE p == d.port
<1>0. /\ events \in Seq(EventType) /\ commands \in Seq(CommandType)
      /\ phase \in [Ports -> Phases] /\ 0 \notin Ports /\ failures \in Nat
      /\ devices \in [AnySlot -> DeviceType] /\ Slots \subseteq AnySlot
      /\ enabled \subseteq Slots /\ 0 \notin Slots /\ 0 \in AnySlot
  BY DEF UsbInv, Typed, Ports, AnySlot, Slots
<1>1. /\ devices' \in [AnySlot -> DeviceType] /\ devices'[s] = d
      /\ \A t \in AnySlot : t # s => devices'[t] = devices[t]
  BY <1>0
<1>2. \A t \in AnySlot : devices'[t].there = devices[t].there /\ devices'[t].port = devices[t].port
  BY <1>0, <1>1
<1>3. /\ p \in Ports /\ phase[p] \in AddressedPhases /\ devices[s].there
      /\ d # NoDevice /\ devices[s] # NoDevice
  <2>1. devices[s].port # 0 /\ phase[devices[s].port] \in AddressedPhases /\ devices[s].there
    BY <1>0 DEF UsbInv, DeviceState
  <2>2. devices[s].port \in {0} \cup Ports
    BY <1>0 DEF DeviceType
  <2> QED BY <2>1, <2>2 DEF NoDevice
<1>4. addressing # p
  BY <1>3, AddressedPort DEF AddressedPhases, AddressingPhases
<1>5. \A x \in Ports : phase'[x] # phase[x] =>
        x = p /\ phase'[x] \in AddressedPhases /\ phase[x] \in AddressedPhases
  BY <1>3
<1>6. \A ph : AddressingIn(ph)' <=> AddressingIn(ph)
  BY <1>4, AddressedPort DEF AddressingIn
<1>7. NoFaults' => NoFaults
  BY <1>0, <1>2 DEF NoFaults
<1>8. Typed'
  BY <1>1 DEF UsbInv, Typed, RingsKept
<1>9. OnePort'
  BY <1>5 DEF UsbInv, OnePort, AddressingPhases, AddressedPhases
<1>10. PortState'
  <2>1. \A x \in Ports : phase'[x] = "ResettingPort" => portsc'[x].prc
    BY <1>5 DEF UsbInv, PortState, AddressedPhases
  <2>2. \A x \in Ports : unplugs = 0 /\ phase'[x] \notin {"NotConnected", "WaitingAddressed"} =>
                           portsc'[x].ped
    BY <1>5 DEF UsbInv, PortState, AddressedPhases
  <2>3. unplugs' = 0 /\ AddressingIn("ResettingPort")' => PortSaid(events', addressing')
    BY <1>6 DEF UsbInv, PortState, RingsKept
  <2> QED BY <2>1, <2>2, <2>3 DEF PortState
<1>11. InFlightState'
  BY <1>6, <1>7 DEF UsbInv, InFlightState, RingsKept
<1>12. EnableState'
  <2>1. ASSUME NEW t \in Slots, Finished(events', "EnableSlot", t)
        PROVE  t \in enabled /\ devices'[t] = NoDevice
    <3>1. t \in enabled /\ devices[t] = NoDevice
      BY <2>1 DEF UsbInv, EnableState, RingsKept
    <3> QED BY <1>0, <1>1, <1>3, <3>1
  <2>2. ASSUME NEW t \in Slots \ enabled PROVE devices'[t] = NoDevice
    <3>1. devices[t] = NoDevice
      BY DEF UsbInv, EnableState
    <3> QED BY <1>0, <1>1, <1>3, <3>1
  <2> QED BY <2>1, <2>2 DEF EnableState
<1>13. AddressState'
  <2>1. ASSUME NEW t \in AnySlot, NEW x \in Ports, Asked(commands', t, x)
        PROVE  /\ x = addressing
               /\ devices'[t].there /\ devices'[t].port = 0 /\ devices'[t].init = 0
               /\ \A u \in Slots : devices'[u].port # x
    <3>1. /\ x = addressing
          /\ devices[t].there /\ devices[t].port = 0 /\ devices[t].init = 0
          /\ \A u \in Slots : devices[u].port # x
      BY <2>1 DEF UsbInv, AddressState, RingsKept
    <3>2. t # s
      BY <3>1
    <3> QED BY <1>0, <1>1, <1>2, <3>1, <3>2
  <2>2. ASSUME NEW t \in AnySlot, Finished(events', "AddressDevice", t)
        PROVE  /\ devices'[t].there
               /\ t # 0 /\ NoFaults' => devices'[t].port = addressing'
    <3>1. Finished(events, "AddressDevice", t)
      BY <2>2 DEF RingsKept
    <3> QED BY <1>2, <1>7, <3>1 DEF UsbInv, AddressState
  <2> QED BY <2>1, <2>2 DEF AddressState
<1>14. DeviceState'
  <2>1. ASSUME NEW t \in AnySlot, t # s
        PROVE  /\ devices'[t].port # 0 =>
                    /\ t # 0 /\ devices'[t].there
                    /\ phase'[devices'[t].port] \in AddressedPhases \cup {"AddressingDevice"}
               /\ devices'[t].init > 0 =>
                    devices'[t].port # 0 /\ phase'[devices'[t].port] \in AddressedPhases
               /\ devices'[t].hid > 0 =>
                    devices'[t].init > 0 /\ phase'[devices'[t].port] = "Configured"
               /\ devices'[t].init = 0 => devices'[t].control = << >> /\ devices'[t].reports = 0
    <3>1. devices'[t] = devices[t] /\ devices[t] \in DeviceType
      BY <1>0, <1>1, <2>1
    <3>2. devices[t].port # 0 => phase'[devices[t].port] = phase[devices[t].port]
      <4> SUFFICES ASSUME devices[t].port # 0
                   PROVE  phase'[devices[t].port] = phase[devices[t].port]
        OBVIOUS
      <4>1. devices[t].port \in Ports
        BY <3>1 DEF DeviceType
      <4>2. t \in Slots
        BY DEF UsbInv, DeviceState, AnySlot
      <4>3. devices[t].port # p
        BY <2>1, <4>2 DEF UsbInv, OneSlotEach
      <4> QED BY <4>1, <4>3
    <3> QED BY <3>1, <3>2 DEF UsbInv, DeviceState, DeviceType
  <2>2. s # 0 /\ devices'[s].there /\ devices'[s].port # 0 /\ d.init # 0
    BY <1>0, <1>1, <1>3
  <2> QED BY <1>1, <2>1, <2>2 DEF DeviceState
<1>15. OneSlotEach'
  <2>1. \A t, u \in Slots : devices'[t].port = devices'[u].port /\ devices'[t].port # 0 => t = u
    BY <1>0, <1>2 DEF UsbInv, OneSlotEach
  <2>2. ASSUME NEW x \in Ports, phase'[x] \in AddressedPhases
        PROVE  \E t \in enabled' : devices'[t].there /\ devices'[t].port = x /\ devices'[t].init > 0
    <3>1. PICK t \in enabled : devices[t].there /\ devices[t].port = x /\ devices[t].init > 0
      BY <1>5, <2>2 DEF UsbInv, OneSlotEach
    <3> QED BY <1>0, <1>1, <1>2, <3>1
  <2> QED BY <2>1, <2>2 DEF OneSlotEach
<1>16. TransferState'
  <2> SUFFICES ASSUME NEW t \in Slots,
                      \/ Configuring(commands', t)
                      \/ Finished(events', "ConfigureEndpoint", t)
                      \/ Transferred(events', t)
               PROVE  devices'[t].init > 0
    BY DEF TransferState
  <2>1. t = s \/ devices[t].init > 0
    BY DEF UsbInv, TransferState, RingsKept
  <2> QED BY <1>0, <1>1, <2>1
<1>17. ReportState'
  <2> SUFFICES ASSUME NEW t \in Slots
               PROVE  devices'[t].reports + Reported(events', t)
                        <= IF devices'[t].hid = 2 THEN 1 ELSE 0
    BY DEF ReportState
  <2>1. CASE t = s
    BY <1>1, <2>1
  <2>2. CASE t # s
    <3>1. Reported(events', t) = Reported(events, t) /\ devices'[t] = devices[t]
      BY <1>0, <1>1, <2>2 DEF RingsKept
    <3> QED BY <3>1 DEF UsbInv, ReportState
  <2> QED BY <2>1, <2>2
<1> QED
  BY <1>8, <1>9, <1>10, <1>11, <1>12, <1>13, <1>14, <1>15, <1>16, <1>17 DEF UsbInv

\* A device that is initialized has a port, and one that has transfers is initialized.
LEMMA InitializedDevice ==
  ASSUME UsbInv, NEW s \in Slots
  PROVE  /\ devices[s] \in DeviceType
         /\ devices[s].init > 0 =>
              devices[s].port \in Ports /\ phase[devices[s].port] \in AddressedPhases
         /\ devices[s].hid > 0 => phase[devices[s].port] = "Configured"
         /\ devices[s].control # << >> => devices[s].init > 0
         /\ devices[s].reports > 0 => devices[s].init > 0
         /\ devices[s].reports \in Nat
         /\ \A x : Reported(events, x) \in Nat
         /\ devices[s].hid # 2 => devices[s].reports = 0 /\ Reported(events, s) = 0
         /\ devices[s].reports + Reported(events, s) <= 1
<1>1. devices[s] \in DeviceType /\ s \in AnySlot
  BY DEF UsbInv, Typed, AnySlot
<1>2. devices[s].init > 0 =>
        devices[s].port \in Ports /\ phase[devices[s].port] \in AddressedPhases
  BY <1>1 DEF UsbInv, DeviceState, DeviceType
<1>3. devices[s].init # 0 => devices[s].init > 0
  <2>1. devices[s].init \in 0 .. 4
    BY <1>1 DEF DeviceType
  <2> QED BY <2>1
<1>4. /\ devices[s].control # << >> => devices[s].init > 0
      /\ devices[s].reports > 0 => devices[s].init > 0
  BY <1>1, <1>3 DEF UsbInv, DeviceState
<1>5. devices[s].reports \in Nat /\ \A x : Reported(events, x) \in Nat
  BY <1>1, CountedEvents DEF DeviceType, UsbInv, Typed
<1>6. devices[s].reports + Reported(events, s) <= IF devices[s].hid = 2 THEN 1 ELSE 0
  BY DEF UsbInv, ReportState
<1>7. /\ devices[s].hid # 2 => devices[s].reports = 0 /\ Reported(events, s) = 0
      /\ devices[s].reports + Reported(events, s) <= 1
  BY <1>5, <1>6
<1> QED
  BY <1>1, <1>2, <1>4, <1>5, <1>7 DEF UsbInv, DeviceState

\* The controller has executed a Configure Endpoint.
LEMMA ExecuteConfigureEndpointKeepsUsbInv == UsbInv /\ ExecuteConfigureEndpoint => UsbInv'
<1> SUFFICES ASSUME UsbInv, ExecuteConfigureEndpoint PROVE UsbInv'
  OBVIOUS
<1>0. events \in Seq(EventType) /\ commands \in Seq(CommandType)
      /\ phase \in [Ports -> Phases] /\ failures \in Nat /\ devices \in [AnySlot -> DeviceType]
  BY DEF UsbInv, Typed
<1>1. /\ commands # << >> /\ Head(commands).type = "ConfigureEndpoint"
      /\ commands' = Tail(commands)
      /\ events' = Append(events, CommandEvent("ConfigureEndpoint", Head(commands).slot))
      /\ UNCHANGED <<boot, phase, addressing, devices, portsc, enabled, unplugs, failures>>
  BY DEF ExecuteConfigureEndpoint, faults, ControllerUnchanged, driver
<1>2. /\ commands' \in Seq(CommandType) /\ Adds(commands, commands', Head(commands))
      /\ Head(commands) \in CommandType
  BY <1>0, <1>1, TailAdds
<1>3. PICK s \in Slots, p \in Ports : Head(commands) = Command("ConfigureEndpoint", s, p)
  BY <1>1, <1>2, KindsOfCommands
<1>4. Head(commands).slot = s
  BY <1>3 DEF Command
<1>5. s \in AnySlot /\ p \in {0} \cup Ports
  BY DEF AnySlot
<1>6. /\ Configuring(commands, s)
      /\ \A x : Configuring(commands', x) => Configuring(commands, x)
      /\ \A x, y : Asked(commands', x, y) <=> Asked(commands, x, y)
      /\ \A c \in {"EnableSlot", "AddressDevice"} : Sent(commands', c) = Sent(commands, c)
  <2>1. Adds(commands, commands', Command("ConfigureEndpoint", s, p))
    BY <1>2, <1>3
  <2> QED BY <1>5, <2>1, CommandAdded
<1>7. devices[s].init > 0
  BY <1>6 DEF UsbInv, TransferState
<1>8. CommandEvent("ConfigureEndpoint", s) \in EventType
  BY DEF EventType
<1>9. /\ events' \in Seq(EventType)
      /\ Adds(events', events, CommandEvent("ConfigureEndpoint", s))
  BY <1>0, <1>1, <1>4, <1>8, AppendAdds
<1>10. /\ \A x : PortSaid(events', x) <=> PortSaid(events, x)
       /\ \A d, x : Finished(events', d, x) <=>
                      (d = "ConfigureEndpoint" /\ x = s) \/ Finished(events, d, x)
       /\ \A x : Transferred(events', x) <=> Transferred(events, x)
       /\ \A d : Done(events', d) = IF d = "ConfigureEndpoint" THEN Done(events, d) + 1
                                                               ELSE Done(events, d)
       /\ \A x : Reported(events', x) = Reported(events, x)
  BY <1>5, <1>9, CompletionAdded
<1>11. RingsKept(s)
  BY <1>2, <1>6, <1>9, <1>10 DEF RingsKept
<1>12. devices' = [devices EXCEPT ![s] = devices[s]]
  BY <1>0, <1>1, <1>5
<1>13. devices[s].reports + Reported(events', s) <= IF devices[s].hid = 2 THEN 1 ELSE 0
  BY <1>10 DEF UsbInv, ReportState
<1> DEFINE d == devices[s]
<1>14. /\ d \in DeviceType /\ d.init > 0 /\ d.port \in Ports
       /\ phase'[d.port] \in AddressedPhases
       /\ d.hid > 0 => phase'[d.port] = "Configured"
       /\ phase' \in [Ports -> Phases] /\ \A x \in Ports : x # d.port => phase'[x] = phase[x]
  BY <1>0, <1>1, <1>7, InitializedDevice
<1>15. failures' \in Nat /\ failures' >= failures
  BY <1>0, <1>1
<1> QED
  BY <1>1, <1>7, <1>11, <1>12, <1>13, <1>14, <1>15, DeviceStepKeepsUsbInv

\* The completion of Configure Endpoint.
LEMMA OnEndpointsConfiguredKeepsUsbInv == UsbInv /\ OnEndpointsConfigured => UsbInv'
<1> SUFFICES ASSUME UsbInv, OnEndpointsConfigured PROVE UsbInv'
  OBVIOUS
<1>0. events \in Seq(EventType) /\ commands \in Seq(CommandType)
      /\ phase \in [Ports -> Phases] /\ failures \in Nat /\ devices \in [AnySlot -> DeviceType]
  BY DEF UsbInv, Typed
<1>1. /\ events # << >> /\ Head(events).type = "command"
      /\ Head(events).of = "ConfigureEndpoint" /\ EventUnchanged
  BY DEF OnEndpointsConfigured, Event, event
<1>2. PICK s \in Slots : Head(events) = CommandEvent("ConfigureEndpoint", s)
  <2>1. Head(events) \in EventType
    BY <1>0, <1>1, EventTaken
  <2> QED BY <1>1, <2>1, KindsOfEvents
<1>3. event.slot = s /\ s \in AnySlot
  BY <1>2 DEF event, CommandEvent, AnySlot
<1> DEFINE p == devices[s].port
<1>4. CASE phase[p] = "ConfiguringEndpoints"
  <2> DEFINE requests == devices[s].control \o [i \in 1 .. Endpoints |-> "SetProtocol"]
             d == [devices[s] EXCEPT !.hid = 1, !.control = requests]
  <2>1. /\ phase' = [phase EXCEPT ![p] = "Configured"]
        /\ devices' = [devices EXCEPT ![s].hid = 1,
                         ![s].control = @ \o [i \in 1 .. Endpoints |-> "SetProtocol"]]
        /\ events' = Tail(events)
        /\ UNCHANGED <<addressing, commands, portsc, boot, enabled, unplugs, failures>>
    BY <1>1, <1>3, <1>4 DEF OnEndpointsConfigured, Device, EventUnchanged, faults, Rest
  <2>2. /\ events' \in Seq(EventType)
        /\ Finished(events, "ConfigureEndpoint", s)
        /\ \A x : PortSaid(events', x) <=> PortSaid(events, x)
        /\ \A c, x : Finished(events', c, x) => Finished(events, c, x)
        /\ \A x : Transferred(events', x) <=> Transferred(events, x)
        /\ \A c \in {"EnableSlot", "AddressDevice"} : Done(events', c) = Done(events, c)
        /\ \A x : Reported(events', x) = Reported(events, x)
    BY <1>0, <1>1, <1>2, <1>3, <2>1, CompletionTaken
  <2>3. devices[s].init > 0
    BY <2>2 DEF UsbInv, TransferState
  <2>4. /\ devices[s] \in DeviceType /\ p \in Ports
        /\ devices[s].reports = 0 /\ Reported(events, s) = 0
    <3>1. ~(devices[s].hid > 0)
      BY <1>4, InitializedDevice
    <3>2. devices[s].hid # 2
      BY <3>1
    <3> QED BY <2>3, <3>2, InitializedDevice
  <2>5. devices' = [devices EXCEPT ![s] = d]
    BY <1>0, <1>3, <2>1
  <2>6. requests \in Seq(Transfers)
    <3>1. devices[s].control \in Seq(Transfers)
      BY <2>4 DEF DeviceType
    <3>2. [i \in 1 .. Endpoints |-> "SetProtocol"] \in Seq(Transfers)
      BY DEF Transfers
    <3> QED BY <3>1, <3>2, ConcatProperties
  <2> HIDE DEF requests
  <2>7. d \in DeviceType
    <3>1. 1 \in 0 .. 2
      OBVIOUS
    <3> QED BY <2>4, <2>6, <3>1, DeviceChanged, Zenon
  <2>8. /\ d.there = devices[s].there /\ d.port = p /\ d.init = devices[s].init
        /\ d.hid = 1 /\ d.reports = 0
    BY <2>4 DEF DeviceType
  <2>9. /\ phase' \in [Ports -> Phases] /\ phase'[p] = "Configured"
        /\ \A x \in Ports : x # p => phase'[x] = phase[x]
    BY <1>0, <2>1, <2>4 DEF Phases
  <2>10. RingsKept(s)
    BY <1>0, <2>1, <2>2 DEF RingsKept
  <2> HIDE DEF d, p
  <2>11. d.reports + Reported(events', s) <= IF d.hid = 2 THEN 1 ELSE 0
    BY <2>2, <2>4, <2>8
  <2>12. failures' \in Nat /\ failures' >= failures
    BY <1>0, <2>1
  <2>13. /\ d.port = devices[s].port /\ d.init > 0 /\ phase'[d.port] \in AddressedPhases
         /\ d.hid > 0 => phase'[d.port] = "Configured"
    BY <2>3, <2>8, <2>9 DEF p, AddressedPhases
  <2> QED
    BY <2>1, <2>3, <2>5, <2>7, <2>8, <2>9, <2>10, <2>11, <2>12, <2>13, DeviceStepKeepsUsbInv
<1>5. CASE phase[p] # "ConfiguringEndpoints"
  <2>1. Ignored
    BY <1>3, <1>5 DEF OnEndpointsConfigured, Device
  <2>2. \A x, c : /\ CommandEvent("ConfigureEndpoint", s) # PortEvent(x)
                  /\ CommandEvent("ConfigureEndpoint", s) # CommandEvent("EnableSlot", c)
                  /\ CommandEvent("ConfigureEndpoint", s) # CommandEvent("AddressDevice", c)
    BY DEF CommandEvent, PortEvent
  <2> QED BY <1>1, <1>2, <2>1, <2>2, IgnoredKeepsUsbInv
<1> QED
  BY <1>4, <1>5

\* What OnTransferCompleted makes of a device that is initialized: it asks for a
\* report when it had one, or when the class driver comes to its last phase.
LEMMA TransferMakes ==
  ASSUME NEW e \in DeviceType, e.init > 0, NEW t \in TransferNames
  PROVE  LET d == TransferCompleted(e, t)
         IN  /\ d \in DeviceType
             /\ d.there = e.there /\ d.port = e.port /\ d.init > 0
             /\ \/ d.hid = e.hid /\ d.reports = IF t = "Report" THEN e.reports + 1 ELSE e.reports
                \/ t # "Report" /\ e.hid = 1 /\ d.hid = 2 /\ d.reports = e.reports + 1
<1> DEFINE d == TransferCompleted(e, t)
<1>0. /\ e.reports \in Nat /\ e.control \in Seq(Transfers)
      /\ e.reports + 1 \in Nat /\ 2 \in 0 .. 2 /\ 2 \in 0 .. 4 /\ 3 \in 0 .. 4 /\ 4 \in 0 .. 4
  BY DEF DeviceType
<1>1. CASE t = "Report"
  <2>1. d = [e EXCEPT !.reports = e.reports + 1]
    BY <1>1 DEF TransferCompleted
  <2>2. [e EXCEPT !.reports = e.reports + 1] \in DeviceType
    BY <1>0, DeviceChanged, Zenon
  <2> QED BY <1>1, <2>1, <2>2 DEF DeviceType
<1>2. CASE t # "Report"
  <2>0. d = ControlCompleted(e, t)
    BY <1>2 DEF TransferCompleted
  <2>1. CASE e.init = 4 /\ t = "SetProtocol" /\ e.hid = 1
    <3>1. d = [e EXCEPT !.hid = 2, !.reports = e.reports + 1]
      BY <2>0, <2>1 DEF ControlCompleted
    <3>2. [e EXCEPT !.hid = 2, !.reports = e.reports + 1] \in DeviceType
      BY <1>0, DeviceChanged, Zenon
    <3> QED BY <1>2, <2>1, <3>1, <3>2 DEF DeviceType
  <2>2. CASE e.init = 1 /\ t = "GetDevice"
    <3> DEFINE c == Append(e.control, "GetConfig")
    <3>1. d = [e EXCEPT !.init = 2, !.control = c]
      BY <2>0, <2>2 DEF ControlCompleted
    <3>2. c \in Seq(Transfers)
      BY <1>0, AppendProperties DEF Transfers
    <3> HIDE DEF c
    <3>3. [e EXCEPT !.init = 2, !.control = c] \in DeviceType
      BY <1>0, <3>2, DeviceChanged, Zenon
    <3>4. /\ d.there = e.there /\ d.port = e.port /\ d.init = 2
          /\ d.hid = e.hid /\ d.reports = e.reports
      BY <3>1 DEF DeviceType
    <3> QED BY <1>2, <2>2, <3>1, <3>3, <3>4
  <2>3. CASE e.init = 2 /\ t = "GetConfig" /\ e.port \in Supported
    <3> DEFINE c == Append(e.control, "SetConfig")
    <3>1. d = [e EXCEPT !.init = 3, !.control = c]
      BY <2>0, <2>3 DEF ControlCompleted
    <3>2. c \in Seq(Transfers)
      BY <1>0, AppendProperties DEF Transfers
    <3> HIDE DEF c
    <3>3. [e EXCEPT !.init = 3, !.control = c] \in DeviceType
      BY <1>0, <3>2, DeviceChanged, Zenon
    <3>4. /\ d.there = e.there /\ d.port = e.port /\ d.init = 3
          /\ d.hid = e.hid /\ d.reports = e.reports
      BY <3>1 DEF DeviceType
    <3> QED BY <1>2, <2>3, <3>1, <3>3, <3>4
  <2>4. CASE e.init = 3 /\ t = "SetConfig"
    <3>1. d = [e EXCEPT !.init = 4]
      BY <2>0, <2>4 DEF ControlCompleted
    <3>2. [e EXCEPT !.init = 4] \in DeviceType
      BY <1>0, DeviceChanged, Zenon
    <3> QED BY <1>2, <2>4, <3>1, <3>2 DEF DeviceType
  <2>5. CASE /\ ~(e.init = 4 /\ t = "SetProtocol" /\ e.hid = 1)
             /\ ~(e.init = 1 /\ t = "GetDevice")
             /\ ~(e.init = 2 /\ t = "GetConfig" /\ e.port \in Supported)
             /\ ~(e.init = 3 /\ t = "SetConfig")
    <3>1. d = e
      BY <2>0, <2>5 DEF ControlCompleted
    <3> QED BY <1>2, <3>1
  <2> QED BY <2>1, <2>2, <2>3, <2>4, <2>5
<1> QED
  BY <1>1, <1>2

\* A transfer has succeeded: the port may go on with it.
LEMMA TransferSucceededKeepsUsbInv ==
  ASSUME UsbInv, events # << >>, NEW s \in Slots, NEW t \in TransferNames,
         Head(events) = TransferEvent(s, t, TRUE), Event("transfer"), OnTransfer
  PROVE  UsbInv'
<1>0. events \in Seq(EventType) /\ commands \in Seq(CommandType)
      /\ phase \in [Ports -> Phases] /\ failures \in Nat /\ devices \in [AnySlot -> DeviceType]
      /\ s \in AnySlot
  BY DEF UsbInv, Typed, AnySlot
<1>1. event.slot = s /\ event.of = t /\ event.ok = TRUE
  BY DEF event, TransferEvent
<1> DEFINE d == TransferCompleted(devices[s], t)
           p == devices[s].port
<1>2. /\ devices' = [devices EXCEPT ![s] = d]
      /\ IF d.init = 4 /\ phase[d.port] = "InitializingDevice"
         THEN ConfigureEndpoints(s, d.port)
         ELSE UNCHANGED <<phase, commands>>
      /\ events' = Tail(events)
      /\ UNCHANGED <<addressing, portsc, boot, enabled, unplugs, failures>>
  BY <1>1 DEF OnTransfer, Device, Rest, EventUnchanged, faults
<1>3. /\ events' \in Seq(EventType) /\ Adds(events, events', TransferEvent(s, t, TRUE))
  BY <1>0, <1>2, TailAdds
<1>4. /\ \A x : PortSaid(events, x) <=> PortSaid(events', x)
      /\ \A c, x : Finished(events, c, x) <=> Finished(events', c, x)
      /\ \A x : Transferred(events, x) <=> x = s \/ Transferred(events', x)
      /\ \A c : Done(events, c) = Done(events', c)
      /\ \A x : Reported(events, x) = IF x = s /\ t = "Report" THEN Reported(events', x) + 1
                                                              ELSE Reported(events', x)
  BY ZenonT(40), <1>3, TransferAdded
<1>5. devices[s].init > 0
  BY <1>4 DEF UsbInv, TransferState
<1>6. /\ devices[s] \in DeviceType /\ p \in Ports /\ phase[p] \in AddressedPhases
      /\ devices[s].hid > 0 => phase[p] = "Configured"
  BY <1>5, InitializedDevice
<1>7. /\ d \in DeviceType
      /\ d.there = devices[s].there /\ d.port = p /\ d.init > 0
      /\ \/ d.hid = devices[s].hid
            /\ d.reports = IF t = "Report" THEN devices[s].reports + 1 ELSE devices[s].reports
         \/ t # "Report" /\ devices[s].hid = 1 /\ d.hid = 2 /\ d.reports = devices[s].reports + 1
  BY <1>5, <1>6, TransferMakes
<1> HIDE DEF d
<1>8. d.reports + Reported(events', s) <= IF d.hid = 2 THEN 1 ELSE 0
  <2>1. /\ devices[s].reports \in Nat /\ Reported(events', s) \in Nat
        /\ devices[s].hid # 2 => devices[s].reports = 0 /\ Reported(events, s) = 0
        /\ devices[s].reports + Reported(events, s) <= 1
    BY <1>3, InitializedDevice, CountedEvents
  <2>2. Reported(events, s) = IF t = "Report" THEN Reported(events', s) + 1 ELSE Reported(events', s)
    BY <1>4
  <2> QED BY <1>7, <2>1, <2>2
<1>9. d.hid > 0 => phase[p] = "Configured"
  BY <1>6, <1>7
<1>10. \/ phase' = phase /\ commands' = commands
       \/ /\ phase[p] = "InitializingDevice"
          /\ phase' = [phase EXCEPT ![p] = "ConfiguringEndpoints"]
          /\ commands' = Append(commands, Command("ConfigureEndpoint", s, p))
  BY <1>2, <1>7 DEF ConfigureEndpoints
<1>11. /\ phase' \in [Ports -> Phases] /\ phase'[p] \in AddressedPhases
       /\ \A x \in Ports : x # p => phase'[x] = phase[x]
       /\ d.hid > 0 => phase'[p] = "Configured"
  BY <1>0, <1>6, <1>9, <1>10 DEF Phases, AddressedPhases
<1>12. /\ commands' \in Seq(CommandType)
       /\ \A x : Configuring(commands', x) => Configuring(commands, x) \/ x = s
       /\ \A x, y : Asked(commands', x, y) => Asked(commands, x, y)
       /\ \A c \in {"EnableSlot", "AddressDevice"} : Sent(commands', c) = Sent(commands, c)
  <2>1. CASE commands' = commands
    BY <1>0, <2>1
  <2>2. CASE commands' = Append(commands, Command("ConfigureEndpoint", s, p))
    <3>1. Command("ConfigureEndpoint", s, p) \in CommandType
      BY <1>6 DEF CommandType
    <3>2. /\ commands' \in Seq(CommandType)
          /\ Adds(commands', commands, Command("ConfigureEndpoint", s, p))
      BY <1>0, <2>2, <3>1, AppendAdds
    <3>3. p \in {0} \cup Ports
      BY <1>6
    <3> HIDE DEF p
    <3>4. /\ \A x, y : Asked(commands', x, y) => Asked(commands, x, y)
          /\ \A x : Configuring(commands', x) => Configuring(commands, x) \/ x = s
      BY <1>0, <3>2, <3>3, CommandAdded
    <3>5. \A c : Sent(commands', c) = IF c = "ConfigureEndpoint" THEN Sent(commands, c) + 1
                                                                ELSE Sent(commands, c)
      BY ZenonT(40), <1>0, <3>2, <3>3, CommandAdded
    <3> QED BY <3>2, <3>4, <3>5
  <2> QED BY <1>10, <2>1, <2>2
<1>13. RingsKept(s)
  BY <1>3, <1>4, <1>12 DEF RingsKept
<1>14. failures' \in Nat /\ failures' >= failures
  BY <1>0, <1>2
<1>15. /\ d.port = devices[s].port /\ d.hid > 0 => phase'[d.port] = "Configured"
       /\ phase'[d.port] \in AddressedPhases
       /\ \A x \in Ports : x # d.port => phase'[x] = phase[x]
  BY <1>7, <1>11
<1> QED
  BY <1>2, <1>5, <1>7, <1>8, <1>11, <1>13, <1>14, <1>15, DeviceStepKeepsUsbInv

\* The completion of a transfer.
LEMMA OnTransferKeepsUsbInv == UsbInv /\ OnTransfer => UsbInv'
<1> SUFFICES ASSUME UsbInv, OnTransfer PROVE UsbInv'
  OBVIOUS
<1>1. Event("transfer") /\ events # << >> /\ Head(events).type = "transfer" /\ EventUnchanged
  BY DEF OnTransfer, Event, event
<1>2. PICK s \in Slots, t \in TransferNames, ok \in BOOLEAN :
        Head(events) = TransferEvent(s, t, ok)
  <2>1. Head(events) \in EventType
    BY <1>1, EventTaken DEF UsbInv, Typed
  <2> QED BY <1>1, <2>1, KindsOfEvents
<1>3. CASE ok = TRUE
  BY <1>1, <1>2, <1>3, TransferSucceededKeepsUsbInv
<1>4. CASE ok = FALSE
  <2>1. event.ok = FALSE
    BY <1>2, <1>4 DEF event, TransferEvent
  <2>2. Ignored
    BY <2>1 DEF OnTransfer
  <2>3. \A x, c : /\ TransferEvent(s, t, ok) # PortEvent(x)
                  /\ TransferEvent(s, t, ok) # CommandEvent(c, x)
    BY DEF TransferEvent, CommandEvent, PortEvent
  <2> QED BY <1>1, <1>2, <2>2, <2>3, IgnoredKeepsUsbInv
<1> QED
  BY <1>3, <1>4

\* The controller has completed a transfer.
LEMMA CompleteKeepsUsbInv ==
  ASSUME UsbInv, NEW s \in Slots, NEW t \in TransferNames, NEW d \in DeviceType,
         devices[s].init > 0, Completed(s, t),
         devices' = [devices EXCEPT ![s] = d],
         d.there = devices[s].there, d.port = devices[s].port,
         d.init = devices[s].init, d.hid = devices[s].hid,
         t # "Report" => d.reports = devices[s].reports,
         t = "Report" => devices[s].reports > 0 /\ d.reports = devices[s].reports - 1,
         UNCHANGED <<boot, phase, addressing, commands, portsc, enabled, unplugs>>
  PROVE  UsbInv'
<1>0. events \in Seq(EventType) /\ commands \in Seq(CommandType)
      /\ phase \in [Ports -> Phases] /\ failures \in Nat
  BY DEF UsbInv, Typed
<1>1. PICK ok \in BOOLEAN : events' = Append(events, TransferEvent(s, t, ok))
  BY DEF Completed, Device
<1>2. failures' \in Nat /\ failures' >= failures
  BY <1>0 DEF Completed, Fails
<1>3. TransferEvent(s, t, ok) \in EventType
  BY DEF EventType
<1>4. events' \in Seq(EventType) /\ Adds(events', events, TransferEvent(s, t, ok))
  BY <1>0, <1>1, <1>3, AppendAdds
<1>5. /\ \A x : PortSaid(events', x) <=> PortSaid(events, x)
      /\ \A c, x : Finished(events', c, x) <=> Finished(events, c, x)
      /\ \A x : Transferred(events', x) <=> x = s \/ Transferred(events, x)
      /\ \A c : Done(events', c) = Done(events, c)
      /\ \A x : Reported(events', x) = IF x = s /\ t = "Report" THEN Reported(events, x) + 1
                                                              ELSE Reported(events, x)
  <2>1. Adds(events', events, TransferEvent(s, t, ok))
    BY <1>4
  <2>2. CASE ok = TRUE
    BY ZenonT(90), <2>1, <2>2, TransferAdded
  <2>3. CASE ok = FALSE
    BY ZenonT(90), <2>1, <2>3, TransferAdded
  <2> QED BY <2>2, <2>3
<1>6. RingsKept(s)
  BY <1>0, <1>4, <1>5 DEF RingsKept
<1>7. d.reports + Reported(events', s) <= IF d.hid = 2 THEN 1 ELSE 0
  <2>1. devices[s].reports \in Nat /\ Reported(events, s) \in Nat
    BY InitializedDevice
  <2>2. devices[s].reports + Reported(events, s) <= IF d.hid = 2 THEN 1 ELSE 0
    BY DEF UsbInv, ReportState
  <2>3. d.reports + Reported(events', s) = devices[s].reports + Reported(events, s)
    BY <1>5, <2>1
  <2> QED BY <2>2, <2>3
<1>8. /\ d.init > 0 /\ phase'[d.port] \in AddressedPhases
      /\ d.hid > 0 => phase'[d.port] = "Configured"
      /\ phase' \in [Ports -> Phases] /\ \A x \in Ports : x # d.port => phase'[x] = phase[x]
  BY <1>0, InitializedDevice
<1> QED
  BY <1>2, <1>6, <1>7, <1>8, DeviceStepKeepsUsbInv

LEMMA CompleteControlKeepsUsbInv ==
  ASSUME UsbInv, NEW s \in Slots, CompleteControl(s)
  PROVE  UsbInv'
<1> DEFINE t == Head(devices[s].control)
           requests == Tail(devices[s].control)
           d == [devices[s] EXCEPT !.control = requests]
<1>0. devices \in [AnySlot -> DeviceType] /\ s \in AnySlot /\ devices[s] \in DeviceType
  BY DEF UsbInv, Typed, AnySlot
<1>1. /\ devices[s].control # << >> /\ Completed(s, t)
      /\ devices' = [devices EXCEPT ![s].control = Tail(@)]
      /\ UNCHANGED <<boot, phase, addressing, commands, portsc, enabled, unplugs>>
  BY DEF CompleteControl, Device, ControllerUnchanged, driver
<1>2. devices[s].init > 0
  BY <1>1, InitializedDevice
<1>3. t \in Transfers /\ requests \in Seq(Transfers)
  <2>1. devices[s].control \in Seq(Transfers)
    BY <1>0 DEF DeviceType
  <2> QED BY <1>1, <2>1, TailAdds
<1>4. t \in TransferNames /\ t # "Report"
  BY <1>3 DEF TransferNames, Transfers
<1>5. devices' = [devices EXCEPT ![s] = d]
  BY <1>0, <1>1
<1> HIDE DEF t, requests
<1>6. d \in DeviceType
  BY <1>0, <1>3, DeviceChanged, Zenon
<1>7. /\ d.there = devices[s].there /\ d.port = devices[s].port /\ d.init = devices[s].init
      /\ d.hid = devices[s].hid /\ d.reports = devices[s].reports
  BY <1>0 DEF DeviceType
<1> HIDE DEF d
<1> QED
  BY <1>1, <1>2, <1>4, <1>5, <1>6, <1>7, CompleteKeepsUsbInv

LEMMA CompleteReportKeepsUsbInv ==
  ASSUME UsbInv, NEW s \in Slots, CompleteReport(s)
  PROVE  UsbInv'
<1> DEFINE reports == devices[s].reports - 1
           d == [devices[s] EXCEPT !.reports = reports]
<1>0. devices \in [AnySlot -> DeviceType] /\ s \in AnySlot /\ devices[s] \in DeviceType
  BY DEF UsbInv, Typed, AnySlot
<1>1. /\ devices[s].reports > 0 /\ Completed(s, "Report")
      /\ devices' = [devices EXCEPT ![s].reports = @ - 1]
      /\ UNCHANGED <<boot, phase, addressing, commands, portsc, enabled, unplugs>>
  BY DEF CompleteReport, Device, ControllerUnchanged, driver
<1>2. devices[s].init > 0 /\ devices[s].reports \in Nat
  BY <1>1, InitializedDevice
<1>3. reports \in Nat /\ "Report" \in TransferNames /\ devices[s].control \in Seq(Transfers)
  BY <1>0, <1>1, <1>2 DEF TransferNames, DeviceType
<1>4. devices' = [devices EXCEPT ![s] = d]
  BY <1>0, <1>1
<1>5. d.reports = devices[s].reports - 1
  BY <1>0 DEF DeviceType
<1> HIDE DEF reports
<1>6. d \in DeviceType
  BY <1>0, <1>3, DeviceChanged, Zenon
<1>7. /\ d.there = devices[s].there /\ d.port = devices[s].port /\ d.init = devices[s].init
      /\ d.hid = devices[s].hid
  BY <1>0 DEF DeviceType
<1> HIDE DEF d
<1> QED
  BY <1>1, <1>2, <1>3, <1>4, <1>5, <1>6, <1>7, CompleteKeepsUsbInv

----------------------------------------------------------------------------
(* The commands of the controller that change slots and devices.           *)

\* The controller enables a slot, or has none left.
LEMMA ExecuteEnableSlotKeepsUsbInv == UsbInv /\ ExecuteEnableSlot => UsbInv'
<1> SUFFICES ASSUME UsbInv, ExecuteEnableSlot PROVE UsbInv'
  OBVIOUS
<1>0. events \in Seq(EventType) /\ commands \in Seq(CommandType)
      /\ enabled \subseteq Slots /\ Slots \subseteq AnySlot /\ 0 \in AnySlot /\ 0 \notin Slots
  BY DEF UsbInv, Typed, AnySlot, Slots
<1>1. PICK s \in AnySlot :
        /\ \/ s = 0 /\ enabled' = enabled
           \/ s \in Slots \ enabled /\ enabled' = enabled \cup {s}
        /\ events' = Append(events, CommandEvent("EnableSlot", s))
  <2>1. CASE enabled = Slots
    <3>1. /\ events' = Append(events, CommandEvent("EnableSlot", 0)) /\ enabled' = enabled
      BY <2>1 DEF ExecuteEnableSlot
    <3>2. 0 \in AnySlot
      BY <1>0
    <3> WITNESS 0 \in AnySlot
    <3> QED BY <3>1
  <2>2. CASE enabled # Slots
    <3>1. Min(Slots \ enabled) \in Slots \ enabled
      <4>1. Slots \ enabled \subseteq Nat
        BY DEF Slots
      <4>2. Slots \ enabled # {}
        BY <1>0, <2>2, Zenon
      <4> QED BY <4>1, <4>2, LeastExists
    <3>2. /\ enabled' = enabled \cup {Min(Slots \ enabled)}
          /\ events' = Append(events, CommandEvent("EnableSlot", Min(Slots \ enabled)))
      BY <2>2 DEF ExecuteEnableSlot
    <3> QED BY <1>0, <3>1, <3>2
  <2> QED BY <2>1, <2>2
<1>2. /\ commands # << >> /\ Head(commands).type = "EnableSlot" /\ commands' = Tail(commands)
      /\ UNCHANGED <<boot, phase, addressing, devices, portsc, unplugs, failures>>
  BY DEF ExecuteEnableSlot, faults, ControllerUnchanged, driver
<1>3. /\ commands' \in Seq(CommandType)
      /\ Adds(commands, commands', Command("EnableSlot", 0, 0))
  <2>1. /\ commands' \in Seq(CommandType) /\ Adds(commands, commands', Head(commands))
        /\ Head(commands) \in CommandType
    BY <1>0, <1>2, TailAdds
  <2> QED BY <1>2, <2>1, KindsOfCommands
<1>4. /\ \A x : Configuring(commands', x) => Configuring(commands, x)
      /\ \A x, y : Asked(commands', x, y) <=> Asked(commands, x, y)
      /\ Sent(commands, "EnableSlot") = Sent(commands', "EnableSlot") + 1
      /\ Sent(commands, "AddressDevice") = Sent(commands', "AddressDevice")
  BY <1>0, <1>3, CommandAdded
<1>5. /\ events' \in Seq(EventType)
      /\ Adds(events', events, CommandEvent("EnableSlot", s))
  <2>1. CommandEvent("EnableSlot", s) \in EventType
    BY DEF EventType
  <2> QED BY <1>0, <1>1, <2>1, AppendAdds
<1>6. /\ \A x : PortSaid(events', x) <=> PortSaid(events, x)
      /\ \A d, x : Finished(events', d, x) <=>
                     (d = "EnableSlot" /\ x = s) \/ Finished(events, d, x)
      /\ \A x : Transferred(events', x) <=> Transferred(events, x)
      /\ \A d : Done(events', d) = IF d = "EnableSlot" THEN Done(events, d) + 1
                                                       ELSE Done(events, d)
      /\ \A x : Reported(events', x) = Reported(events, x)
  BY <1>5, CompletionAdded
<1>7. NoFaults' <=> NoFaults
  BY <1>2 DEF NoFaults
<1>8. \A ph : AddressingIn(ph)' <=> AddressingIn(ph)
  BY <1>2 DEF AddressingIn
<1>9. Typed'
  <2>1. enabled' \subseteq Slots
    BY <1>0, <1>1
  <2> QED BY <1>2, <1>3, <1>5, <2>1 DEF UsbInv, Typed
<1>10. OnePort' /\ DeviceState'
  BY <1>2 DEF UsbInv, OnePort, DeviceState
<1>11. PortState'
  BY <1>2, <1>6, <1>8 DEF UsbInv, PortState
<1>12. InFlightState'
  <2>1. \A c : Sent(commands', c) \in Nat /\ Done(events, c) \in Nat
    BY <1>0, <1>3, CountedEvents, CountedCommands
  <2>2. Sent(commands', "EnableSlot") + Done(events', "EnableSlot")
          = Sent(commands, "EnableSlot") + Done(events, "EnableSlot")
    BY <1>4, <1>6, <2>1
  <2>3. Sent(commands', "AddressDevice") + Done(events', "AddressDevice")
          = Sent(commands, "AddressDevice") + Done(events, "AddressDevice")
    BY <1>4, <1>6
  <2> QED BY <1>7, <1>8, <2>2, <2>3 DEF UsbInv, InFlightState
<1>13. EnableState'
  <2>1. ASSUME NEW t \in Slots, Finished(events', "EnableSlot", t)
        PROVE  t \in enabled' /\ devices[t] = NoDevice
    <3>1. CASE t = s
      BY <1>0, <1>1, <3>1 DEF UsbInv, EnableState
    <3>2. CASE t # s
      BY <1>1, <1>6, <2>1, <3>2 DEF UsbInv, EnableState
    <3> QED BY <3>1, <3>2
  <2>2. \A t \in Slots \ enabled' : devices[t] = NoDevice
    BY <1>1 DEF UsbInv, EnableState
  <2> QED BY <1>2, <2>1, <2>2 DEF EnableState
<1>14. AddressState'
  BY <1>2, <1>4, <1>6, <1>7 DEF UsbInv, AddressState
<1>15. OneSlotEach'
  <2>1. enabled \subseteq enabled'
    BY <1>1
  <2> QED BY <1>2, <2>1 DEF UsbInv, OneSlotEach
<1>16. TransferState' /\ ReportState'
  BY <1>2, <1>4, <1>6 DEF UsbInv, TransferState, ReportState
<1> QED
  BY <1>9, <1>10, <1>11, <1>12, <1>13, <1>14, <1>15, <1>16 DEF UsbInv

\* The controller addresses a device, or fails to.
LEMMA ExecuteAddressDeviceKeepsUsbInv == UsbInv /\ ExecuteAddressDevice => UsbInv'
<1> SUFFICES ASSUME UsbInv, ExecuteAddressDevice PROVE UsbInv'
  OBVIOUS
<1>0. /\ events \in Seq(EventType) /\ commands \in Seq(CommandType)
      /\ phase \in [Ports -> Phases] /\ failures \in Nat /\ devices \in [AnySlot -> DeviceType]
      /\ enabled \subseteq Slots /\ Slots \subseteq AnySlot /\ 0 \in AnySlot /\ 0 \notin Slots
      /\ 0 \notin Ports
  BY DEF UsbInv, Typed, AnySlot, Slots, Ports
<1>1. /\ commands # << >> /\ Head(commands).type = "AddressDevice" /\ commands' = Tail(commands)
      /\ UNCHANGED <<boot, phase, addressing, portsc, enabled, unplugs>>
  BY DEF ExecuteAddressDevice, ControllerUnchanged, driver
<1>2. /\ commands' \in Seq(CommandType) /\ Adds(commands, commands', Head(commands))
      /\ Head(commands) \in CommandType
  BY <1>0, <1>1, TailAdds
<1>3. PICK s \in AnySlot, p \in Ports : Head(commands) = Command("AddressDevice", s, p)
  BY <1>1, <1>2, KindsOfCommands
<1>4. Head(commands).slot = s /\ Head(commands).port = p
  BY <1>3 DEF Command
<1>5. /\ Asked(commands, s, p)
      /\ \A x : Configuring(commands', x) => Configuring(commands, x)
      /\ Sent(commands, "EnableSlot") = Sent(commands', "EnableSlot")
      /\ Sent(commands, "AddressDevice") = Sent(commands', "AddressDevice") + 1
  <2>1. Adds(commands, commands', Command("AddressDevice", s, p)) /\ p \in {0} \cup Ports
    BY <1>2, <1>3
  <2> QED BY ZenonT(90), <2>1, CommandAdded
<1>6. /\ events' = Append(events, CommandEvent("AddressDevice", s))
      /\ events' \in Seq(EventType)
      /\ Adds(events', events, CommandEvent("AddressDevice", s))
  <2>1. CommandEvent("AddressDevice", s) \in EventType
    BY DEF EventType
  <2>2. events' = Append(events, CommandEvent("AddressDevice", s))
    BY <1>4 DEF ExecuteAddressDevice
  <2> QED BY <1>0, <2>1, <2>2, AppendAdds
<1>7. /\ \A x : PortSaid(events', x) <=> PortSaid(events, x)
      /\ \A d, x : Finished(events', d, x) <=>
                     (d = "AddressDevice" /\ x = s) \/ Finished(events, d, x)
      /\ \A x : Transferred(events', x) <=> Transferred(events, x)
      /\ \A d : Done(events', d) = IF d = "AddressDevice" THEN Done(events, d) + 1
                                                          ELSE Done(events, d)
      /\ \A x : Reported(events', x) = Reported(events, x)
  BY <1>6, CompletionAdded
<1>8. /\ p = addressing /\ devices[s].there /\ devices[s].port = 0 /\ devices[s].init = 0
      /\ \A t \in Slots : devices[t].port # p
  BY <1>5 DEF UsbInv, AddressState
<1>9. /\ Sent(commands', "AddressDevice") = 0 /\ Done(events, "AddressDevice") = 0
      /\ AddressingIn("AddressingDevice")
  <2>1. \A c : Sent(commands', c) \in Nat /\ Done(events, c) \in Nat
    BY <1>0, <1>2, CountedEvents, CountedCommands
  <2>2. Sent(commands, "AddressDevice") + Done(events, "AddressDevice")
          <= IF AddressingIn("AddressingDevice") THEN 1 ELSE 0
    BY DEF UsbInv, InFlightState
  <2> QED BY <1>5, <2>1, <2>2
<1>10. phase[p] = "AddressingDevice"
  BY <1>8, <1>9 DEF AddressingIn
<1> DEFINE Written == s # 0 /\ devices' = [devices EXCEPT ![s].port = p]
           NotWritten == devices' = devices /\ (s = 0 \/ unplugs # 0 \/ failures' # 0)
<1>11. failures' \in Nat /\ failures' >= failures
  BY <1>0 DEF ExecuteAddressDevice, Fails
<1>12. Written \/ NotWritten
  <2>1. Fails(p) => unplugs # 0 \/ failures' # 0
    <3> SUFFICES ASSUME Fails(p), unplugs = 0 PROVE failures' # 0
      OBVIOUS
    <3>1. portsc[p].ped
      BY <1>10 DEF UsbInv, PortState
    <3> QED BY <1>0, <3>1 DEF Fails
  <2> QED BY <1>4, <2>1 DEF ExecuteAddressDevice
<1>13. /\ devices' \in [AnySlot -> DeviceType]
       /\ \A t \in AnySlot : t # s => devices'[t] = devices[t]
       /\ \A t \in AnySlot :
            /\ devices'[t].there = devices[t].there /\ devices'[t].init = devices[t].init
            /\ devices'[t].hid = devices[t].hid /\ devices'[t].control = devices[t].control
            /\ devices'[t].reports = devices[t].reports
       /\ Written => devices'[s].port = p
  <2>1. CASE NotWritten /\ ~Written
    BY <1>0, <2>1
  <2>2. CASE Written
    <3> DEFINE d == [devices[s] EXCEPT !.port = p]
    <3>1. devices[s] \in DeviceType /\ devices[s].control \in Seq(Transfers)
          /\ p \in {0} \cup Ports
      BY <1>0 DEF DeviceType
    <3>2. d \in DeviceType
      BY <3>1, DeviceChanged, Zenon
    <3>3. /\ d.there = devices[s].there /\ d.init = devices[s].init
          /\ d.hid = devices[s].hid /\ d.control = devices[s].control
          /\ d.reports = devices[s].reports /\ d.port = p
      BY <3>1 DEF DeviceType
    <3>4. devices' = [devices EXCEPT ![s] = d]
      BY <1>0, <2>2
    <3> HIDE DEF d
    <3> QED BY <1>0, <3>2, <3>3, <3>4
  <2> QED BY <1>12, <2>1, <2>2
<1> HIDE DEF Written, NotWritten
<1>14. NoFaults' => NoFaults
  BY <1>0, <1>1, <1>11, <1>13 DEF NoFaults
<1>15. \A ph : AddressingIn(ph)' <=> AddressingIn(ph)
  BY <1>1 DEF AddressingIn
<1>16. Typed'
  BY <1>1, <1>2, <1>6, <1>11, <1>13 DEF UsbInv, Typed
<1>17. OnePort' /\ PortState'
  BY <1>1, <1>7, <1>15 DEF UsbInv, OnePort, PortState
<1>18. InFlightState'
  BY <1>5, <1>7, <1>9, <1>14, <1>15 DEF UsbInv, InFlightState
<1>19. EnableState'
  <2>1. ASSUME NEW t \in Slots, Finished(events', "EnableSlot", t)
        PROVE  t \in enabled /\ devices'[t] = NoDevice
    <3>1. t \in enabled /\ devices[t] = NoDevice
      BY <1>7, <2>1 DEF UsbInv, EnableState
    <3> QED BY <1>0, <1>8, <1>13, <3>1 DEF NoDevice
  <2>2. ASSUME NEW t \in Slots \ enabled PROVE devices'[t] = NoDevice
    <3>1. devices[t] = NoDevice
      BY DEF UsbInv, EnableState
    <3> QED BY <1>0, <1>8, <1>13, <3>1 DEF NoDevice
  <2> QED BY <1>1, <2>1, <2>2 DEF EnableState
<1>20. AddressState'
  <2>1. \A x \in AnySlot, y \in Ports : ~Asked(commands', x, y)
    BY <1>2, <1>9, CountedCommands
  <2>2. ASSUME NEW t \in AnySlot, Finished(events', "AddressDevice", t)
        PROVE  devices'[t].there /\ (t # 0 /\ NoFaults' => devices'[t].port = addressing')
    <3>1. t = s
      BY <1>0, <1>7, <1>9, <2>2, CountedEvents
    <3>2. devices'[t].there
      BY <1>8, <1>13, <3>1
    <3>3. ASSUME t # 0, NoFaults' PROVE devices'[t].port = addressing'
      <4>1. Written
        BY <1>1, <1>12, <3>1, <3>3 DEF NotWritten, NoFaults
      <4> QED BY <1>1, <1>8, <1>13, <3>1, <4>1
    <3> QED BY <3>2, <3>3
  <2> QED BY <2>1, <2>2 DEF AddressState
<1>21. DeviceState'
  <2>1. ASSUME NEW t \in AnySlot, devices'[t].port # 0
        PROVE  /\ t # 0 /\ devices'[t].there
               /\ phase[devices'[t].port] \in AddressedPhases \cup {"AddressingDevice"}
    <3>1. CASE devices'[t].port = devices[t].port
      BY <1>13, <2>1, <3>1 DEF UsbInv, DeviceState
    <3>2. CASE devices'[t].port # devices[t].port
      <4>1. t = s /\ Written
        BY <1>12, <1>13, <3>2 DEF NotWritten
      <4> QED BY <1>8, <1>10, <1>13, <4>1 DEF Written
    <3> QED BY <3>1, <3>2
  <2>2. ASSUME NEW t \in AnySlot
        PROVE  /\ devices'[t].init > 0 =>
                    devices'[t].port # 0 /\ phase[devices'[t].port] \in AddressedPhases
               /\ devices'[t].hid > 0 =>
                    devices'[t].init > 0 /\ phase[devices'[t].port] = "Configured"
               /\ devices'[t].init = 0 => devices'[t].control = << >> /\ devices'[t].reports = 0
    <3>1. CASE t = s
      <4>1. devices[s].hid \in 0 .. 2
        BY <1>0 DEF DeviceType
      <4> QED BY <1>8, <1>13, <3>1, <4>1 DEF UsbInv, DeviceState
    <3>2. CASE t # s
      BY <1>13, <3>2 DEF UsbInv, DeviceState
    <3> QED BY <3>1, <3>2
  <2> QED BY <1>1, <2>1, <2>2 DEF DeviceState
<1>22. OneSlotEach'
  <2>1. ASSUME NEW t \in Slots, NEW u \in Slots,
               devices'[t].port = devices'[u].port, devices'[t].port # 0
        PROVE  t = u
    <3>1. \A x \in Slots : devices'[x].port = devices[x].port \/ (x = s /\ devices'[x].port = p)
      BY <1>0, <1>12, <1>13 DEF NotWritten
    <3> QED BY <1>8, <2>1, <3>1 DEF UsbInv, OneSlotEach
  <2>2. ASSUME NEW x \in Ports, phase[x] \in AddressedPhases
        PROVE  \E t \in enabled : devices'[t].there /\ devices'[t].port = x /\ devices'[t].init > 0
    <3>1. PICK t \in enabled : devices[t].there /\ devices[t].port = x /\ devices[t].init > 0
      BY <2>2 DEF UsbInv, OneSlotEach
    <3>2. t # s /\ t \in AnySlot
      BY <1>0, <1>8, <3>1
    <3> QED BY <1>13, <3>1, <3>2
  <2> QED BY <1>1, <2>1, <2>2 DEF OneSlotEach
<1>23. TransferState'
  BY <1>0, <1>5, <1>7, <1>13 DEF UsbInv, TransferState
<1>24. ReportState'
  BY <1>0, <1>7, <1>13 DEF UsbInv, ReportState
<1> QED
  BY <1>16, <1>17, <1>18, <1>19, <1>20, <1>21, <1>22, <1>23, <1>24 DEF UsbInv

----------------------------------------------------------------------------
(* The theorems.                                                           *)

\* At first no port is being addressed, and the rings hold port events at most.
LEMMA InitUsbInv == Init => UsbInv
<1> SUFFICES ASSUME Init PROVE UsbInv
  OBVIOUS
<1>0. 0 \notin Ports /\ 0 \notin Slots /\ 0 \in AnySlot /\ Slots \subseteq AnySlot
  BY DEF Ports, Slots, AnySlot
<1>1. /\ boot = 1 /\ addressing = 0 /\ phase = [p \in Ports |-> "NotConnected"]
      /\ devices = [s \in AnySlot |-> NoDevice]
      /\ commands = << >> /\ enabled = {} /\ unplugs = 0 /\ failures = 0
  BY DEF Init, AnySlot
<1>2. PICK plugged \in SUBSET Ports, announced \in BOOLEAN :
        /\ portsc = [p \in Ports |-> [ccs |-> p \in plugged, ped |-> FALSE,
                                       csc |-> p \in plugged, prc |-> FALSE]]
        /\ events = IF announced THEN SetToSeq({PortEvent(p) : p \in plugged}) ELSE << >>
  BY DEF Init
<1>3. events \in Seq({PortEvent(p) : p \in Ports})
  <2> DEFINE S == {PortEvent(p) : p \in plugged}
  <2>1. IsFiniteSet(S)
    <3>1. IsFiniteSet(plugged)
      <4>1. IsFiniteSet(Ports)
        BY FS_Interval DEF Ports
      <4> QED BY <4>1, FS_Subset
    <3>2. [p \in plugged |-> PortEvent(p)] \in Surjection(plugged, S)
      BY DEF Surjection
    <3> QED BY <3>1, <3>2, FS_Surjection
  <2>2. SetToSeq(S) \in Seq(S) /\ S \subseteq {PortEvent(p) : p \in Ports}
    BY <2>1, SetToSeqType
  <2>3. events = IF announced THEN SetToSeq(S) ELSE << >>
    BY <1>2
  <2> HIDE DEF S
  <2>4. CASE announced
    <3>1. events \in Seq(S)
      BY <2>2, <2>3, <2>4
    <3> QED BY <2>2, <3>1
  <2>5. CASE ~announced
    BY <2>3, <2>5
  <2> QED BY <2>4, <2>5
<1>4. events \in Seq(EventType) /\ ToSet(events) \subseteq {PortEvent(p) : p \in Ports}
  <2>1. {PortEvent(p) : p \in Ports} \subseteq EventType
    BY DEF EventType
  <2>2. events \in Seq(EventType)
    BY <1>3, <2>1
  <2>3. ToSet(events) \subseteq {PortEvent(p) : p \in Ports}
    BY <1>3, LenProperties DEF ToSet
  <2> QED BY <2>2, <2>3
<1>5. /\ \A c, s : ~Finished(events, c, s)
      /\ \A s : ~Transferred(events, s)
      /\ \A c : Done(events, c) = 0
      /\ \A s : Reported(events, s) = 0
  <2>1. \A p, c, s : PortEvent(p) # CommandEvent(c, s)
    BY DEF PortEvent, CommandEvent
  <2>2. \A p, s, t, ok : PortEvent(p) # TransferEvent(s, t, ok)
    BY DEF PortEvent, TransferEvent
  <2>3. \A c : ToSet(events) \cap CompletionsOf(c) = {}
    BY <1>4, <2>1 DEF CompletionsOf
  <2>4. \A s : ToSet(events) \cap ReportsFrom(s) = {}
    BY <1>4, <2>2 DEF ReportsFrom
  <2>5. \A c : Done(events, c) = 0
    BY <1>4, <2>3, CountType DEF Done
  <2>6. \A s : Reported(events, s) = 0
    BY <1>4, <2>4, CountType DEF Reported
  <2> QED BY <1>4, <2>1, <2>2, <2>5, <2>6 DEF Finished, Transferred
<1>6. /\ commands \in Seq(CommandType)
      /\ \A s, p : ~Asked(commands, s, p)
      /\ \A s : ~Configuring(commands, s)
      /\ \A c : Sent(commands, c) = 0
  <2>1. commands \in Seq(CommandType) /\ ToSet(commands) = {}
    BY <1>1 DEF ToSet
  <2>2. \A c : Sent(commands, c) = 0
    BY <1>1, CountEmpty DEF Sent
  <2> QED BY <2>1, <2>2 DEF Asked, Configuring
<1>7. /\ NoDevice \in DeviceType /\ NoDevice.there = FALSE /\ NoDevice.port = 0
      /\ NoDevice.init = 0 /\ NoDevice.hid = 0 /\ NoDevice.control = << >>
      /\ NoDevice.reports = 0
  BY DEF NoDevice, DeviceType
<1>8. \A s \in AnySlot : devices[s] = NoDevice
  BY <1>1
<1>9. Typed
  <2>1. portsc \in [Ports -> PortscType]
    BY <1>2 DEF PortscType
  <2>2. phase \in [Ports -> Phases] /\ devices \in [AnySlot -> DeviceType]
    BY <1>1, <1>7 DEF Phases
  <2>3. boot \in 1 .. MaxPorts + 1
    BY <1>1
  <2> QED BY <1>1, <1>4, <1>6, <2>1, <2>2, <2>3 DEF Typed
<1>10. OnePort /\ PortState /\ InFlightState
  BY <1>0, <1>1, <1>5, <1>6
     DEF OnePort, PortState, InFlightState, AddressingIn, AddressingPhases
<1>11. EnableState /\ AddressState
  BY <1>1, <1>5, <1>6, <1>8 DEF EnableState, AddressState, AnySlot
<1>12. DeviceState /\ OneSlotEach
  BY <1>0, <1>1, <1>7, <1>8 DEF DeviceState, OneSlotEach, AddressedPhases
<1>13. TransferState /\ ReportState
  BY <1>0, <1>5, <1>6, <1>7, <1>8 DEF TransferState, ReportState
<1> QED
  BY <1>9, <1>10, <1>11, <1>12, <1>13 DEF UsbInv

\* Every step keeps it.
LEMMA NextKeepsUsbInv == UsbInv /\ [Next]_vars => UsbInv'
<1> SUFFICES ASSUME UsbInv, [Next]_vars PROVE UsbInv'
  OBVIOUS
<1>1. CASE ConfigurePort
  BY <1>1, ConfigurePortKeepsUsbInv
<1>2. CASE OnPortStatusChange
  BY <1>2, OnPortStatusChangeKeepsUsbInv
<1>3. CASE OnSlotEnabled
  BY <1>3, OnSlotEnabledKeepsUsbInv
<1>4. CASE OnDeviceAddressed
  BY <1>4, OnDeviceAddressedKeepsUsbInv
<1>5. CASE OnEndpointsConfigured
  BY <1>5, OnEndpointsConfiguredKeepsUsbInv
<1>6. CASE OnTransfer
  BY <1>6, OnTransferKeepsUsbInv
<1>7. CASE ExecuteEnableSlot
  BY <1>7, ExecuteEnableSlotKeepsUsbInv
<1>8. CASE ExecuteAddressDevice
  BY <1>8, ExecuteAddressDeviceKeepsUsbInv
<1>9. CASE ExecuteConfigureEndpoint
  BY <1>9, ExecuteConfigureEndpointKeepsUsbInv
<1>10. ASSUME NEW s \in Slots, CompleteControl(s) \/ CompleteReport(s) PROVE UsbInv'
  BY <1>10, CompleteControlKeepsUsbInv, CompleteReportKeepsUsbInv
<1>11. ASSUME NEW p \in Ports, Plug(p) \/ Unplug(p) PROVE UsbInv'
  BY <1>11, PlugKeepsUsbInv
<1>12. CASE UNCHANGED vars
  BY <1>12 DEF vars, driver, faults, UsbInv, Typed, OnePort, PortState, InFlightState,
               EnableState, AddressState, DeviceState, OneSlotEach, TransferState, ReportState,
               AddressingIn, NoFaults
<1> QED
  BY <1>1, <1>2, <1>3, <1>4, <1>5, <1>6, <1>7, <1>8, <1>9, <1>10, <1>11, <1>12
     DEF Next, Driver, ProcessEvent, Controller, ExecuteCommand

LEMMA AlwaysUsbInv == Spec => []UsbInv
<1> QED
  BY InitUsbInv, NextKeepsUsbInv, PTL DEF Spec

\* What follows from the invariant: no two ports are being addressed.
LEMMA OneAtATimeFollows == UsbInv => OneAtATime
<1> SUFFICES ASSUME UsbInv PROVE OneAtATime
  OBVIOUS
<1>1. TypeOK
  <2>1. \A s \in {0} \cup Slots :
          /\ Device(s).port \in {0} \cup Ports
          /\ Device(s).init \in 0 .. 4 /\ Device(s).hid \in 0 .. 2
          /\ Device(s).control \in Seq(Transfers) /\ Device(s).reports \in Nat
    BY DEF Device, UsbInv, Typed, DeviceType, AnySlot
  <2> QED BY <2>1 DEF TypeOK, UsbInv, Typed, PortscType
<1> QED
  BY <1>1 DEF OneAtATime, UsbInv, OnePort, AddressingPhases

\* The port that is being addressed has what moves it on.
LEMMA AddressedPortMovesFollows == UsbInv => AddressedPortMoves
<1> SUFFICES ASSUME UsbInv PROVE AddressedPortMoves
  OBVIOUS
<1>1. ASSUME unplugs = 0, addressing # 0, phase[addressing] = "ResettingPort"
      PROVE  \E i \in 1 .. Len(events) : events[i] = PortEvent(addressing)
  <2>1. PortSaid(events, addressing)
    BY <1>1 DEF UsbInv, PortState, AddressingIn
  <2>2. DOMAIN events = 1 .. Len(events)
    BY LenProperties DEF UsbInv, Typed
  <2> QED BY <2>1, <2>2 DEF PortSaid, ToSet
<1>2. \A c : InFlight(c) = Sent(commands, c) + Done(events, c)
  BY DEF InFlight, Sent, Done
<1>3. InFlight("EnableSlot")
        = IF addressing # 0 /\ phase[addressing] = "EnablingSlot" THEN 1 ELSE 0
  BY <1>2 DEF UsbInv, InFlightState, AddressingIn
<1>4. \A c : Sent(commands, c) \in Nat /\ Done(events, c) \in Nat
  BY CountedEvents, CountedCommands DEF UsbInv, Typed
<1>5. InFlight("AddressDevice")
        <= IF addressing # 0 /\ phase[addressing] = "AddressingDevice" THEN 1 ELSE 0
  BY <1>2 DEF UsbInv, InFlightState, AddressingIn
<1>6. ASSUME unplugs + failures = 0, ~Device(0).there
      PROVE  InFlight("AddressDevice")
               = IF addressing # 0 /\ phase[addressing] = "AddressingDevice" THEN 1 ELSE 0
  <2>1. NoFaults
    BY <1>6 DEF NoFaults, Device, UsbInv, Typed
  <2>2. CASE AddressingIn("AddressingDevice")
    BY <1>2, <2>1, <2>2 DEF UsbInv, InFlightState, AddressingIn
  <2>3. CASE ~AddressingIn("AddressingDevice")
    BY <1>2, <1>4, <1>5, <2>3 DEF AddressingIn
  <2> QED BY <2>2, <2>3
<1>7. InFlight("AddressDevice") <= 1
  BY <1>2, <1>4, <1>5
<1> QED
  BY <1>1, <1>3, <1>6, <1>7 DEF AddressedPortMoves

\* Every port has one slot at most, and the device of one that has its address is
\* in it.
LEMMA SlotsBelongToPortsFollows == UsbInv => SlotsBelongToPorts
BY DEF UsbInv, OneSlotEach, SlotsBelongToPorts, Device, AddressedPhases

\* One report of a device is on its way.
LEMMA OneReportFollows == UsbInv => OneReport
<1> SUFFICES ASSUME UsbInv, NEW s \in Slots
             PROVE  Device(s).reports + CountIn(events, ReportsFrom(s)) <= 1
  BY DEF OneReport
<1> QED
  BY InitializedDevice DEF Device, Reported

\* Never are two ports between their reset and their address, whose devices would
\* both answer to the default address (ResetPort and the comment at xhci.cpp:39).
THEOREM AlwaysOneAtATime == Spec => []OneAtATime
<1> QED
  BY AlwaysUsbInv, OneAtATimeFollows, PTL

\* The port that is being addressed is never stuck: a port event, or exactly one
\* command or its completion, is on its way for it (EnableSlot, AddressDevice and
\* OnCommandCompletionEvent in xhci.cpp).
THEOREM AddressedPortAlwaysMoves == Spec => []AddressedPortMoves
<1> QED
  BY AlwaysUsbInv, AddressedPortMovesFollows, PTL

\* The device contexts that the driver finds by a slot are those of different ports,
\* and every port whose device has its address is found (OnCommandCompletionEvent,
\* OnTransferEvent).
THEOREM SlotsAlwaysBelongToPorts == Spec => []SlotsBelongToPorts
<1> QED
  BY AlwaysUsbInv, SlotsBelongToPortsFollows, PTL

\* A report never comes to a buffer that holds one which has not been read, whatever
\* number of endpoints calls the class driver (OnEndpointsConfigured and
\* OnControlCompleted in hid.cpp).
THEOREM AlwaysOneReport == Spec => []OneReport
<1> QED
  BY AlwaysUsbInv, OneReportFollows, PTL

----------------------------------------------------------------------------
(* The transfers of a device: the stages of its control transfers.         *)

SetupsIn == {SetupStage(r, TRUE) : r \in DataRequests}
SetupsOut == {SetupStage(r, FALSE) : r \in Requests \ DataRequests}
Setups == SetupsIn \cup SetupsOut
Statuses == {StatusStage(FALSE), StatusStage(TRUE)}

\* The driver is told when the stage is complete.
Interrupting == {DataStage, StatusStage(TRUE)}

\* The order of the stages.
Follows(x, y) ==
  \/ x \in SetupsIn /\ y = DataStage
  \/ x \in SetupsOut /\ y = StatusStage(TRUE)
  \/ x = DataStage /\ y = StatusStage(FALSE)
  \/ x \in Statuses \cup {Zero} /\ y \in Setups

----------------------------------------------------------------------------
(* What the driver still has to do.                                        *)

Drivers(times) == Cons(ConfigureDrivers(times), <<PopEvent>>)

Ends == {<< >>, <<PopEvent>>} \cup {Drivers(times) : times \in Nat}

\* What comes after a control transfer: nothing, the end of the handler, or first
\* the other transfers of CompleteConfiguration, times of them.
Ending(end, times) ==
  /\ times \in Nat
  /\ \/ end \in {<< >>, <<PopEvent>>} /\ times = 0
     \/ end = Drivers(times)

PutOn(end) == Cons(PutSetup, Cons(Doorbell("control"), end))
StatusOn(ioc, end) == Cons(PushTo("control", StatusStage(ioc)), PutOn(end))
DataOn(end) == Cons(PushTo("control", DataStage), StatusOn(FALSE, end))

\* Where the driver is: the next thing to do, of a control transfer or other.
At(t, pc, end) ==
  \/ pc = "setupIn" /\ \E x \in SetupsIn : t = Cons(PushTo("control", x), DataOn(end))
  \/ pc = "setupOut" /\ \E x \in SetupsOut : t = Cons(PushTo("control", x), StatusOn(TRUE, end))
  \/ pc = "data" /\ t = DataOn(end)
  \/ pc = "statusIn" /\ t = StatusOn(FALSE, end)
  \/ pc = "statusOut" /\ t = StatusOn(TRUE, end)
  \/ pc = "put" /\ t = PutOn(end)
  \/ pc = "bell" /\ t = Cons(Doorbell("control"), end)
  \/ pc = "end" /\ t = end
  \/ pc = "report" /\ t = Cons(PushTo("interrupt", Normal), Cons(Doorbell("interrupt"), end))
  \/ pc = "reportBell" /\ t = Cons(Doorbell("interrupt"), end)
  \/ pc = "command" /\ t = Cons(ConfigureEndpoint, end)

Quiet == {"bell", "end", "report", "reportBell", "command"}
Busy == {"setupIn", "setupOut", "data", "statusIn", "statusOut", "put"}

Copying(r) == r.step = "copying"

\* The TRBs that are to be pushed to the control ring, the one being copied included,
\* and the entries that are to be put into the map.
StagesLeft(pc) == CASE pc = "setupIn" -> 3
                    [] pc \in {"setupOut", "data"} -> 2
                    [] pc \in {"statusIn", "statusOut"} -> 1
                    [] OTHER -> 0
Pushes(r, pc, times) == StagesLeft(pc) + 2 * times + (IF Copying(r) THEN 1 ELSE 0)
Puts(pc, times) == times + (IF pc \in Busy THEN 1 ELSE 0)

----------------------------------------------------------------------------
(* The places of a ring.                                                   *)

StagePlaces == 0 .. LinkPlace - 1
Before(p) == IF p = 0 THEN LinkPlace - 1 ELSE p - 1

\* The place that is written next, and how many TRBs can be pushed before a place is.
Free(r) == IF r.write = LinkPlace THEN 0 ELSE r.write
Ahead(r, p) == IF p >= Free(r) THEN p - Free(r) ELSE p - Free(r) + LinkPlace

\* The controller has not yet taken the TRB.
OnItsWay(r, p) == IF r.cycle = r.ccs THEN r.deq <= p /\ p < r.write
                  ELSE r.deq <= p \/ p < r.write

\* The TRB that has been taken last.
Taken(r) == Before(r.deq)

\* What has been pushed last or is being pushed.
LastPlace(r) == IF Copying(r) THEN Free(r) ELSE Before(Free(r))
LastTrb(r) == IF Copying(r) THEN r.low[Free(r)] ELSE r.high[Before(Free(r))]

----------------------------------------------------------------------------
(* The events.                                                             *)

AskedFor == Requests \cup {"none"}

Answers(p) == {TransferCompletion("control", p, TRUE, r) : r \in AskedFor}
AllAnswers == UNION {Answers(p) : p \in StagePlaces}
InterruptReports == [type : {"TransferEvent"}, endpoint : {"interrupt"}, at : StagePlaces,
                     ok : {TRUE}, request : AskedFor]
Failures == [type : {"TransferEvent"}, endpoint : {"control", "interrupt"}, at : StagePlaces,
             ok : {FALSE}, request : AskedFor]
AllEvents == AllAnswers \cup InterruptReports \cup Failures \cup {CommandCompletion}

\* The events that have not been handled: the first in the ring has been, if its
\* handler goes on.
Unhandled(ring, end) == IF end = << >> THEN Pending(ring) ELSE Tail(Pending(ring))
AnswersIn(q, p) == CountIn(q, Answers(p))

\* A stage that interrupts has been sent or completed.
Open(r, q, p) == \/ OnItsWay(r, p) /\ r.high[p] \in Interrupting
                 \/ AnswersIn(q, p) # 0

----------------------------------------------------------------------------
(* The invariant.                                                          *)

\* What is left to do of one control transfer, or of the handler of an event.
TodoOK(pc, end, times) ==
  /\ Ending(end, times) /\ At(todo, pc, end)
  /\ control.step # "ready" => pc \in {"data", "statusIn", "statusOut", "put"}
  /\ interrupt.step # "ready" => pc = "reportBell"
  /\ end = Drivers(times) => hid.init < 2
  /\ end # << >> => Pending(eventRing) # << >>

\* The stages pushed so far of the transfer that is being sent, and the places
\* where ControlIn and ControlOut have noted them.
PushedOK(pc) ==
  /\ pushed \in [setup : Places, ioc : Places]
  /\ pc \notin {"data", "statusIn", "statusOut"} => LastTrb(control) \in Statuses \cup {Zero}
  /\ pc = "data" => LastTrb(control) \in SetupsIn /\ pushed.setup = LastPlace(control)
  /\ pc = "statusOut" => LastTrb(control) \in SetupsOut /\ pushed.setup = LastPlace(control)
  /\ pc = "statusIn" => LastTrb(control) = DataStage /\ pushed.ioc = LastPlace(control)
  /\ pc \in {"statusIn", "put"} =>
       pushed.ioc \in StagePlaces /\ pushed.setup = Before(pushed.ioc)
  /\ pc = "put" /\ LastTrb(control) = StatusStage(TRUE) => pushed.ioc = LastPlace(control)

\* The stages that are on their way follow each other, and those taken before them.
StagesOK ==
  /\ \A p \in StagePlaces :
       OnItsWay(control, p) => Follows(control.high[Before(p)], control.high[p])
  /\ Copying(control) => Follows(control.high[Before(Free(control))], control.low[Free(control)])
  /\ control.seen[2] = control.high[Taken(control)]
  /\ xhc.request \in AskedFor
  /\ control.seen[2] \in Setups /\ "control" \notin xhc.halted =>
       xhc.request = control.seen[2].request

\* The stage at place p interrupts: it and its setup stage are not written over, even
\* when all is pushed that is to be, and the map has them or is about to.
TicketOK(p, pc, times) ==
  /\ Ahead(control, p) > Pushes(control, pc, times)
  /\ control.high[p] \in Interrupting /\ control.high[Before(p)] \in Setups
  /\ Follows(control.high[Before(p)], control.high[p])
  /\ Holding(setupMap, p) # {} \/ (pc \in {"statusIn", "put"} /\ pushed.ioc = p)

TicketsOK(q, pc, times) == \A p \in StagePlaces : Open(control, q, p) => TicketOK(p, pc, times)

\* Each answer is the one to the setup stage before, and its stages are not on their way.
AnswersOK(q) ==
  /\ \A p \in StagePlaces : /\ AnswersIn(q, p) \in {0, 1}
                            /\ AnswersIn(q, p) = 1 => Ahead(control, p) + Count(control) < LinkPlace
  /\ \A p \in StagePlaces : \A e \in Answers(p) \cap ToSet(q) :
       e.request = control.high[Before(p)].request

Total == IF portPhase = "Configured" THEN Cardinality(Numbers(dev.eps)) ELSE 1

\* The map has room for what is to be put into it.
MapOK(pc, times) ==
  /\ Puts(pc, times) <= Total
  /\ DOMAIN setupMap = 1 .. MapSize
  /\ \A i \in 1 .. MapSize :
       /\ i > Total - Puts(pc, times) => setupMap[i] = None
       /\ setupMap[i] = None \/ \E p \in StagePlaces : setupMap[i] = <<p, Before(p)>>

\* The requests of the device itself: one transfer at a time.
WhileInitializing(q, pc, times) ==
  portPhase = "InitializingDevice" =>
    /\ dev.init \in 1 .. 3 /\ times = 0 /\ hid.init = 0
    /\ pc \notin {"report", "reportBell", "command"}
    /\ \A p1, p2 \in StagePlaces : Open(control, q, p1) /\ Open(control, q, p2) => p1 = p2
    /\ \A p \in StagePlaces : Open(control, q, p) =>
         LinkPlace - Ahead(control, p) + Pushes(control, pc, times)
           <= IF control.high[p] = DataStage THEN 2 ELSE 1

\* Nothing is under way when the command is sent.
WhileConfiguring(q, pc, times) ==
  portPhase = "ConfiguringEndpoints" =>
    /\ dev.init = 4 /\ times = 0 /\ hid.init = 0
    /\ pc \in {"command", "end"} /\ Count(control) = 0
    /\ \A p \in StagePlaces : AnswersIn(q, p) = 0
    /\ \A i \in 1 .. MapSize : setupMap[i] = None

PhaseOK ==
  /\ dev.config \in Configs /\ dev.init \in 1 .. 4 /\ hid.init \in 0 .. 2
  /\ dev.init \in {3, 4} => dev.eps = EpConfigs(dev.config)
  /\ portPhase \in {"InitializingDevice", "ConfiguringEndpoints", "Configured"}
  /\ portPhase = "Configured" => dev.init = 4

\* The ring has room for what is to be pushed.
RoomOK(pc, times) == Count(control) + Pushes(control, pc, times) <= Capacity

ControlInv(q, pc, times) ==
  /\ PushedOK(pc) /\ StagesOK /\ TicketsOK(q, pc, times) /\ AnswersOK(q) /\ MapOK(pc, times)
  /\ WhileInitializing(q, pc, times) /\ WhileConfiguring(q, pc, times) /\ PhaseOK /\ RoomOK(pc, times)

ReportsIn(q) == CountIn(q, InterruptReports)

\* There is one TRB that asks for a report, or one report.
ReportInv(q, pc) ==
  /\ Count(interrupt) + (IF pc = "report" \/ Copying(interrupt) THEN 1 ELSE 0) + ReportsIn(q) <= 1
  /\ hid.init < 2 => Count(interrupt) = 0 /\ pc # "report" /\ ~Copying(interrupt) /\ ReportsIn(q) = 0
  /\ \A e \in InterruptReports \cap ToSet(q) : interrupt.high[e.at] = Normal

KeysOK ==
  /\ keyboard.pressed \in [Keys -> Nat] /\ keyboard.told \in [Keys -> Nat]
  /\ keyboard.down \subseteq Keys
  /\ keyboard.changed \in BOOLEAN /\ keyboard.rolled \in BOOLEAN
  /\ hid.buf \cup hid.previous \subseteq Keys \cup {RollOver}

\* What is not told of the presses is in the report, or to be in the next one.
KeysInv(q) ==
  /\ KeysOK
  /\ ~keyboard.rolled =>
       /\ \A k \in Keys : keyboard.pressed[k] - keyboard.told[k] =
            IF k \in hid.buf \ hid.previous \/ k \in keyboard.down \ hid.buf THEN 1 ELSE 0
       /\ ~keyboard.changed => keyboard.down = hid.buf
       /\ ReportsIn(q) = 0 => hid.previous = hid.buf

XhcOK == xhc.active \cup xhc.halted \subseteq {"control", "interrupt"}

\* The variables that are records.
RecordsOK ==
  /\ dev = [init |-> dev.init, buf |-> dev.buf, config |-> dev.config, eps |-> dev.eps,
            waiters |-> dev.waiters]
  /\ hid = [init |-> hid.init, buf |-> hid.buf, previous |-> hid.previous]
  /\ xhc = [active |-> xhc.active, halted |-> xhc.halted, request |-> xhc.request,
            command |-> xhc.command, failures |-> xhc.failures]
  /\ keyboard = [down |-> keyboard.down, changed |-> keyboard.changed,
                 rolled |-> keyboard.rolled, changes |-> keyboard.changes,
                 pressed |-> keyboard.pressed, told |-> keyboard.told]

\* The invariant of a state where the driver is at pc, comes to end next and the events
\* of q are not handled.
InvAt(q, pc, end, times) ==
  /\ RecordsOK /\ TodoOK(pc, end, times) /\ ControlInv(q, pc, times) /\ ReportInv(q, pc) /\ KeysInv(q)
  /\ XhcOK

TransfersInv ==
  \E pc \in Busy \cup Quiet, times \in Nat :
    \E end \in {<< >>, <<PopEvent>>, Drivers(times)} :
      InvAt(Unhandled(eventRing, end), pc, end, times)

----------------------------------------------------------------------------
(* The kinds of stages and events.                                         *)

\* What tells the stages of a control transfer apart.
LEMMA StageKinds ==
  /\ \A x \in SetupsIn : x \notin SetupsOut /\ x.request \in DataRequests
  /\ \A x \in SetupsOut : x.request \in Requests \ DataRequests
  /\ \A x \in Setups : x.type = "Setup" /\ x \notin Interrupting /\ x \notin Statuses
                       /\ x # Zero /\ x.request \in Requests
  /\ \A x \in SetupsIn : x.data = TRUE
  /\ \A x \in SetupsOut : x.data = FALSE
  /\ DataStage.type = "Data" /\ DataStage.ioc = TRUE
  /\ \A x \in Statuses : x.type = "Status"
  /\ StatusStage(TRUE).ioc = TRUE /\ StatusStage(FALSE).ioc = FALSE
  /\ Zero.type = "Reserved" /\ Link.type = "Link" /\ Normal.type = "Normal"
  /\ DataStage \notin Statuses /\ DataStage # Zero /\ Zero \notin Statuses
  /\ StatusStage(TRUE) # StatusStage(FALSE)
<1>1. \A x \in SetupsIn : /\ x.type = "Setup" /\ x.request \in DataRequests /\ x.data = TRUE
  BY DEF SetupsIn, SetupStage
<1>2. \A x \in SetupsOut : /\ x.type = "Setup" /\ x.request \in Requests \ DataRequests
                           /\ x.data = FALSE
  BY DEF SetupsOut, SetupStage
<1>3. /\ DataStage.type = "Data" /\ DataStage.ioc = TRUE
      /\ StatusStage(TRUE).type = "Status" /\ StatusStage(FALSE).type = "Status"
      /\ StatusStage(TRUE).ioc = TRUE /\ StatusStage(FALSE).ioc = FALSE
      /\ Zero.type = "Reserved" /\ Link.type = "Link" /\ Normal.type = "Normal"
  BY DEF DataStage, StatusStage, Zero, Link, Normal
<1>4. DataRequests \subseteq Requests
  BY DEF DataRequests, Requests
<1>5. StatusStage(TRUE) # StatusStage(FALSE)
  BY <1>3
<1>6. \A x \in Setups : x.type = "Setup" /\ x.request \in Requests
  BY <1>1, <1>2, <1>4 DEF Setups
<1>7. \A x \in Statuses : x.type = "Status"
  BY <1>3 DEF Statuses
<1>8. \A x \in Interrupting : x.type # "Setup"
  BY <1>3 DEF Interrupting
<1>9. \A x \in Setups : x \notin Interrupting /\ x \notin Statuses /\ x # Zero
  BY <1>3, <1>6, <1>7, <1>8
<1>10. \A x \in SetupsIn : x \notin SetupsOut
  BY <1>1, <1>2
<1>11. DataStage \notin Statuses /\ DataStage # Zero /\ Zero \notin Statuses
  BY <1>3, <1>7
<1> QED BY <1>1, <1>2, <1>3, <1>5, <1>6, <1>7, <1>9, <1>10, <1>11

\* The TRBs of control transfers by their kind.
LEMMA StagesOfKinds ==
  /\ ControlTrbs = Setups \cup {DataStage} \cup Statuses
  /\ \A x \in ControlTrbs : /\ x.type = "Setup" <=> x \in Setups
                            /\ x.type = "Data" <=> x = DataStage
                            /\ x.type = "Status" <=> x \in Statuses
                            /\ x.type # "Link" /\ x.type # "Normal" /\ x # Zero
<1>1. \A r \in Requests : SetupStage(r, r \in DataRequests) =
        IF r \in DataRequests THEN SetupStage(r, TRUE) ELSE SetupStage(r, FALSE)
  <2>1. ASSUME NEW r \in Requests, r \in DataRequests
        PROVE  SetupStage(r, r \in DataRequests) = SetupStage(r, TRUE)
    <3>1. (r \in DataRequests) = TRUE
      BY <2>1
    <3> QED BY <3>1, Zenon
  <2>2. ASSUME NEW r \in Requests, r \notin DataRequests
        PROVE  SetupStage(r, r \in DataRequests) = SetupStage(r, FALSE)
    <3>1. (r \in DataRequests) = FALSE
      BY <2>2
    <3> QED BY <3>1, Zenon
  <2> QED BY <2>1, <2>2
<1>2. DataRequests \subseteq Requests
  BY DEF DataRequests, Requests
<1>3. {SetupStage(r, r \in DataRequests) : r \in Requests} = Setups
  <2>1. \A r \in Requests : SetupStage(r, r \in DataRequests) \in Setups
    <3>1. ASSUME NEW r \in Requests, r \in DataRequests
          PROVE  SetupStage(r, r \in DataRequests) \in SetupsIn
      BY <3>1, <1>1, Zenon DEF SetupsIn
    <3>2. ASSUME NEW r \in Requests, r \notin DataRequests
          PROVE  SetupStage(r, r \in DataRequests) \in SetupsOut
      BY <3>2, <1>1, Zenon DEF SetupsOut
    <3> QED BY <3>1, <3>2, Zenon DEF Setups
  <2>2. \A x \in SetupsIn : \E r \in Requests : x = SetupStage(r, r \in DataRequests)
    BY <1>1, <1>2, Zenon DEF SetupsIn
  <2>3. \A x \in SetupsOut : \E r \in Requests : x = SetupStage(r, r \in DataRequests)
    BY <1>1, Zenon DEF SetupsOut
  <2> HIDE DEF SetupsIn, SetupsOut
  <2> QED BY <2>1, <2>2, <2>3, Zenon DEF Setups
<1>4. {StatusStage(i) : i \in BOOLEAN} = Statuses
  BY DEF Statuses
<1>5. ControlTrbs = Setups \cup {DataStage} \cup Statuses
  BY <1>3, <1>4 DEF ControlTrbs
<1> QED BY <1>5, StageKinds

\* What may follow what.
LEMMA FollowKinds ==
  ASSUME NEW x, NEW y, Follows(x, y)
  PROVE  /\ y \in Interrupting => x \in Setups
         /\ y = DataStage <=> x \in SetupsIn
         /\ y = StatusStage(TRUE) <=> x \in SetupsOut
         /\ y = StatusStage(FALSE) <=> x = DataStage
         /\ y \in Setups <=> x \in Statuses \cup {Zero}
BY StageKinds DEF Follows, Interrupting, Setups, Statuses

----------------------------------------------------------------------------
\* What tells the events apart.
LEMMA EventKinds ==
  /\ \A p \in StagePlaces : \A e \in Answers(p) :
       /\ e \in AllEvents /\ e.type = "TransferEvent" /\ e.endpoint = "control" /\ e.at = p
       /\ e.ok = TRUE /\ e \notin InterruptReports
       /\ \A q \in StagePlaces : e \in Answers(q) => q = p
  /\ \A e \in InterruptReports :
       /\ e \in AllEvents /\ e.type = "TransferEvent" /\ e.endpoint = "interrupt"
       /\ e.at \in StagePlaces /\ e.ok = TRUE
  /\ \A e \in Failures : e \in AllEvents /\ e.type = "TransferEvent" /\ e.ok = FALSE
                         /\ e \notin InterruptReports /\ \A p \in StagePlaces : e \notin Answers(p)
  /\ CommandCompletion.type = "CommandCompletionEvent" /\ CommandCompletion \in AllEvents
  /\ CommandCompletion \notin InterruptReports
  /\ \A p \in StagePlaces : CommandCompletion \notin Answers(p)
<1>1. \A p \in StagePlaces : \A e \in Answers(p) :
        /\ e.type = "TransferEvent" /\ e.endpoint = "control" /\ e.at = p /\ e.ok = TRUE
  BY DEF Answers, TransferCompletion
<1>2. \A e \in InterruptReports :
        /\ e.type = "TransferEvent" /\ e.endpoint = "interrupt" /\ e.at \in StagePlaces
        /\ e.ok = TRUE
  BY DEF InterruptReports, TransferCompletion
<1>3. \A e \in Failures : e.type = "TransferEvent" /\ e.ok = FALSE
  BY DEF Failures, TransferCompletion
<1>4. CommandCompletion.type = "CommandCompletionEvent"
  BY DEF CommandCompletion
<1>5. /\ \A p \in StagePlaces : Answers(p) \subseteq AllAnswers
      /\ AllAnswers \cup InterruptReports \cup Failures \cup {CommandCompletion} = AllEvents
  BY DEF AllAnswers, AllEvents
<1> HIDE DEF CommandCompletion
<1> QED BY <1>1, <1>2, <1>3, <1>4, <1>5

\* The events by their kind.
LEMMA EventsOfKinds ==
  ASSUME NEW e \in AllEvents
  PROVE  /\ e \in InterruptReports \cup Failures \cup {CommandCompletion}
            \/ \E p \in StagePlaces : e \in Answers(p)
         /\ e.type = "CommandCompletionEvent" <=> e = CommandCompletion
         /\ e.type = "TransferEvent" /\ e.ok => e \in InterruptReports
                                               \/ \E p \in StagePlaces : e \in Answers(p)
         /\ e.type = "TransferEvent" /\ ~e.ok => e \in Failures
<1>1. e \in InterruptReports \cup Failures \cup {CommandCompletion}
      \/ \E p \in StagePlaces : e \in Answers(p)
  BY DEF AllEvents, AllAnswers
<1> QED BY <1>1, EventKinds

----------------------------------------------------------------------------
(* One ring: what a step of it does to its places.                         *)

\* The sizes of the rings (transfer rings of 32 TRBs in the code).
LEMMA TransferPlaces ==
  /\ LinkPlace \in Nat /\ LinkPlace >= 5 /\ Capacity = LinkPlace - 1 /\ Places = 0 .. LinkPlace
  /\ Size \in Nat /\ LinkPlace = Size - 1
BY TransferSizes, SizeAssumption DEF LinkPlace, Capacity, Places

\* What the invariant of a ring, which module RingProofs proves, says of it here.
RingOK(r, T) ==
  /\ r \in [low : [Places -> T \cup {Zero, Link}], high : [Places -> T \cup {Zero, Link}],
            bit : [Places -> {0, 1}], write : Places, cycle : {0, 1},
            step : {"ready", "copying", "fullLap", "linking"}, deq : Places, ccs : {0, 1},
            seen : (T \cup {Zero, Link}) \X (T \cup {Zero, Link})]
  /\ r.write = LinkPlace <=> r.step \in {"fullLap", "linking"}
  /\ IF r.cycle = r.ccs THEN r.deq <= r.write ELSE r.write < r.deq
  /\ Count(r) <= Capacity /\ (Copying(r) => Count(r) < Capacity)
  /\ \A p \in StagePlaces : OnItsWay(r, p) => r.high[p] \in T
  /\ Copying(r) => r.low[r.write] \in T

\* The distances between the places.
PlacesOK(r) ==
  /\ Free(r) \in StagePlaces /\ Taken(r) \in StagePlaces
  /\ Count(r) \in Nat /\ Count(r) <= Capacity /\ (Copying(r) => Count(r) < Capacity)
  /\ \A p \in StagePlaces :
       /\ Ahead(r, p) \in 0 .. LinkPlace - 1 /\ Before(p) \in StagePlaces
       /\ Ahead(r, p) = 0 <=> p = Free(r)
       /\ Ahead(r, p) = LinkPlace - 1 <=> p = Before(Free(r))
       /\ p # Free(r) => Ahead(r, Before(p)) = Ahead(r, p) - 1
       /\ OnItsWay(r, p) => Ahead(r, p) + Count(r) >= LinkPlace
  /\ Ahead(r, Taken(r)) + Count(r) = LinkPlace - 1
  /\ r.step \in {"ready", "copying"} => r.write = Free(r)

\* The steps of a ring as far as the places are concerned.
Stays(r, s) ==
  /\ Free(s) = Free(r) /\ Count(s) = Count(r) /\ Taken(s) = Taken(r) /\ s.seen = r.seen
  /\ Copying(s) <=> Copying(r)
  /\ Copying(r) => s.low[Free(s)] = r.low[Free(r)]
  /\ \A p \in StagePlaces : /\ OnItsWay(s, p) <=> OnItsWay(r, p)
                            /\ s.high[p] = r.high[p] /\ Ahead(s, p) = Ahead(r, p)

BeginsIn(r, s, x) ==
  /\ Free(s) = Free(r) /\ Count(s) = Count(r) /\ Taken(s) = Taken(r) /\ s.seen = r.seen
  /\ ~Copying(r) /\ Copying(s) /\ s.low[Free(s)] = x
  /\ \A p \in StagePlaces : /\ OnItsWay(s, p) <=> OnItsWay(r, p)
                            /\ s.high[p] = r.high[p] /\ Ahead(s, p) = Ahead(r, p)

Copies(r, s) ==
  /\ Before(Free(s)) = Free(r) /\ Count(s) = Count(r) + 1
  /\ Taken(s) = Taken(r) /\ s.seen = r.seen
  /\ Copying(r) /\ ~Copying(s)
  /\ \A p \in StagePlaces :
       /\ OnItsWay(s, p) <=> OnItsWay(r, p) \/ p = Free(r)
       /\ s.high[p] = IF p = Free(r) THEN r.low[Free(r)] ELSE r.high[p]
       /\ Ahead(s, p) = IF p = Free(r) THEN LinkPlace - 1 ELSE Ahead(r, p) - 1

Takes(r, s, d) ==
  /\ OnItsWay(r, d) /\ d \in StagePlaces /\ Ahead(r, d) + Count(r) = LinkPlace
  /\ Free(s) = Free(r) /\ Count(s) = Count(r) - 1
  /\ Before(d) = Taken(r) /\ Taken(s) = d /\ s.seen[2] = r.high[d]
  /\ Copying(s) <=> Copying(r)
  /\ Copying(r) => s.low[Free(s)] = r.low[Free(r)]
  /\ \A p \in StagePlaces : /\ OnItsWay(s, p) <=> OnItsWay(r, p) /\ p # d
                            /\ s.high[p] = r.high[p] /\ Ahead(s, p) = Ahead(r, p)

\* What is known of the places of a ring that satisfies the invariant of Rings.
LEMMA PlacesOfRing ==
  ASSUME NEW T, NEW r, RingOK(r, T)
  PROVE  PlacesOK(r)
<1> USE TransferPlaces
<1>1. /\ r.write \in Places /\ r.deq \in Places /\ r.cycle \in {0, 1} /\ r.ccs \in {0, 1}
      /\ r.step \in {"ready", "copying", "fullLap", "linking"}
      /\ r.write = LinkPlace <=> r.step \in {"fullLap", "linking"}
      /\ IF r.cycle = r.ccs THEN r.deq <= r.write ELSE r.write < r.deq
      /\ Count(r) <= Capacity /\ (Copying(r) => Count(r) < Capacity)
  BY DEF RingOK
<1>2. Free(r) \in StagePlaces /\ Taken(r) \in StagePlaces /\ Count(r) \in Nat
  BY <1>1 DEF Free, Taken, Before, StagePlaces, Count
<1>3. ASSUME NEW p \in StagePlaces
      PROVE  /\ Ahead(r, p) \in 0 .. LinkPlace - 1 /\ Before(p) \in StagePlaces
             /\ Ahead(r, p) = 0 <=> p = Free(r)
             /\ Ahead(r, p) = LinkPlace - 1 <=> p = Before(Free(r))
             /\ p # Free(r) => Ahead(r, Before(p)) = Ahead(r, p) - 1
  <2> HIDE DEF Free
  <2> QED BY <1>2, <1>3 DEF Ahead, Before, StagePlaces
<1>4. ASSUME NEW p \in StagePlaces, OnItsWay(r, p)
      PROVE  Ahead(r, p) + Count(r) >= LinkPlace
  BY <1>1, <1>4 DEF OnItsWay, Count, Ahead, Free, StagePlaces
<1>5. Ahead(r, Taken(r)) + Count(r) = LinkPlace - 1
  BY <1>1 DEF Taken, Before, Count, Ahead, Free
<1>6. r.step \in {"ready", "copying"} => r.write = Free(r)
  BY <1>1 DEF Free
<1> QED BY <1>1, <1>2, <1>3, <1>4, <1>5, <1>6 DEF PlacesOK

\* The beginning of a push.
LEMMA RingBegins ==
  ASSUME NEW T, NEW r, RingOK(r, T), r.step = "ready", NEW x, NEW s, s = BeginPush(r, x)
  PROVE  BeginsIn(r, s, x)
<1> USE TransferPlaces
<1>1. /\ r.write \in 0 .. LinkPlace - 1 /\ Free(r) = r.write
  BY DEF RingOK, Free
<1>2. /\ s.write = r.write /\ s.deq = r.deq /\ s.cycle = r.cycle /\ s.ccs = r.ccs
      /\ s.high = r.high /\ s.seen = r.seen /\ s.step = "copying"
      /\ s.low = [r.low EXCEPT ![r.write] = x]
  BY <1>1 DEF RingOK, BeginPush, CopyLow
<1>3. s.low[r.write] = x
  <2>1. r.low \in [Places -> T \cup {Zero, Link}] /\ r.write \in Places
    BY DEF RingOK
  <2> QED BY <1>2, <2>1
<1> QED BY <1>1, <1>2, <1>3 DEF BeginsIn, Free, Count, Taken, Copying, OnItsWay, Ahead

\* The second half of a TRB.
LEMMA RingCopies ==
  ASSUME NEW T, NEW r, RingOK(r, T), r.step = "copying", NEW s, s = PushStep(r)
  PROVE  Copies(r, s)
<1> USE TransferPlaces
<1>1. /\ r.write \in 0 .. LinkPlace - 1 /\ Free(r) = r.write
  BY DEF RingOK, Free
<1>2. /\ s.write = r.write + 1 /\ s.deq = r.deq /\ s.cycle = r.cycle /\ s.ccs = r.ccs
      /\ s.high = [r.high EXCEPT ![r.write] = r.low[r.write]] /\ s.seen = r.seen
      /\ s.step = IF r.write + 1 = LinkPlace THEN "fullLap" ELSE "ready"
  BY <1>1 DEF RingOK, PushStep, Copied, CopyHigh
<1>3. /\ r.deq \in 0 .. LinkPlace /\ r.cycle \in {0, 1} /\ r.ccs \in {0, 1}
      /\ IF r.cycle = r.ccs THEN r.deq <= r.write ELSE r.write < r.deq
      /\ Count(r) < Capacity /\ r.high \in [Places -> T \cup {Zero, Link}]
  BY DEF RingOK, Copying
<1>4. Free(s) = IF r.write + 1 = LinkPlace THEN 0 ELSE r.write + 1
  BY <1>1, <1>2 DEF Free
<1>5. Before(Free(s)) = Free(r) /\ Count(s) = Count(r) + 1 /\ Taken(s) = Taken(r)
  <2>1. Before(Free(s)) = Free(r)
    BY <1>1, <1>4 DEF Before
  <2>2. Count(s) = Count(r) + 1
    BY <1>1, <1>2, <1>3 DEF Count
  <2> QED BY <1>2, <2>1, <2>2 DEF Taken
<1>6. Copying(r) /\ ~Copying(s)
  BY <1>2 DEF Copying
<1>7. ASSUME NEW p \in StagePlaces
      PROVE  /\ OnItsWay(s, p) <=> OnItsWay(r, p) \/ p = Free(r)
             /\ s.high[p] = IF p = Free(r) THEN r.low[Free(r)] ELSE r.high[p]
             /\ Ahead(s, p) = IF p = Free(r) THEN LinkPlace - 1 ELSE Ahead(r, p) - 1
  <2>1. s.high[p] = IF p = Free(r) THEN r.low[Free(r)] ELSE r.high[p]
    BY <1>1, <1>2, <1>3, <1>7 DEF StagePlaces
  <2>2. OnItsWay(s, p) <=> OnItsWay(r, p) \/ p = Free(r)
    BY <1>1, <1>2, <1>3, <1>7 DEF StagePlaces, OnItsWay, Count
  <2>3. Ahead(s, p) = IF p = Free(r) THEN LinkPlace - 1 ELSE Ahead(r, p) - 1
    BY <1>1, <1>4, <1>7 DEF StagePlaces, Ahead
  <2> QED BY <2>1, <2>2, <2>3
<1> QED BY <1>2, <1>5, <1>6, <1>7 DEF Copies

\* The steps that write the link.
LEMMA RingLinks ==
  ASSUME NEW T, NEW r, RingOK(r, T), r.step \in {"fullLap", "linking"}, NEW s, s = PushStep(r)
  PROVE  Stays(r, s)
<1> USE TransferPlaces
<1>1. /\ r.write = LinkPlace /\ r.deq \in 0 .. LinkPlace
      /\ r.cycle \in {0, 1} /\ r.ccs \in {0, 1} /\ r.cycle = r.ccs
      /\ r.high \in [Places -> T \cup {Zero, Link}] /\ Free(r) = 0 /\ ~Copying(r)
      /\ r.deq # 0
  BY DEF RingOK, Free, Copying, Count
<1>2. /\ s.deq = r.deq /\ s.ccs = r.ccs /\ s.seen = r.seen /\ Free(s) = 0 /\ ~Copying(s)
      /\ \A p \in StagePlaces : s.high[p] = r.high[p]
      /\ \/ s.write = LinkPlace /\ s.cycle = r.cycle
         \/ s.write = 0 /\ s.cycle = 1 - r.cycle
  <2>1. CASE r.step = "fullLap"
    BY <1>1, <2>1 DEF RingOK, PushStep, BeginLink, CopyLow, Free, Copying
  <2>2. CASE r.step = "linking"
    <3>1. /\ s.deq = r.deq /\ s.ccs = r.ccs /\ s.seen = r.seen /\ s.step = "ready"
          /\ s.write = 0 /\ s.cycle = 1 - r.cycle
          /\ s.high = [r.high EXCEPT ![r.write] = r.low[r.write]]
      BY <1>1, <2>2 DEF RingOK, PushStep, Linked, CopyHigh
    <3>2. \A p \in StagePlaces : s.high[p] = r.high[p]
      BY <1>1, <3>1 DEF StagePlaces
    <3> QED BY <3>1, <3>2 DEF Free, Copying
  <2> QED BY <2>1, <2>2
<1>3. Count(s) = Count(r) /\ Taken(s) = Taken(r)
  BY <1>1, <1>2 DEF Count, Taken
<1>4. \A p \in StagePlaces : /\ OnItsWay(s, p) <=> OnItsWay(r, p)
                             /\ Ahead(s, p) = Ahead(r, p)
  BY <1>1, <1>2 DEF OnItsWay, Ahead, StagePlaces
<1> QED BY <1>1, <1>2, <1>3, <1>4 DEF Stays

\* The controller follows the link.
LEMMA RingFollows ==
  ASSUME NEW T, NEW r, RingOK(r, T), r.deq = LinkPlace, r.cycle # r.ccs,
         NEW s, s = FollowLink(r)
  PROVE  Stays(r, s)
<1> USE TransferPlaces
<1>1. /\ r.write \in 0 .. LinkPlace - 1 /\ r.cycle \in {0, 1} /\ r.ccs \in {0, 1}
  BY DEF RingOK
<1>2. /\ s.write = r.write /\ s.cycle = r.cycle /\ s.deq = 0 /\ s.ccs = 1 - r.ccs
      /\ s.high = r.high /\ s.low = r.low /\ s.seen = r.seen /\ s.step = r.step
  BY DEF RingOK, FollowLink
<1>3. Free(s) = Free(r) /\ Count(s) = Count(r) /\ Taken(s) = Taken(r)
  BY <1>1, <1>2 DEF Count, Taken, Free, Before
<1>4. \A p \in StagePlaces : /\ OnItsWay(s, p) <=> OnItsWay(r, p)
                             /\ Ahead(s, p) = Ahead(r, p)
  BY <1>1, <1>2, <1>3 DEF OnItsWay, Ahead, StagePlaces
<1> QED BY <1>2, <1>3, <1>4 DEF Stays, Copying

\* The controller takes a TRB.
LEMMA RingTakes ==
  ASSUME NEW T, NEW r, RingOK(r, T), r.deq < LinkPlace, OnItsWay(r, r.deq),
         NEW s, s = Take(r)
  PROVE  Takes(r, s, r.deq)
<1> USE TransferPlaces
<1>1. /\ r.write \in 0 .. LinkPlace /\ r.deq \in 0 .. LinkPlace - 1
      /\ r.cycle \in {0, 1} /\ r.ccs \in {0, 1}
      /\ r.write = LinkPlace <=> r.step \in {"fullLap", "linking"}
      /\ IF r.cycle = r.ccs THEN r.deq < r.write ELSE r.write < r.deq
  BY DEF RingOK, OnItsWay
<1>2. /\ s.write = r.write /\ s.cycle = r.cycle /\ s.deq = r.deq + 1 /\ s.ccs = r.ccs
      /\ s.high = r.high /\ s.low = r.low /\ s.seen[2] = r.high[r.deq] /\ s.step = r.step
  BY DEF RingOK, Take
<1>3. Free(s) = Free(r) /\ Count(s) = Count(r) - 1 /\ Taken(s) = r.deq /\ Before(r.deq) = Taken(r)
  BY <1>1, <1>2 DEF Count, Taken, Free, Before
<1>4. \A p \in StagePlaces : /\ OnItsWay(s, p) <=> OnItsWay(r, p) /\ p # r.deq
                             /\ Ahead(s, p) = Ahead(r, p)
  BY <1>1, <1>2, <1>3 DEF OnItsWay, Ahead, StagePlaces
<1>5. Ahead(r, r.deq) + Count(r) = LinkPlace
  BY <1>1 DEF Ahead, Count, Free
<1>6. r.deq \in StagePlaces
  BY <1>1 DEF StagePlaces
<1> QED BY <1>2, <1>3, <1>4, <1>5, <1>6 DEF Takes, Copying

CR == INSTANCE RingProofs WITH Trbs <- ControlTrbs, Events <- AllEvents, ring <- control,
                               eventRing <- eventRing
IR == INSTANCE RingProofs WITH Trbs <- {Normal}, Events <- AllEvents, ring <- interrupt,
                               eventRing <- eventRing

----------------------------------------------------------------------------
(* The two transfer rings and the event ring.                              *)

\* What module RingProofs assumes of its constants holds in both instances.
LEMMA RingSizesHold == CR!SizeAssumption /\ IR!SizeAssumption
BY SizeAssumption DEF CR!SizeAssumption, IR!SizeAssumption

LEMMA NoLinksPushed == CR!NoLinks /\ IR!NoLinks
<1>1. CR!NoLinks
  BY StagesOfKinds DEF CR!NoLinks
<1>2. IR!NoLinks
  BY StageKinds DEF IR!NoLinks
<1> QED BY <1>1, <1>2

\* The invariant of RingProofs, of each of the two rings.
LEMMA ControlRingOK == ASSUME CR!RingInv PROVE RingOK(control, ControlTrbs)
<1> USE TransferPlaces
<1> USE DEF CR!Places, CR!Zero, CR!Link, Places, Zero, Link, CR!LinkPlace, CR!N
<1>1. CR!RingType /\ CR!StepFits /\ CR!Behind /\ CR!HasRoomLeft /\ CR!WholeTrbs /\ CR!Begun
  BY DEF CR!RingInv
<1>2. /\ control \in [low : [Places -> ControlTrbs \cup {Zero, Link}],
                      high : [Places -> ControlTrbs \cup {Zero, Link}],
                      bit : [Places -> {0, 1}], write : Places, cycle : {0, 1},
                      step : {"ready", "copying", "fullLap", "linking"}, deq : Places, ccs : {0, 1},
                      seen : (ControlTrbs \cup {Zero, Link}) \X (ControlTrbs \cup {Zero, Link})]
  BY <1>1 DEF CR!RingType, CR!Content
<1>3. control.write = LinkPlace <=> control.step \in {"fullLap", "linking"}
  BY <1>1 DEF CR!StepFits
<1>4. IF control.cycle = control.ccs THEN control.deq <= control.write
      ELSE control.write < control.deq
  BY <1>1 DEF CR!Behind, CR!SameLap
<1>5. Count(control) <= Capacity /\ (Copying(control) => Count(control) < Capacity)
  BY <1>1 DEF CR!HasRoomLeft, CR!Count, Count, CR!Capacity, Capacity, Copying
<1>6. \A p \in StagePlaces : OnItsWay(control, p) => control.high[p] \in ControlTrbs
  BY <1>1 DEF CR!WholeTrbs, CR!Between, CR!SameLap, OnItsWay, StagePlaces
<1>7. Copying(control) => control.low[control.write] \in ControlTrbs
  BY <1>1 DEF CR!Begun, Copying
<1> QED BY <1>2, <1>3, <1>4, <1>5, <1>6, <1>7 DEF RingOK

LEMMA InterruptRingOK == ASSUME IR!RingInv PROVE RingOK(interrupt, {Normal})
<1> USE TransferPlaces
<1> USE DEF IR!Places, IR!Zero, IR!Link, Places, Zero, Link, IR!LinkPlace, IR!N
<1>1. IR!RingType /\ IR!StepFits /\ IR!Behind /\ IR!HasRoomLeft /\ IR!WholeTrbs /\ IR!Begun
  BY DEF IR!RingInv
<1>2. /\ interrupt \in [low : [Places -> {Normal} \cup {Zero, Link}],
                      high : [Places -> {Normal} \cup {Zero, Link}],
                      bit : [Places -> {0, 1}], write : Places, cycle : {0, 1},
                      step : {"ready", "copying", "fullLap", "linking"}, deq : Places, ccs : {0, 1},
                      seen : ({Normal} \cup {Zero, Link}) \X ({Normal} \cup {Zero, Link})]
  BY <1>1 DEF IR!RingType, IR!Content
<1>3. interrupt.write = LinkPlace <=> interrupt.step \in {"fullLap", "linking"}
  BY <1>1 DEF IR!StepFits
<1>4. IF interrupt.cycle = interrupt.ccs THEN interrupt.deq <= interrupt.write
      ELSE interrupt.write < interrupt.deq
  BY <1>1 DEF IR!Behind, IR!SameLap
<1>5. Count(interrupt) <= Capacity /\ (Copying(interrupt) => Count(interrupt) < Capacity)
  BY <1>1 DEF IR!HasRoomLeft, IR!Count, Count, IR!Capacity, Capacity, Copying
<1>6. \A p \in StagePlaces : OnItsWay(interrupt, p) => interrupt.high[p] \in {Normal}
  BY <1>1 DEF IR!WholeTrbs, IR!Between, IR!SameLap, OnItsWay, StagePlaces
<1>7. Copying(interrupt) => interrupt.low[interrupt.write] \in {Normal}
  BY <1>1 DEF IR!Begun, Copying
<1> QED BY <1>2, <1>3, <1>4, <1>5, <1>6, <1>7 DEF RingOK

\* What the controller finds at its place.
LEMMA ControlFinds ==
  ASSUME CR!RingInv, HasTrb(control)
  PROVE  /\ control.deq \in Places
         /\ AtLink(control) <=> control.deq = LinkPlace
         /\ control.deq = LinkPlace => control.cycle # control.ccs
         /\ control.deq < LinkPlace => OnItsWay(control, control.deq)
<1>1. CR!HasTrb(control) <=> HasTrb(control)
  BY DEF CR!HasTrb, HasTrb
<1>2. CR!AtLink(control) <=> AtLink(control)
  BY DEF CR!AtLink, AtLink, CR!HasTrb, HasTrb, CR!NextTrb, NextTrb
<1>3. CR!N = LinkPlace
  BY DEF CR!N, CR!LinkPlace, LinkPlace
<1>4. /\ CR!AtLink(control) <=> control.deq = CR!N
      /\ control.deq = CR!N => ~CR!SameLap
      /\ control.deq < CR!N => CR!Between(control.deq)
  BY ONLY <1>1, CR!RingInv, HasTrb(control), RingSizesHold, NoLinksPushed, CR!WhatIsThere
<1>5. control.deq \in Places
  BY ControlRingOK DEF RingOK
<1> QED BY <1>2, <1>3, <1>4, <1>5 DEF CR!SameLap, CR!Between, OnItsWay

\* What the controller finds at its place.
LEMMA InterruptFinds ==
  ASSUME IR!RingInv, HasTrb(interrupt)
  PROVE  /\ interrupt.deq \in Places
         /\ AtLink(interrupt) <=> interrupt.deq = LinkPlace
         /\ interrupt.deq = LinkPlace => interrupt.cycle # interrupt.ccs
         /\ interrupt.deq < LinkPlace => OnItsWay(interrupt, interrupt.deq)
<1>1. IR!HasTrb(interrupt) <=> HasTrb(interrupt)
  BY DEF IR!HasTrb, HasTrb
<1>2. IR!AtLink(interrupt) <=> AtLink(interrupt)
  BY DEF IR!AtLink, AtLink, IR!HasTrb, HasTrb, IR!NextTrb, NextTrb
<1>3. IR!N = LinkPlace
  BY DEF IR!N, IR!LinkPlace, LinkPlace
<1>4. /\ IR!AtLink(interrupt) <=> interrupt.deq = IR!N
      /\ interrupt.deq = IR!N => ~IR!SameLap
      /\ interrupt.deq < IR!N => IR!Between(interrupt.deq)
  BY ONLY <1>1, IR!RingInv, HasTrb(interrupt), RingSizesHold, NoLinksPushed, IR!WhatIsThere
<1>5. interrupt.deq \in Places
  BY InterruptRingOK DEF RingOK
<1> QED BY <1>2, <1>3, <1>4, <1>5 DEF IR!SameLap, IR!Between, OnItsWay

\* The event ring is a queue of events.
LEMMA EventsWaiting ==
  ASSUME CR!EventInv
  PROVE  /\ Pending(eventRing) \in Seq(AllEvents)
         /\ Len(Pending(eventRing)) = EventCount(eventRing)
         /\ HasFront(eventRing) => Pending(eventRing) # << >> /\ Head(Pending(eventRing)) = frontEvent
<1>1. /\ CR!Pending(eventRing) = Pending(eventRing) /\ CR!EventCount(eventRing) = EventCount(eventRing)
      /\ CR!HasFront(eventRing) <=> HasFront(eventRing)
      /\ CR!FrontOf(eventRing) = frontEvent
  BY DEF CR!Pending, Pending, CR!EventCount, EventCount, CR!EventPlace, EventPlace, CR!HasFront, HasFront,
         CR!FrontOf, FrontOf, frontEvent
<1>2. /\ CR!Pending(eventRing) \in Seq(AllEvents)
      /\ Len(CR!Pending(eventRing)) = CR!EventCount(eventRing)
  BY RingSizesHold, CR!EventFacts
<1>3. CR!HasFront(eventRing) => /\ CR!Pending(eventRing) # << >>
                                /\ Head(CR!Pending(eventRing)) = CR!FrontOf(eventRing)
  BY RingSizesHold, CR!FrontIsFirst
<1> QED BY ONLY <1>1, <1>2, <1>3

\* The controller posts an event.
LEMMA EventPosted ==
  ASSUME CR!EventInv, NEW x \in AllEvents, HasRoom(eventRing), eventRing' = Posted(eventRing, x)
  PROVE  /\ CR!EventInv' /\ CR!EventNext
         /\ Pending(eventRing') = Append(Pending(eventRing), x)
<1>1. CR!Post(x)
  BY DEF CR!Post, CR!HasRoom, HasRoom, CR!Posted, Posted, CR!NextPlace, NextPlace
<1>2. CR!EventInv' /\ CR!EventsSent!Send(x)
  BY <1>1, RingSizesHold, CR!PostPreserves
<1>3. CR!Pending(eventRing)' = Append(CR!Pending(eventRing), x)
  BY <1>2 DEF CR!EventsSent!Send
<1>4. CR!EventNext
  BY <1>1 DEF CR!EventNext
<1> QED BY <1>2, <1>3, <1>4 DEF CR!Pending, Pending, CR!EventCount, EventCount, CR!EventPlace, EventPlace

\* The driver pops the event it has handled.
LEMMA EventPopped ==
  ASSUME CR!EventInv, HasFront(eventRing), eventRing' = Popped(eventRing)
  PROVE  /\ CR!EventInv' /\ CR!EventNext
         /\ Pending(eventRing') = Tail(Pending(eventRing))
<1>1. CR!Pop
  BY DEF CR!Pop, CR!HasFront, HasFront, CR!Popped, Popped, CR!NextPlace, NextPlace,
         CR!FrontOf, FrontOf
<1>2. CR!EventInv' /\ CR!EventsSent!Receive
  BY <1>1, RingSizesHold, CR!PopPreserves
<1>3. CR!Pending(eventRing)' = Tail(CR!Pending(eventRing))
  BY <1>2 DEF CR!EventsSent!Receive
<1>4. CR!EventNext
  BY <1>1 DEF CR!EventNext
<1> QED BY <1>2, <1>3, <1>4 DEF CR!Pending, Pending, CR!EventCount, EventCount, CR!EventPlace, EventPlace

Things == {PushTo("control", x) : x \in ControlTrbs} \cup {PushTo("interrupt", Normal)}
          \cup {Doorbell("control"), Doorbell("interrupt")}
          \cup {PutSetup, ConfigureEndpoint, PopEvent} \cup {ConfigureDrivers(n) : n \in Nat}

----------------------------------------------------------------------------
(* What is to be done: the kinds of things, and what is next.              *)

\* Each thing to do is something else.
LEMMA ThingKinds ==
  /\ \A x : /\ PushTo("control", x).do = "push" /\ PushTo("control", x).ring = "control"
            /\ PushTo("control", x).trb = x
            /\ PushTo("interrupt", x).do = "push" /\ PushTo("interrupt", x).ring = "interrupt"
            /\ PushTo("interrupt", x).trb = x
  /\ \A x : Doorbell(x).do = "doorbell" /\ Doorbell(x).ring = x
  /\ \A x : ConfigureDrivers(x).do = "configure" /\ ConfigureDrivers(x).times = x
  /\ PutSetup.do = "put" /\ ConfigureEndpoint.do = "command" /\ PopEvent.do = "pop"
BY DEF PushTo, Doorbell, ConfigureDrivers, PutSetup, ConfigureEndpoint, PopEvent

\* A thing put before others.
LEMMA ConsIs ==
  ASSUME NEW S, NEW x \in S, NEW s \in Seq(S)
  PROVE  /\ Cons(x, s) \in Seq(S) /\ Cons(x, s) # << >>
         /\ Head(Cons(x, s)) = x /\ Tail(Cons(x, s)) = s
<1> DEFINE c == <<x>> \o s
<1>1. c \in Seq(S) /\ c # << >> /\ Head(c) = x
  BY PushFrontOfQueue
<1>2. <<x>> \in Seq(S) /\ Len(<<x>>) = 1
  OBVIOUS
<1>3. Len(c) = 1 + Len(s) /\ \A k \in 1 .. Len(c) : c[k] = IF k <= 1 THEN <<x>>[k] ELSE s[k - 1]
  BY <1>2, ConcatProperties, LenProperties
<1> HIDE DEF c
<1>4. /\ Tail(c) \in Seq(S) /\ Len(Tail(c)) = Len(c) - 1
      /\ \A k \in 1 .. Len(Tail(c)) : Tail(c)[k] = c[k + 1]
  BY <1>1, HeadTailProperties
<1>5. Len(s) \in Nat /\ Len(Tail(c)) = Len(s)
  BY <1>3, <1>4, LenProperties
<1>6. \A k \in 1 .. Len(s) : Tail(c)[k] = s[k]
  BY <1>3, <1>4, <1>5
<1>7. Tail(c) = s
  BY <1>4, <1>5, <1>6, SeqEqual
<1> QED BY <1>1, <1>7 DEF Cons, c

\* What the driver may have to do.
LEMMA ThingsAre ==
  /\ \A x \in ControlTrbs : PushTo("control", x) \in Things
  /\ PushTo("interrupt", Normal) \in Things
  /\ Doorbell("control") \in Things /\ Doorbell("interrupt") \in Things
  /\ PutSetup \in Things /\ ConfigureEndpoint \in Things /\ PopEvent \in Things
  /\ \A n \in Nat : ConfigureDrivers(n) \in Things
  /\ Setups \subseteq ControlTrbs /\ DataStage \in ControlTrbs
  /\ StatusStage(TRUE) \in ControlTrbs /\ StatusStage(FALSE) \in ControlTrbs
  /\ SetupsIn \subseteq Setups /\ SetupsOut \subseteq Setups
<1>1. Setups \subseteq ControlTrbs /\ DataStage \in ControlTrbs /\ Statuses \subseteq ControlTrbs
  BY StagesOfKinds
<1> QED BY <1>1 DEF Things, Statuses, Setups

\* What comes after a transfer.
LEMMA EndIs ==
  ASSUME NEW end, NEW times, Ending(end, times)
  PROVE  /\ end \in Seq(Things) /\ times \in Nat
         /\ \/ end = << >> /\ times = 0 /\ end # Drivers(times)
            \/ /\ end = <<PopEvent>> /\ times = 0 /\ end # << >> /\ end # Drivers(times)
               /\ Head(end) = PopEvent /\ Tail(end) = << >>
            \/ /\ end = Drivers(times) /\ end # << >> /\ end # <<PopEvent>>
               /\ Head(end) = ConfigureDrivers(times) /\ Tail(end) = <<PopEvent>>
<1>1. <<PopEvent>> \in Seq(Things) /\ << >> \in Seq(Things) /\ <<PopEvent>> # << >>
      /\ Head(<<PopEvent>>) = PopEvent /\ Tail(<<PopEvent>>) = << >>
  BY ThingsAre
<1>2. times \in Nat
  BY DEF Ending
<1>3. /\ Drivers(times) \in Seq(Things) /\ Drivers(times) # << >>
      /\ Head(Drivers(times)) = ConfigureDrivers(times) /\ Tail(Drivers(times)) = <<PopEvent>>
  BY <1>1, <1>2, ThingsAre, ConsIs DEF Drivers
<1>4. PopEvent # ConfigureDrivers(times)
  BY ThingKinds
<1> HIDE DEF Drivers
<1> QED BY <1>1, <1>2, <1>3, <1>4 DEF Ending

\* The first thing to do, and what follows.
LEMMA TodoHeads ==
  ASSUME NEW t, NEW pc, NEW end, NEW times, Ending(end, times), At(t, pc, end)
  PROVE  /\ pc \in Busy \cup Quiet /\ t \in Seq(Things) /\ (pc # "end" => t # << >>)
         /\ pc = "setupIn" => /\ \E x \in SetupsIn : Head(t) = PushTo("control", x)
                              /\ At(Tail(t), "data", end)
         /\ pc = "setupOut" => /\ \E x \in SetupsOut : Head(t) = PushTo("control", x)
                               /\ At(Tail(t), "statusOut", end)
         /\ pc = "data" => Head(t) = PushTo("control", DataStage) /\ At(Tail(t), "statusIn", end)
         /\ pc = "statusIn" => /\ Head(t) = PushTo("control", StatusStage(FALSE))
                               /\ At(Tail(t), "put", end)
         /\ pc = "statusOut" => /\ Head(t) = PushTo("control", StatusStage(TRUE))
                                /\ At(Tail(t), "put", end)
         /\ pc = "put" => Head(t) = PutSetup /\ At(Tail(t), "bell", end)
         /\ pc = "bell" => Head(t) = Doorbell("control") /\ At(Tail(t), "end", end)
         /\ pc = "end" => t = end
         /\ pc = "report" => /\ Head(t) = PushTo("interrupt", Normal)
                             /\ At(Tail(t), "reportBell", end)
         /\ pc = "reportBell" => Head(t) = Doorbell("interrupt") /\ At(Tail(t), "end", end)
         /\ pc = "command" => Head(t) = ConfigureEndpoint /\ At(Tail(t), "end", end)
<1>1. end \in Seq(Things)
  BY EndIs
<1>2. \A x \in Things, s \in Seq(Things) :
        /\ Cons(x, s) \in Seq(Things) /\ Cons(x, s) # << >>
        /\ Head(Cons(x, s)) = x /\ Tail(Cons(x, s)) = s
  BY ConsIs
<1>3. PutOn(end) \in Seq(Things) /\ Cons(Doorbell("control"), end) \in Seq(Things)
      /\ Cons(Doorbell("interrupt"), end) \in Seq(Things)
  BY <1>1, <1>2, ThingsAre DEF PutOn
<1>4. StatusOn(TRUE, end) \in Seq(Things) /\ StatusOn(FALSE, end) \in Seq(Things)
  BY <1>2, <1>3, ThingsAre DEF StatusOn
<1>5. DataOn(end) \in Seq(Things)
  BY <1>2, <1>4, ThingsAre DEF DataOn
<1>6. CASE pc = "setupIn"
  <2>1. PICK x \in SetupsIn : t = Cons(PushTo("control", x), DataOn(end))
    BY <1>6, Zenon DEF At
  <2>2. PushTo("control", x) \in Things
    BY ThingsAre
  <2>3. t \in Seq(Things) /\ t # << >> /\ Head(t) = PushTo("control", x) /\ Tail(t) = DataOn(end)
    BY ONLY <1>2, <1>5, <2>1, <2>2
  <2>4. At(Tail(t), "data", end)
    BY <2>3 DEF At
  <2> QED BY <1>6, <2>3, <2>4 DEF Busy
<1>7. CASE pc = "setupOut"
  <2>1. PICK x \in SetupsOut : t = Cons(PushTo("control", x), StatusOn(TRUE, end))
    BY <1>7, Zenon DEF At
  <2>2. PushTo("control", x) \in Things
    BY ThingsAre
  <2>3. t \in Seq(Things) /\ t # << >> /\ Head(t) = PushTo("control", x) /\ Tail(t) = StatusOn(TRUE, end)
    BY ONLY <1>2, <1>4, <2>1, <2>2
  <2>4. At(Tail(t), "statusOut", end)
    BY <2>3 DEF At
  <2> QED BY <1>7, <2>3, <2>4 DEF Busy
<1>8. CASE pc = "data"
  <2>1. t = Cons(PushTo("control", DataStage), StatusOn(FALSE, end))
    BY <1>8, Zenon DEF At, DataOn
  <2>2. /\ t \in Seq(Things) /\ t # << >> /\ Head(t) = PushTo("control", DataStage)
        /\ Tail(t) = StatusOn(FALSE, end)
    BY <1>2, <1>4, <2>1, ThingsAre
  <2>3. At(Tail(t), "statusIn", end)
    BY <2>2 DEF At
  <2> QED BY <1>8, <2>2, <2>3 DEF Busy
<1>9. CASE pc = "statusIn"
  <2>1. t = Cons(PushTo("control", StatusStage(FALSE)), PutOn(end))
    BY <1>9, Zenon DEF At, StatusOn
  <2> QED BY <1>2, <1>3, <1>9, <2>1, ThingsAre DEF At, Busy
<1>10. CASE pc = "statusOut"
  <2>1. t = Cons(PushTo("control", StatusStage(TRUE)), PutOn(end))
    BY <1>10, Zenon DEF At, StatusOn
  <2> QED BY <1>2, <1>3, <1>10, <2>1, ThingsAre DEF At, Busy
<1>11. CASE pc = "put"
  <2>1. t = Cons(PutSetup, Cons(Doorbell("control"), end))
    BY <1>11, Zenon DEF At, PutOn
  <2> QED BY <1>2, <1>3, <1>11, <2>1, ThingsAre DEF At, Busy
<1>12. CASE pc \in {"bell", "reportBell", "command"}
  <2>0. At(end, "end", end)
    BY DEF At
  <2>1. /\ pc = "bell" => t = Cons(Doorbell("control"), end)
        /\ pc = "reportBell" => t = Cons(Doorbell("interrupt"), end)
        /\ pc = "command" => t = Cons(ConfigureEndpoint, end)
    BY <1>12 DEF At
  <2>2. /\ t \in Seq(Things) /\ t # << >> /\ Tail(t) = end
        /\ Head(t) = CASE pc = "bell" -> Doorbell("control")
                       [] pc = "reportBell" -> Doorbell("interrupt")
                       [] pc = "command" -> ConfigureEndpoint
    BY <1>1, <1>2, <1>12, <2>1, ThingsAre
  <2> QED BY <1>12, <2>0, <2>2 DEF Quiet
<1>13. CASE pc = "report"
  <2>1. t = Cons(PushTo("interrupt", Normal), Cons(Doorbell("interrupt"), end))
    BY <1>13, Zenon DEF At
  <2> QED BY <1>2, <1>3, <1>13, <2>1, ThingsAre DEF At, Quiet
<1>14. CASE pc = "end"
  BY <1>1, <1>14 DEF At, Quiet
<1>15. pc \in Busy \cup Quiet
  BY DEF At, Busy, Quiet
<1> QED BY <1>6, <1>7, <1>8, <1>9, <1>10, <1>11, <1>12, <1>13, <1>14, <1>15 DEF Busy, Quiet

\* Where the driver is if its next thing is known.
LEMMA NextThings ==
  ASSUME NEW t, NEW pc, NEW end, NEW times, Ending(end, times), At(t, pc, end), t # << >>
  PROVE  /\ Head(t).do = "push" => pc \in {"setupIn", "setupOut", "data", "statusIn", "statusOut", "report"}
         /\ Head(t).do = "push" => (Head(t).ring = "control" <=> pc # "report")
         /\ Head(t).do = "put" => pc = "put"
         /\ Head(t).do = "doorbell" => \/ pc = "bell" /\ Head(t).ring = "control"
                                       \/ pc = "reportBell" /\ Head(t).ring = "interrupt"
         /\ Head(t).do = "command" => pc = "command"
         /\ Head(t).do = "configure" => /\ pc = "end" /\ end = Drivers(times)
                                        /\ Head(t).times = times /\ Tail(t) = <<PopEvent>>
         /\ Head(t).do = "pop" => /\ pc = "end" /\ end = <<PopEvent>> /\ times = 0
                                  /\ Tail(t) = << >>
<1>1. pc \in Busy \cup Quiet
  BY TodoHeads
<1>2. /\ pc \in {"setupIn", "setupOut", "data", "statusIn", "statusOut"} =>
           Head(t).do = "push" /\ Head(t).ring = "control"
      /\ pc = "put" => Head(t).do = "put"
      /\ pc = "bell" => Head(t).do = "doorbell" /\ Head(t).ring = "control"
      /\ pc = "reportBell" => Head(t).do = "doorbell" /\ Head(t).ring = "interrupt"
      /\ pc = "report" => Head(t).do = "push" /\ Head(t).ring = "interrupt"
      /\ pc = "command" => Head(t).do = "command"
      /\ pc = "end" => t = end
  <2>1. /\ pc \in {"setupIn", "setupOut", "data", "statusIn", "statusOut"} =>
             \E x : Head(t) = PushTo("control", x)
        /\ pc = "report" => \E x : Head(t) = PushTo("interrupt", x)
        /\ pc = "put" => Head(t) = PutSetup
        /\ pc = "bell" => Head(t) = Doorbell("control")
        /\ pc = "reportBell" => Head(t) = Doorbell("interrupt")
        /\ pc = "command" => Head(t) = ConfigureEndpoint
        /\ pc = "end" => t = end
    BY TodoHeads
  <2> QED BY ONLY <2>1, ThingKinds
<1>3. pc = "end" => \/ /\ end = <<PopEvent>> /\ times = 0
                       /\ Head(t).do = "pop" /\ Tail(t) = << >>
                    \/ /\ end = Drivers(times) /\ Tail(t) = <<PopEvent>>
                       /\ Head(t).do = "configure" /\ Head(t).times = times
  <2>1. pc = "end" => \/ /\ end = <<PopEvent>> /\ times = 0
                         /\ Head(t) = PopEvent /\ Tail(t) = << >>
                      \/ /\ end = Drivers(times) /\ Tail(t) = <<PopEvent>>
                         /\ Head(t) = ConfigureDrivers(times)
    BY ONLY <1>2, EndIs, Ending(end, times), t # << >>
  <2> QED BY ONLY <2>1, ThingKinds
<1> QED BY ONLY <1>1, <1>2, <1>3 DEF Busy, Quiet

\* Two things are one and another.
LEMMA PairIs ==
  ASSUME NEW S, NEW a \in S, NEW b \in S
  PROVE  /\ <<a>> \in Seq(S) /\ <<a, b>> \in Seq(S)
         /\ <<a, b>> = <<a>> \o <<b>>
<1> DEFINE s == <<a>> \o <<b>>
<1>1. <<a>> \in Seq(S) /\ <<b>> \in Seq(S) /\ Len(<<a>>) = 1 /\ Len(<<b>>) = 1
  OBVIOUS
<1>2. <<a, b>> \in Seq(S) /\ Len(<<a, b>>) = 2 /\ <<a, b>>[1] = a /\ <<a, b>>[2] = b
  OBVIOUS
<1>3. /\ s \in Seq(S) /\ Len(s) = 2
      /\ \A k \in 1 .. 2 : s[k] = IF k <= 1 THEN <<a>>[k] ELSE <<b>>[k - 1]
  BY <1>1, ConcatProperties
<1>4. s[1] = a /\ s[2] = b
  BY <1>3
<1> HIDE DEF s
<1>5. \A k \in 1 .. 2 : s[k] = <<a, b>>[k]
  BY <1>2, <1>4
<1>6. <<a, b>> = s
  BY <1>2, <1>3, <1>5, SeqEqual
<1> QED BY <1>1, <1>2, <1>6 DEF s

\* The beginning of a control transfer.
LEMMA TransferBegins ==
  ASSUME NEW end \in Seq(Things)
  PROVE  /\ \A r \in DataRequests : At(ControlTransfer(r, TRUE) \o end, "setupIn", end)
         /\ \A r \in Requests \ DataRequests :
              At(ControlTransfer(r, FALSE) \o end, "setupOut", end)
<1>1. \A a, b \in Things : /\ <<a>> \in Seq(Things) /\ <<a, b>> \in Seq(Things)
                           /\ <<a, b>> = <<a>> \o <<b>>
  BY PairIs
<1>2. \A s, t, u \in Seq(Things) : /\ (s \o t) \o u = s \o (t \o u)
                                   /\ s \o t \in Seq(Things)
  BY ConcatAssociative, ConcatProperties
<1> DEFINE bell == <<PutSetup, Doorbell("control")>>
<1>3. bell \in Seq(Things) /\ bell \o end = PutOn(end) /\ bell \o end \in Seq(Things)
  <2>1. <<Doorbell("control")>> \o end = Cons(Doorbell("control"), end)
    BY DEF Cons
  <2>2. bell \o end = <<PutSetup>> \o Cons(Doorbell("control"), end)
    BY <1>1, <1>2, <2>1, ThingsAre
  <2>3. bell \in Seq(Things)
    BY <1>1, ThingsAre
  <2> QED BY <1>2, <2>2, <2>3 DEF PutOn, Cons
<1> HIDE DEF bell
<1>x. \A x \in Seq(Things) : (x \o bell) \o end = x \o PutOn(end)
  <2> SUFFICES ASSUME NEW x \in Seq(Things) PROVE (x \o bell) \o end = x \o PutOn(end)
    OBVIOUS
  <2>1. (x \o bell) \o end = x \o (bell \o end)
    <3>1. bell \in Seq(Things)
      BY <1>3
    <3>2. \A u \in Seq(Things) : (x \o bell) \o u = x \o (bell \o u)
      BY ONLY <1>2, <3>1, x \in Seq(Things)
    <3> QED BY ONLY <3>2, end \in Seq(Things)
  <2> QED BY <1>3, <2>1
<1>4. \A a, b \in Things :
        /\ ((<<a>> \o <<b>>) \o bell) \o end = Cons(a, Cons(b, PutOn(end)))
  <2> SUFFICES ASSUME NEW a \in Things, NEW b \in Things
               PROVE  ((<<a>> \o <<b>>) \o bell) \o end = Cons(a, Cons(b, PutOn(end)))
    OBVIOUS
  <2>0. <<a>> \in Seq(Things) /\ <<b>> \in Seq(Things) /\ <<a>> \o <<b>> \in Seq(Things)
    BY <1>1, <1>2
  <2>1. ((<<a>> \o <<b>>) \o bell) \o end = (<<a>> \o <<b>>) \o PutOn(end)
    BY ONLY <1>x, <2>0, Zenon
  <2>2. (<<a>> \o <<b>>) \o PutOn(end) = <<a>> \o (<<b>> \o PutOn(end))
    BY <1>1, <1>2, <1>3
  <2> QED BY <1>3, <2>1, <2>2 DEF Cons
<1>5. \A a, b, c \in Things :
        ((<<a>> \o <<b, c>>) \o bell) \o end = Cons(a, Cons(b, Cons(c, PutOn(end))))
  <2> SUFFICES ASSUME NEW a \in Things, NEW b \in Things, NEW c \in Things
               PROVE  ((<<a>> \o <<b, c>>) \o bell) \o end
                        = Cons(a, Cons(b, Cons(c, PutOn(end))))
    OBVIOUS
  <2>0. <<a>> \in Seq(Things) /\ <<b, c>> \in Seq(Things) /\ <<a>> \o <<b, c>> \in Seq(Things)
    BY <1>1, <1>2
  <2>1. ((<<a>> \o <<b, c>>) \o bell) \o end = (<<a>> \o <<b, c>>) \o PutOn(end)
    BY ONLY <1>x, <2>0, Zenon
  <2>2. (<<a>> \o <<b, c>>) \o PutOn(end) = <<a>> \o (<<b, c>> \o PutOn(end))
    BY <1>1, <1>2, <1>3
  <2>3. <<b, c>> \o PutOn(end) = <<b>> \o (<<c>> \o PutOn(end))
    BY <1>1, <1>2, <1>3
  <2> QED BY <1>3, <2>1, <2>2, <2>3 DEF Cons
<1>6. ASSUME NEW r \in DataRequests
      PROVE  At(ControlTransfer(r, TRUE) \o end, "setupIn", end)
  <2> DEFINE x == SetupStage(r, TRUE)
             a == PushTo("control", x)
             b == PushTo("control", DataStage)
             c == PushTo("control", StatusStage(FALSE))
  <2>1. x \in SetupsIn
    BY Zenon DEF SetupsIn
  <2>2. ControlTransfer(r, TRUE) = (<<a>> \o <<b, c>>) \o bell
    BY Zenon DEF ControlTransfer, bell
  <2>3. a \in Things /\ b \in Things /\ c \in Things
    BY <2>1, ThingsAre
  <2>4. Cons(b, Cons(c, PutOn(end))) = DataOn(end)
    BY DEF DataOn, StatusOn
  <2> HIDE DEF a, b, c
  <2>5. ((<<a>> \o <<b, c>>) \o bell) \o end = Cons(a, Cons(b, Cons(c, PutOn(end))))
    BY <1>5, <2>3
  <2>6. ControlTransfer(r, TRUE) \o end = Cons(a, DataOn(end))
    BY ONLY <2>2, <2>4, <2>5
  <2> QED BY <2>1, <2>6 DEF At, a
<1>7. ASSUME NEW r \in Requests \ DataRequests
      PROVE  At(ControlTransfer(r, FALSE) \o end, "setupOut", end)
  <2> DEFINE x == SetupStage(r, FALSE)
  <2>1. x \in SetupsOut
    BY Zenon DEF SetupsOut
  <2>2. ControlTransfer(r, FALSE) = (<<PushTo("control", x)>> \o
          <<PushTo("control", StatusStage(TRUE))>>) \o bell
    BY Zenon DEF ControlTransfer, bell
  <2>3. PushTo("control", x) \in Things /\ PushTo("control", StatusStage(TRUE)) \in Things
    BY <2>1, ThingsAre
  <2> HIDE DEF x
  <2>4. ControlTransfer(r, FALSE) \o end = Cons(PushTo("control", x), StatusOn(TRUE, end))
    BY <1>4, <2>2, <2>3 DEF StatusOn
  <2> QED BY <2>1, <2>4 DEF At
<1> QED BY <1>6, <1>7

\* What the handlers and the loop over the class drivers leave to do.
LEMMA TodoBegins ==
  /\ Ending(<< >>, 0) /\ Ending(<<PopEvent>>, 0)
  /\ \A times \in Nat : Ending(Drivers(times), times)
  /\ At(GetDescriptor("GetDevice"), "setupIn", << >>)
  /\ At(GetDescriptor("GetConfig") \o <<PopEvent>>, "setupIn", <<PopEvent>>)
  /\ At(SetConfiguration \o <<PopEvent>>, "setupOut", <<PopEvent>>)
  /\ \A times \in Nat : At((SetProtocol \o <<ConfigureDrivers(times)>>) \o <<PopEvent>>,
                           "setupOut", Drivers(times))
  /\ At(<<PopEvent>>, "end", <<PopEvent>>)
  /\ At(<< >> \o <<PopEvent>>, "end", <<PopEvent>>)
  /\ \A times \in Nat : At(<<ConfigureDrivers(times)>> \o <<PopEvent>>, "end", Drivers(times))
  /\ At(InterruptIn \o <<PopEvent>>, "report", <<PopEvent>>)
  /\ At(<<ConfigureEndpoint>> \o <<PopEvent>>, "command", <<PopEvent>>)
<1>1. << >> \in Seq(Things) /\ <<PopEvent>> \in Seq(Things)
  BY ThingsAre
<1>2. Ending(<< >>, 0) /\ Ending(<<PopEvent>>, 0)
      /\ \A times \in Nat : Ending(Drivers(times), times) /\ Drivers(times) \in Seq(Things)
  <2>1. \A times \in Nat : Ending(Drivers(times), times)
    BY DEF Ending
  <2>2. \A times \in Nat : Drivers(times) \in Seq(Things)
    BY <2>1, EndIs
  <2> QED BY <2>1, <2>2 DEF Ending
<1>3. {"GetDevice", "GetConfig"} = DataRequests /\ {"SetConfig", "SetProtocol"} = Requests \ DataRequests
  BY DEF DataRequests, Requests
<1>4. At(GetDescriptor("GetDevice"), "setupIn", << >>)
  <2>1. At(ControlTransfer("GetDevice", TRUE) \o << >>, "setupIn", << >>)
    BY <1>1, <1>3, TransferBegins
  <2>2. ControlTransfer("GetDevice", TRUE) \in Seq(Things)
    <3>1. SetupStage("GetDevice", TRUE) \in ControlTrbs
      <4>1. SetupStage("GetDevice", TRUE) \in SetupsIn
        BY <1>3, Zenon DEF SetupsIn
      <4> QED BY <4>1, ThingsAre
    <3>2. /\ <<PushTo("control", SetupStage("GetDevice", TRUE))>> \in Seq(Things)
          /\ <<PushTo("control", DataStage), PushTo("control", StatusStage(FALSE))>> \in Seq(Things)
          /\ <<PutSetup, Doorbell("control")>> \in Seq(Things)
      BY <3>1, ThingsAre, PairIs
    <3>3. \A s, t, u \in Seq(Things) : (s \o t) \o u \in Seq(Things)
      BY ConcatProperties
    <3> QED BY ONLY <3>2, <3>3 DEF ControlTransfer
  <2> QED BY <2>1, <2>2, ConcatEmptySeq DEF GetDescriptor
<1>5. /\ At(GetDescriptor("GetConfig") \o <<PopEvent>>, "setupIn", <<PopEvent>>)
      /\ At(SetConfiguration \o <<PopEvent>>, "setupOut", <<PopEvent>>)
  BY <1>1, <1>3, TransferBegins DEF GetDescriptor, SetConfiguration
<1>6. ASSUME NEW times \in Nat
      PROVE  At((SetProtocol \o <<ConfigureDrivers(times)>>) \o <<PopEvent>>,
                "setupOut", Drivers(times))
  <2>1. At(SetProtocol \o Drivers(times), "setupOut", Drivers(times))
    BY <1>2, <1>3, TransferBegins DEF SetProtocol
  <2>2. SetProtocol \in Seq(Things)
    <3>1. SetupStage("SetProtocol", FALSE) \in ControlTrbs
      <4>1. SetupStage("SetProtocol", FALSE) \in SetupsOut
        BY <1>3, Zenon DEF SetupsOut
      <4> QED BY <4>1, ThingsAre
    <3>2. /\ <<PushTo("control", SetupStage("SetProtocol", FALSE))>> \in Seq(Things)
          /\ <<PushTo("control", StatusStage(TRUE))>> \in Seq(Things)
          /\ <<PutSetup, Doorbell("control")>> \in Seq(Things)
      BY <3>1, ThingsAre, PairIs
    <3>3. \A s, t, u \in Seq(Things) : (s \o t) \o u \in Seq(Things)
      BY ConcatProperties
    <3> QED BY ONLY <3>2, <3>3 DEF SetProtocol, ControlTransfer
  <2>3. <<ConfigureDrivers(times)>> \in Seq(Things)
    BY ThingsAre
  <2>4. (SetProtocol \o <<ConfigureDrivers(times)>>) \o <<PopEvent>>
          = SetProtocol \o (<<ConfigureDrivers(times)>> \o <<PopEvent>>)
    BY <1>1, <2>2, <2>3, ConcatAssociative
  <2> QED BY <2>1, <2>4 DEF Drivers, Cons
<1>7. /\ At(<<PopEvent>>, "end", <<PopEvent>>)
      /\ At(<< >> \o <<PopEvent>>, "end", <<PopEvent>>)
  <2>1. << >> \o <<PopEvent>> = <<PopEvent>>
    BY <1>1, ConcatEmptySeq
  <2> QED BY <2>1 DEF At
<1>8. \A times \in Nat : At(<<ConfigureDrivers(times)>> \o <<PopEvent>>, "end", Drivers(times))
  BY DEF At, Drivers, Cons
<1>9. At(InterruptIn \o <<PopEvent>>, "report", <<PopEvent>>)
  <2>1. <<PushTo("interrupt", Normal), Doorbell("interrupt")>> \o <<PopEvent>>
          = Cons(PushTo("interrupt", Normal), Cons(Doorbell("interrupt"), <<PopEvent>>))
    <3>1. /\ <<PushTo("interrupt", Normal)>> \in Seq(Things)
          /\ <<Doorbell("interrupt")>> \in Seq(Things)
          /\ <<PushTo("interrupt", Normal), Doorbell("interrupt")>>
               = <<PushTo("interrupt", Normal)>> \o <<Doorbell("interrupt")>>
      BY ThingsAre
    <3> QED BY ONLY <1>1, <3>1, ConcatAssociative DEF Cons
  <2> QED BY <2>1 DEF At, InterruptIn
<1>10. At(<<ConfigureEndpoint>> \o <<PopEvent>>, "command", <<PopEvent>>)
  BY DEF At, Cons
<1> QED BY ONLY <1>2, <1>4, <1>5, <1>6, <1>7, <1>8, <1>9, <1>10

----------------------------------------------------------------------------
(* The map from the interrupting stages to their setup stages.             *)

\* ArrayMap: an entry is put into the first that is free.
LEMMA PutIs ==
  ASSUME NEW map, NEW n \in Nat, DOMAIN map = 1 .. n, NEW i \in 1 .. n, map[i] = None,
         NEW key, NEW value
  PROVE  \E j \in 1 .. n : /\ j <= i /\ map[j] = None
                           /\ Put(map, key, value) = [map EXCEPT ![j] = <<key, value>>]
<1> DEFINE free == {k \in DOMAIN map : map[k] = None}
<1>1. i \in free /\ free \in SUBSET Nat /\ free \subseteq 1 .. n
  OBVIOUS
<1>2. Min(free) \in free /\ \A x \in free : Min(free) <= x
  <2> HIDE DEF free
  <2> QED BY <1>1, LeastExists
<1>3. Put(map, key, value) = [map EXCEPT ![Min(free)] = <<key, value>>]
  BY <1>1 DEF Put
<1>4. Min(free) \in 1 .. n /\ Min(free) <= i /\ map[Min(free)] = None
  <2>1. \A x \in free : map[x] = None
    OBVIOUS
  <2> HIDE DEF free
  <2> QED BY <1>1, <1>2, <2>1
<1> HIDE DEF free
<1> QED BY <1>3, <1>4

\* The entry of a key.
LEMMA HeldIs ==
  ASSUME NEW map, NEW n \in Nat, DOMAIN map = 1 .. n, NEW key, Holding(map, key) # {}
  PROVE  \E i \in 1 .. n : /\ map[i] # None /\ map[i][1] = key /\ Get(map, key) = map[i][2]
                           /\ Delete(map, key) = [map EXCEPT ![i] = None]
<1> DEFINE held == Holding(map, key)
<1>1. /\ held # {} /\ held \in SUBSET Nat
      /\ \A x \in held : x \in 1 .. n /\ map[x] # None /\ map[x][1] = key
  BY DEF Holding
<1>2. Get(map, key) = map[Min(held)][2] /\ Delete(map, key) = [map EXCEPT ![Min(held)] = None]
  BY <1>1 DEF Get, Delete
<1> HIDE DEF held
<1>3. Min(held) \in held
  BY <1>1, LeastExists
<1> QED BY <1>1, <1>2, <1>3

----------------------------------------------------------------------------
(* The queue of the events.                                                *)




\* What is appended to a queue stays there if its first is taken.
LEMMA TailOfAppend ==
  ASSUME NEW A, NEW q \in Seq(A), q # << >>, NEW e \in A
  PROVE  Append(q, e) # << >> /\ Tail(Append(q, e)) = Append(Tail(q), e)
<1>1. /\ Tail(q) \in Seq(A) /\ Len(Tail(q)) = Len(q) - 1
      /\ \A i \in 1 .. Len(Tail(q)) : Tail(q)[i] = q[i + 1]
  BY HeadTailProperties
<1>2. Len(q) \in Nat /\ Len(q) # 0
  BY EmptySeq, LenProperties
<1>3. /\ Append(q, e) \in Seq(A) /\ Append(q, e) # << >> /\ Len(Append(q, e)) = Len(q) + 1
      /\ \A i \in 1 .. Len(q) : Append(q, e)[i] = q[i]
      /\ Append(q, e)[Len(q) + 1] = e
  BY AppendProperties
<1> DEFINE s == Append(q, e)
           t == Tail(s)
           u == Append(Tail(q), e)
<1>4. /\ u \in Seq(A) /\ Len(u) = Len(q)
      /\ \A i \in 1 .. Len(q) - 1 : u[i] = q[i + 1]
      /\ u[Len(q)] = e
  BY <1>1, <1>2, AppendProperties
<1> HIDE DEF s, u
<1>5. /\ t \in Seq(A) /\ Len(t) = Len(q)
      /\ \A i \in 1 .. Len(q) : t[i] = s[i + 1]
  BY <1>2, <1>3, HeadTailProperties DEF s
<1>6. \A i \in 1 .. Len(q) : t[i] = u[i]
  BY <1>2, <1>3, <1>4, <1>5 DEF s
<1> HIDE DEF t
<1>7. t = u
  BY <1>4, <1>5, <1>6, SeqEqual
<1> QED BY <1>3, <1>7 DEF s, t, u

\* No answer is in q1 that is not in q.
Fewer(q1, q) == \A p \in StagePlaces : /\ Answers(p) \cap ToSet(q1) \subseteq ToSet(q)
                                       /\ AnswersIn(q1, p) \in Nat
                                       /\ AnswersIn(q1, p) <= AnswersIn(q, p)

\* What the control transfers do not look at.
ElseKept == /\ dev'.init = dev.init /\ dev'.eps = dev.eps /\ dev'.config = dev.config
            /\ hid'.init \in 0 .. 2 /\ (hid'.init = hid.init \/ portPhase = "Configured")
            /\ portPhase' = portPhase

----------------------------------------------------------------------------
(* The control endpoint: each kind of step moves its invariant.            *)

\* How many TRBs the driver is about to push.
LEMMA NumbersOfPc ==
  /\ \A pc \in Quiet : StagesLeft(pc) = 0 /\ pc \notin Busy
  /\ \A pc \in Busy : pc \notin Quiet
  /\ \A pc : StagesLeft(pc) \in 0 .. 3
  /\ \A r, pc : \A times \in Nat : Pushes(r, pc, times) \in Nat
BY DEF Quiet, Busy, StagesLeft, Pushes

\* What comes last is the same.
LEMMA LastStays ==
  ASSUME NEW r, NEW s, PlacesOK(r), Stays(r, s)
  PROVE  /\ LastPlace(s) = LastPlace(r) /\ LastTrb(s) = LastTrb(r)
         /\ \A pc, times : Pushes(s, pc, times) = Pushes(r, pc, times)
BY DEF PlacesOK, Stays, LastPlace, LastTrb, Pushes

\* The control ring stays as it is, and the driver is elsewhere between two transfers
\* or where it was; what is no longer waited for may go.
LEMMA StaysMove ==
  ASSUME NEW q, NEW q1, Fewer(q1, q), NEW pc, NEW pc1, NEW times \in Nat,
         PlacesOK(control), ControlInv(q, pc, times), Stays(control, control'),
         pc1 = pc \/ (pc \in Quiet /\ pc1 \in Quiet),
         portPhase # "Configured" => pc1 \in {pc, "end"},
         DOMAIN setupMap' = DOMAIN setupMap,
         \A i \in 1 .. MapSize : setupMap'[i] \in {setupMap[i], None},
         \A p \in StagePlaces : Open(control', q1, p) /\ Holding(setupMap, p) # {}
                                  => Holding(setupMap', p) # {},
         pushed' = pushed, ElseKept, xhc'.request = xhc.request,
         "control" \in xhc.halted => "control" \in xhc'.halted
  PROVE  ControlInv(q1, pc1, times)'
<1> DEFINE r == control
           s == control'
<1>0. /\ PushedOK(pc) /\ StagesOK /\ TicketsOK(q, pc, times) /\ AnswersOK(q) /\ MapOK(pc, times)
      /\ WhileInitializing(q, pc, times) /\ WhileConfiguring(q, pc, times) /\ PhaseOK /\ RoomOK(pc, times)
  BY DEF ControlInv
<1>1. /\ \A p \in StagePlaces : /\ OnItsWay(s, p) <=> OnItsWay(r, p)
                                /\ s.high[p] = r.high[p] /\ Ahead(s, p) = Ahead(r, p)
                                /\ Before(p) \in StagePlaces
      /\ Count(s) = Count(r) /\ Free(s) = Free(r) /\ Taken(s) = Taken(r) /\ s.seen = r.seen
      /\ Free(r) \in StagePlaces /\ Taken(r) \in StagePlaces
      /\ Copying(s) <=> Copying(r)
      /\ Copying(r) => s.low[Free(s)] = r.low[Free(r)]
  BY DEF PlacesOK, Stays
<1>2. /\ LastPlace(s) = LastPlace(r) /\ LastTrb(s) = LastTrb(r)
      /\ Pushes(s, pc1, times) = Pushes(r, pc, times)
      /\ Puts(pc1, times) = Puts(pc, times)
  <2>1. StagesLeft(pc1) = StagesLeft(pc) /\ Puts(pc1, times) = Puts(pc, times)
    BY NumbersOfPc DEF Puts
  <2>2. Pushes(r, pc1, times) = Pushes(r, pc, times)
    BY <2>1 DEF Pushes
  <2> QED BY <2>1, <2>2, LastStays
<1>3. \A p \in StagePlaces : Open(s, q1, p) => Open(r, q, p)
  BY <1>1 DEF Open, Fewer
<1>4. PushedOK(pc1)'
  <2>1. pc1 = pc \/ (pc \in Quiet /\ pc1 \in Quiet)
    OBVIOUS
  <2>2. pushed' = pushed
    OBVIOUS
  <2> QED BY ONLY <1>0, <1>2, <2>1, <2>2 DEF PushedOK, Quiet
<1>5. StagesOK'
  BY <1>0, <1>1 DEF StagesOK
<1>6. TicketsOK(q1, pc1, times)'
  <2> SUFFICES ASSUME NEW p \in StagePlaces, Open(s, q1, p)
               PROVE  TicketOK(p, pc1, times)'
    BY DEF TicketsOK
  <2>1. Open(r, q, p) /\ TicketOK(p, pc, times)
    BY <1>0, <1>3 DEF TicketsOK
  <2>2. Holding(setupMap', p) # {} \/ (pc1 \in {"statusIn", "put"} /\ pushed'.ioc = p)
    BY <2>1 DEF TicketOK, Quiet
  <2> QED BY <1>1, <1>2, <2>1, <2>2 DEF TicketOK
<1>7. AnswersOK(q1)'
  <2>1. \A p \in StagePlaces : AnswersIn(q1, p) \in {0, 1}
    BY <1>0 DEF AnswersOK, Fewer
  <2>2. \A p \in StagePlaces : AnswersIn(q1, p) = 1 => AnswersIn(q, p) = 1
    BY <1>0, <2>1 DEF AnswersOK, Fewer
  <2> QED BY <1>0, <1>1, <2>1, <2>2 DEF AnswersOK, Fewer
<1>8. MapOK(pc1, times)'
  <2>1. Total' = Total
    BY DEF Total, ElseKept
  <2> QED BY <1>0, <1>2, <2>1 DEF MapOK
<1>9. WhileInitializing(q1, pc1, times)'
  <2> SUFFICES ASSUME portPhase = "InitializingDevice" PROVE WhileInitializing(q1, pc1, times)'
    BY DEF WhileInitializing, ElseKept
  <2>1. /\ dev'.init \in 1 .. 3 /\ times = 0 /\ hid'.init = 0
        /\ pc1 \notin {"report", "reportBell", "command"}
    BY <1>0 DEF WhileInitializing, ElseKept
  <2>2. \A p1, p2 \in StagePlaces : Open(s, q1, p1) /\ Open(s, q1, p2) => p1 = p2
    BY <1>0, <1>3 DEF WhileInitializing
  <2>3. \A p \in StagePlaces : Open(s, q1, p) =>
          LinkPlace - Ahead(s, p) + Pushes(s, pc1, times)
            <= IF s.high[p] = DataStage THEN 2 ELSE 1
    BY <1>0, <1>1, <1>2, <1>3 DEF WhileInitializing
  <2> QED BY <2>1, <2>2, <2>3 DEF WhileInitializing
<1>10. WhileConfiguring(q1, pc1, times)'
  <2>1. ASSUME portPhase = "ConfiguringEndpoints" PROVE \A p \in StagePlaces : AnswersIn(q1, p) = 0
    BY <1>0, <2>1 DEF Fewer, WhileConfiguring
  <2>2. portPhase = "ConfiguringEndpoints" => pc1 \in {"command", "end"}
    BY <1>0 DEF WhileConfiguring
  <2>3. portPhase = "ConfiguringEndpoints" => \A i \in 1 .. MapSize : setupMap'[i] = None
    BY <1>0 DEF WhileConfiguring
  <2> QED BY <1>0, <1>1, <2>1, <2>2, <2>3 DEF WhileConfiguring, ElseKept
<1>11. PhaseOK'
  BY <1>0 DEF PhaseOK, ElseKept
<1>12. RoomOK(pc1, times)'
  BY <1>0, <1>1, <1>2 DEF RoomOK
<1> QED
  BY <1>4, <1>5, <1>6, <1>7, <1>8, <1>9, <1>10, <1>11, <1>12 DEF ControlInv

\* What the driver pushes at each step of a control transfer, and where it then is.
PushesAt(pc, x, pc1) ==
  \/ pc = "setupIn" /\ x \in SetupsIn /\ pc1 = "data"
  \/ pc = "setupOut" /\ x \in SetupsOut /\ pc1 = "statusOut"
  \/ pc = "data" /\ x = DataStage /\ pc1 = "statusIn"
  \/ pc = "statusIn" /\ x = StatusStage(FALSE) /\ pc1 = "put"
  \/ pc = "statusOut" /\ x = StatusStage(TRUE) /\ pc1 = "put"

\* The driver begins to push a stage.
LEMMA BeginsMove ==
  ASSUME NEW q, NEW pc, NEW pc1, NEW times \in Nat, NEW x,
         PlacesOK(control), ControlInv(q, pc, times), BeginsIn(control, control', x),
         PushesAt(pc, x, pc1),
         pushed' = CASE x.type = "Setup" -> [pushed EXCEPT !.setup = Free(control)]
                     [] x.type # "Setup" /\ x.ioc -> [pushed EXCEPT !.ioc = Free(control)]
                     [] OTHER -> pushed,
         setupMap' = setupMap, ElseKept, xhc' = xhc
  PROVE  ControlInv(q, pc1, times)'
<1> DEFINE r == control
           s == control'
<1>0. /\ PushedOK(pc) /\ StagesOK /\ TicketsOK(q, pc, times) /\ AnswersOK(q) /\ MapOK(pc, times)
      /\ WhileInitializing(q, pc, times) /\ WhileConfiguring(q, pc, times) /\ PhaseOK /\ RoomOK(pc, times)
  BY DEF ControlInv
<1>1. /\ \A p \in StagePlaces : /\ OnItsWay(s, p) <=> OnItsWay(r, p)
                                /\ s.high[p] = r.high[p] /\ Ahead(s, p) = Ahead(r, p)
                                /\ Before(p) \in StagePlaces
      /\ Count(s) = Count(r) /\ Free(s) = Free(r) /\ Taken(s) = Taken(r) /\ s.seen = r.seen
      /\ Free(r) \in StagePlaces /\ Taken(r) \in StagePlaces
      /\ Copying(s) /\ ~Copying(r) /\ s.low[Free(s)] = x
  BY DEF PlacesOK, BeginsIn
<1>2. /\ LastPlace(s) = Free(r) /\ LastTrb(s) = x
      /\ LastPlace(r) = Before(Free(r)) /\ LastTrb(r) = r.high[Before(Free(r))]
  BY <1>1 DEF LastPlace, LastTrb
<1>3. Pushes(s, pc1, times) = Pushes(r, pc, times) /\ Puts(pc1, times) = Puts(pc, times)
  <2>1. StagesLeft(pc) = StagesLeft(pc1) + 1 /\ pc \in Busy /\ pc1 \in Busy
        /\ StagesLeft(pc1) \in 0 .. 3
    <3>1. \/ pc = "setupIn" /\ pc1 = "data"
          \/ pc = "setupOut" /\ pc1 = "statusOut"
          \/ pc = "data" /\ pc1 = "statusIn"
          \/ pc \in {"statusIn", "statusOut"} /\ pc1 = "put"
      BY DEF PushesAt
    <3>2. /\ StagesLeft("setupIn") = 3 /\ StagesLeft("setupOut") = 2 /\ StagesLeft("data") = 2
          /\ StagesLeft("statusIn") = 1 /\ StagesLeft("statusOut") = 1 /\ StagesLeft("put") = 0
      BY DEF StagesLeft
    <3> QED BY ONLY <3>1, <3>2 DEF Busy
  <2> QED BY ONLY <1>1, <2>1, times \in Nat DEF Pushes, Puts
<1>4. \A p : Open(s, q, p) /\ p \in StagePlaces => Open(r, q, p)
  BY <1>1 DEF Open
<1>5. /\ Free(r) \in Places /\ Free(r) \in StagePlaces
      /\ pushed \in [setup : Places, ioc : Places]
  BY <1>0, <1>1, TransferPlaces DEF StagePlaces, PushedOK
<1>6. /\ x \in Setups => pushed' = [pushed EXCEPT !.setup = Free(r)]
      /\ x \in Interrupting => pushed' = [pushed EXCEPT !.ioc = Free(r)]
      /\ x = StatusStage(FALSE) => pushed' = pushed
  BY StageKinds DEF Interrupting, Statuses
<1>7. PushedOK(pc1)' /\ Follows(LastTrb(r), x) /\ (x \in Interrupting \cup Setups \/ pushed' = pushed)
  <2>1. CASE x \in Setups
    <3>1. /\ pushed'.setup = Free(r) /\ pushed' \in [setup : Places, ioc : Places]
      BY <1>5, <1>6, <2>1
    <3>2. \/ x \in SetupsIn /\ pc = "setupIn" /\ pc1 = "data"
          \/ x \in SetupsOut /\ pc = "setupOut" /\ pc1 = "statusOut"
      BY <2>1, StageKinds DEF PushesAt, Statuses
    <3>3. LastTrb(r) \in Statuses \cup {Zero}
      BY <1>0, <3>2 DEF PushedOK
    <3> QED BY <1>2, <2>1, <3>1, <3>2, <3>3 DEF PushedOK, Follows
  <2>2. CASE x = DataStage
    <3>1. pc = "data" /\ pc1 = "statusIn"
      BY <2>2, StageKinds DEF PushesAt, Statuses, Setups
    <3>2. LastTrb(r) \in SetupsIn /\ pushed.setup = Before(Free(r))
      BY <1>0, <1>2, <3>1 DEF PushedOK
    <3>3. /\ pushed'.ioc = Free(r) /\ pushed' \in [setup : Places, ioc : Places]
          /\ pushed'.setup = Before(Free(r))
      BY <1>5, <1>6, <2>2, <3>2 DEF Interrupting
    <3> QED BY <1>2, <1>5, <2>2, <3>1, <3>2, <3>3 DEF PushedOK, Follows, Interrupting
  <2>3. CASE x = StatusStage(FALSE)
    <3>1. pc = "statusIn" /\ pc1 = "put"
      BY <2>3, StageKinds DEF PushesAt, Statuses, Setups
    <3>2. LastTrb(r) = DataStage /\ pushed.ioc \in StagePlaces /\ pushed.setup = Before(pushed.ioc)
      BY <1>0, <1>2, <3>1 DEF PushedOK
    <3> QED BY <1>2, <1>5, <1>6, <2>3, <3>1, <3>2, StageKinds DEF PushedOK, Follows, Statuses
  <2>4. CASE x = StatusStage(TRUE)
    <3>1. pc = "statusOut" /\ pc1 = "put"
      BY <2>4, StageKinds DEF PushesAt, Statuses, Setups
    <3>2. LastTrb(r) \in SetupsOut /\ pushed.setup = Before(Free(r))
      BY <1>0, <1>2, <3>1 DEF PushedOK
    <3>3. /\ pushed'.ioc = Free(r) /\ pushed' \in [setup : Places, ioc : Places]
          /\ pushed'.setup = Before(Free(r))
      BY <1>5, <1>6, <2>4, <3>2 DEF Interrupting
    <3> QED BY <1>2, <1>5, <2>4, <3>1, <3>2, <3>3 DEF PushedOK, Follows, Interrupting, Statuses
  <2> QED BY <2>1, <2>2, <2>3, <2>4 DEF PushesAt, Setups
<1>8. StagesOK'
  <2>1. Follows(s.high[Before(Free(s))], s.low[Free(s)])
    BY <1>1, <1>2, <1>7
  <2> QED BY <1>0, <1>1, <2>1 DEF StagesOK
<1>9. TicketsOK(q, pc1, times)'
  <2> SUFFICES ASSUME NEW p \in StagePlaces, Open(s, q, p)
               PROVE  TicketOK(p, pc1, times)'
    BY DEF TicketsOK
  <2>1. Open(r, q, p) /\ TicketOK(p, pc, times)
    BY <1>0, <1>4 DEF TicketsOK
  <2>2. Holding(setupMap', p) # {} \/ (pc1 \in {"statusIn", "put"} /\ pushed'.ioc = p)
    <3>1. Holding(setupMap, p) # {} \/ (pc \in {"statusIn", "put"} /\ pushed.ioc = p)
      BY <2>1 DEF TicketOK
    <3>2. pc = "statusIn" => pc1 = "put" /\ pushed' = pushed
      BY <1>6 DEF PushesAt
    <3> QED BY <3>1, <3>2 DEF PushesAt
  <2> QED BY <1>1, <1>3, <2>1, <2>2 DEF TicketOK
<1>10. AnswersOK(q)'
  BY <1>0, <1>1 DEF AnswersOK
<1>11. MapOK(pc1, times)'
  <2>1. Total' = Total
    BY DEF Total, ElseKept
  <2> QED BY <1>0, <1>3, <2>1 DEF MapOK
<1>12. WhileInitializing(q, pc1, times)'
  <2> SUFFICES ASSUME portPhase = "InitializingDevice" PROVE WhileInitializing(q, pc1, times)'
    BY DEF WhileInitializing, ElseKept
  <2>1. /\ dev'.init \in 1 .. 3 /\ times = 0 /\ hid'.init = 0
        /\ pc1 \notin {"report", "reportBell", "command"}
    BY <1>0 DEF WhileInitializing, ElseKept, PushesAt
  <2>2. \A p1, p2 \in StagePlaces : Open(s, q, p1) /\ Open(s, q, p2) => p1 = p2
    BY <1>0, <1>4 DEF WhileInitializing
  <2>3. \A p \in StagePlaces : Open(s, q, p) =>
          LinkPlace - Ahead(s, p) + Pushes(s, pc1, times)
            <= IF s.high[p] = DataStage THEN 2 ELSE 1
    BY <1>0, <1>1, <1>3, <1>4 DEF WhileInitializing
  <2> QED BY <2>1, <2>2, <2>3 DEF WhileInitializing
<1>13. WhileConfiguring(q, pc1, times)'
  BY <1>0 DEF WhileConfiguring, ElseKept, PushesAt
<1>14. PhaseOK'
  BY <1>0 DEF PhaseOK, ElseKept
<1>15. RoomOK(pc1, times)'
  BY <1>0, <1>1, <1>3 DEF RoomOK
<1> QED
  BY <1>7, <1>8, <1>9, <1>10, <1>11, <1>12, <1>13, <1>14, <1>15 DEF ControlInv

\* The second half of a stage is written.
LEMMA CopiesMove ==
  ASSUME NEW q \in Seq(AllEvents), NEW pc, NEW times \in Nat,
         PlacesOK(control), ControlInv(q, pc, times), Copies(control, control'),
         pc \in {"data", "statusIn", "statusOut", "put"},
         pushed' = pushed, setupMap' = setupMap, ElseKept, xhc' = xhc
  PROVE  ControlInv(q, pc, times)'
<1> DEFINE r == control
           s == control'
           f == Free(r)
<1>0. /\ PushedOK(pc) /\ StagesOK /\ TicketsOK(q, pc, times) /\ AnswersOK(q) /\ MapOK(pc, times)
      /\ WhileInitializing(q, pc, times) /\ WhileConfiguring(q, pc, times) /\ PhaseOK /\ RoomOK(pc, times)
  BY DEF ControlInv
<1>1. /\ \A p \in StagePlaces :
           /\ OnItsWay(s, p) <=> OnItsWay(r, p) \/ p = f
           /\ s.high[p] = IF p = f THEN r.low[f] ELSE r.high[p]
           /\ Ahead(s, p) = IF p = f THEN LinkPlace - 1 ELSE Ahead(r, p) - 1
           /\ Before(p) \in StagePlaces /\ Ahead(r, p) \in 0 .. LinkPlace - 1
           /\ Ahead(r, p) = 0 <=> p = f
           /\ Ahead(r, p) = LinkPlace - 1 <=> p = Before(f)
           /\ p # f => Ahead(r, Before(p)) = Ahead(r, p) - 1
           /\ OnItsWay(r, p) => Ahead(r, p) + Count(r) >= LinkPlace
      /\ Ahead(r, Taken(r)) + Count(r) = LinkPlace - 1
      /\ Count(s) = Count(r) + 1 /\ Before(Free(s)) = f /\ Taken(s) = Taken(r) /\ s.seen = r.seen
      /\ f \in StagePlaces /\ Taken(r) \in StagePlaces
      /\ Count(r) \in Nat /\ Count(r) < Capacity
      /\ Copying(r) /\ ~Copying(s)
  BY DEF PlacesOK, Copies
<1>2. /\ LinkPlace \in Nat /\ LinkPlace >= 5 /\ Capacity = LinkPlace - 1
  BY TransferPlaces
<1> HIDE DEF f
<1>3. /\ Pushes(s, pc, times) = Pushes(r, pc, times) - 1 /\ Pushes(r, pc, times) \in Nat
      /\ Pushes(r, pc, times) >= 1
      /\ times = 0 => Pushes(r, pc, times) = StagesLeft(pc) + 1
  <2>1. StagesLeft(pc) \in 0 .. 3
    BY NumbersOfPc
  <2> QED BY ONLY <1>1, <2>1, times \in Nat DEF Pushes
<1>4. /\ LastPlace(s) = f /\ LastTrb(s) = r.low[f] /\ LastPlace(r) = f /\ LastTrb(r) = r.low[f]
      /\ s.high[f] = r.low[f]
  BY <1>1 DEF LastPlace, LastTrb, f
<1>5. /\ Before(f) # f /\ s.high[Before(f)] = r.high[Before(f)]
      /\ Follows(r.high[Before(f)], r.low[f])
  <2>1. Before(f) # f
    BY <1>1, <1>2
  <2>2. Follows(r.high[Before(f)], r.low[f])
    BY <1>0, <1>1 DEF StagesOK, f
  <2> QED BY <1>1, <2>1, <2>2
<1>6. ASSUME NEW p \in StagePlaces, Open(r, q, p)
      PROVE  /\ TicketOK(p, pc, times) /\ Ahead(r, p) > Pushes(r, pc, times)
             /\ p # f /\ Before(p) # f
             /\ s.high[p] = r.high[p] /\ s.high[Before(p)] = r.high[Before(p)]
             /\ Ahead(s, p) = Ahead(r, p) - 1
  <2>1. TicketOK(p, pc, times) /\ Ahead(r, p) > Pushes(r, pc, times)
    BY <1>0, <1>6 DEF TicketsOK, TicketOK
  <2>2. Ahead(r, p) \in Nat /\ Ahead(r, p) >= 2
    BY ONLY <1>1, <1>3, <2>1, p \in StagePlaces
  <2>3. p # f
    BY <1>1, <2>2
  <2>4. Before(p) # f
    BY <1>1, <2>2, <2>3
  <2> QED BY <1>1, <2>1, <2>3, <2>4
<1>7. AnswersIn(q, f) = 0
  BY <1>1, <1>6 DEF Open
<1>8. \A p \in StagePlaces : Open(s, q, p) /\ p # f => Open(r, q, p)
  BY <1>1 DEF Open
<1>9. Open(s, q, f) => /\ r.low[f] \in Interrupting
                       /\ \/ pc = "statusIn" /\ r.low[f] = DataStage
                          \/ pc = "put" /\ r.low[f] = StatusStage(TRUE)
                       /\ pushed.ioc = f
  <2> SUFFICES ASSUME Open(s, q, f)
               PROVE  /\ r.low[f] \in Interrupting
                      /\ \/ pc = "statusIn" /\ r.low[f] = DataStage
                         \/ pc = "put" /\ r.low[f] = StatusStage(TRUE)
                      /\ pushed.ioc = f
    OBVIOUS
  <2>1. r.low[f] \in Interrupting
    BY <1>4, <1>7 DEF Open
  <2>2. pc \notin {"data", "statusOut"}
    <3>1. r.low[f] \notin Setups
      BY <2>1, StageKinds
    <3> QED BY <1>0, <1>4, <3>1 DEF PushedOK, Setups
  <2>3. CASE pc = "statusIn"
    BY <1>0, <1>4, <2>1, <2>3 DEF PushedOK
  <2>4. CASE pc = "put"
    <3>1. r.low[f] \in Statuses \cup {Zero}
      BY <1>0, <1>4, <2>4 DEF PushedOK
    <3>2. r.low[f] = StatusStage(TRUE)
      BY <2>1, <3>1, StageKinds DEF Interrupting
    <3> QED BY <1>0, <1>4, <2>1, <2>4, <3>2 DEF PushedOK
  <2> QED BY <2>1, <2>2, <2>3, <2>4
<1>10. PushedOK(pc)'
  <2>1. pushed' = pushed /\ LastPlace(s) = LastPlace(r) /\ LastTrb(s) = LastTrb(r)
    BY <1>4
  <2> QED BY ONLY <1>0, <2>1 DEF PushedOK
<1>11. StagesOK'
  <2>1. ASSUME NEW p \in StagePlaces, OnItsWay(s, p)
        PROVE  Follows(s.high[Before(p)], s.high[p])
    <3>1. CASE p = f
      BY <1>4, <1>5, <3>1
    <3>2. CASE p # f
      <4>1. OnItsWay(r, p) /\ Follows(r.high[Before(p)], r.high[p])
        BY <1>0, <1>1, <2>1, <3>2 DEF StagesOK
      <4>2. Before(p) # f
        BY <1>1, <1>2, <3>2, <4>1
      <4> QED BY <1>1, <3>2, <4>1, <4>2
    <3> QED BY <3>1, <3>2
  <2>2. s.seen[2] = s.high[Taken(s)]
    <3>1. Taken(r) # f
      BY <1>1, <1>2
    <3> QED BY <1>0, <1>1, <3>1 DEF StagesOK
  <2> QED BY <1>0, <1>1, <2>1, <2>2 DEF StagesOK
<1>12. TicketsOK(q, pc, times)'
  <2> SUFFICES ASSUME NEW p \in StagePlaces, Open(s, q, p)
               PROVE  TicketOK(p, pc, times)'
    BY DEF TicketsOK
  <2>1. CASE p = f
    <3>1. Ahead(s, p) > Pushes(s, pc, times)
      <4>1. Count(r) + Pushes(r, pc, times) <= Capacity
        BY <1>0 DEF RoomOK
      <4>2. Ahead(s, p) = LinkPlace - 1
        BY <1>1, <2>1
      <4> QED BY ONLY <1>1, <1>2, <1>3, <4>1, <4>2
    <3>2. s.high[p] \in Interrupting /\ s.high[Before(p)] \in Setups
          /\ Follows(s.high[Before(p)], s.high[p])
      BY <1>4, <1>5, <1>9, <2>1, FollowKinds
    <3>3. pc \in {"statusIn", "put"} /\ pushed'.ioc = p
      BY <1>9, <2>1
    <3> QED BY <3>1, <3>2, <3>3 DEF TicketOK
  <2>2. CASE p # f
    <3>1. Open(r, q, p)
      BY <1>8, <2>2
    <3>2. /\ TicketOK(p, pc, times) /\ Ahead(r, p) > Pushes(r, pc, times)
          /\ s.high[p] = r.high[p] /\ s.high[Before(p)] = r.high[Before(p)]
          /\ Ahead(s, p) = Ahead(r, p) - 1
      BY <1>6, <3>1
    <3>3. Ahead(s, p) > Pushes(s, pc, times)
      BY ONLY <1>1, <1>3, <3>2, p \in StagePlaces
    <3> QED BY <3>2, <3>3 DEF TicketOK
  <2> QED BY <2>1, <2>2
<1>13. AnswersOK(q)'
  <2>1. ASSUME NEW p \in StagePlaces, AnswersIn(q, p) # 0
        PROVE  /\ AnswersIn(q, p) = 1 /\ Ahead(s, p) + Count(s) < LinkPlace
               /\ s.high[Before(p)] = r.high[Before(p)]
    <3>1. Open(r, q, p)
      BY <2>1 DEF Open
    <3>2. AnswersIn(q, p) = 1 /\ Ahead(r, p) + Count(r) < LinkPlace
      BY <1>0, <2>1 DEF AnswersOK
    <3> QED BY <1>1, <1>6, <3>1, <3>2
  <2>2. ASSUME NEW p \in StagePlaces, NEW e \in Answers(p) \cap ToSet(q)
        PROVE  e.request = s.high[Before(p)].request
    <3>1. AnswersIn(q, p) # 0
      BY CountType DEF AnswersIn
    <3> QED BY <1>0, <2>1, <3>1 DEF AnswersOK
  <2> QED BY <1>0, <2>1, <2>2 DEF AnswersOK
<1>14. MapOK(pc, times)'
  <2>1. Total' = Total
    BY DEF Total, ElseKept
  <2> QED BY <1>0, <2>1 DEF MapOK
<1>15. WhileInitializing(q, pc, times)'
  <2> SUFFICES ASSUME portPhase = "InitializingDevice" PROVE WhileInitializing(q, pc, times)'
    BY DEF WhileInitializing, ElseKept
  <2>1. /\ dev'.init \in 1 .. 3 /\ times = 0 /\ hid'.init = 0
        /\ pc \notin {"report", "reportBell", "command"}
    BY <1>0 DEF WhileInitializing, ElseKept
  <2>2. \A p \in StagePlaces : Open(r, q, p) =>
          LinkPlace - Ahead(r, p) + Pushes(r, pc, times)
            <= IF r.high[p] = DataStage THEN 2 ELSE 1
    BY <1>0 DEF WhileInitializing
  <2>3. ASSUME Open(s, q, f), NEW p \in StagePlaces, Open(r, q, p) PROVE FALSE
    <3>1. CASE pc = "statusIn"
      <4>1. Pushes(r, pc, times) = 2
        BY <1>3, <2>1, <3>1 DEF StagesLeft
      <4> QED BY <1>1, <1>2, <2>2, <2>3, <4>1
    <3>2. CASE pc = "put" /\ r.low[f] = StatusStage(TRUE)
      <4>1. Pushes(r, pc, times) = 1
        BY <1>3, <2>1, <3>2 DEF StagesLeft
      <4>2. r.high[p] = DataStage /\ Ahead(r, p) = LinkPlace - 1
        BY <1>1, <1>2, <2>2, <2>3, <4>1
      <4>3. r.high[Before(f)] = DataStage
        BY <1>1, <4>2
      <4>4. r.high[Before(f)] \in SetupsOut
        BY <1>5, <3>2, FollowKinds
      <4> QED BY <4>3, <4>4, StageKinds DEF Setups, Interrupting
    <3> QED BY <1>9, <2>3, <3>1, <3>2
  <2>4. \A p1, p2 \in StagePlaces : Open(s, q, p1) /\ Open(s, q, p2) => p1 = p2
    BY <1>0, <1>8, <2>3 DEF WhileInitializing
  <2>5. ASSUME NEW p \in StagePlaces, Open(s, q, p)
        PROVE  LinkPlace - Ahead(s, p) + Pushes(s, pc, times)
                 <= IF s.high[p] = DataStage THEN 2 ELSE 1
    <3>1. CASE p = f
      <4>1. Ahead(s, p) = LinkPlace - 1
        BY <1>1, <3>1
      <4>2. Pushes(s, pc, times) = StagesLeft(pc)
        BY ONLY <1>3, <2>1, NumbersOfPc
      <4>3. \/ StagesLeft(pc) = 1 /\ s.high[p] = DataStage
            \/ StagesLeft(pc) = 0
        BY <1>4, <1>9, <2>5, <3>1 DEF StagesLeft
      <4> QED BY ONLY <1>2, <4>1, <4>2, <4>3
    <3>2. CASE p # f
      <4>1. Open(r, q, p)
        BY <1>8, <2>5, <3>2
      <4>2. s.high[p] = r.high[p] /\ Ahead(s, p) = Ahead(r, p) - 1
        BY <1>6, <4>1
      <4>3. LinkPlace - Ahead(r, p) + Pushes(r, pc, times)
              <= IF r.high[p] = DataStage THEN 2 ELSE 1
        BY <2>2, <4>1
      <4> QED BY ONLY <1>1, <1>2, <1>3, <4>2, <4>3, p \in StagePlaces
    <3> QED BY <3>1, <3>2
  <2> QED BY <2>1, <2>4, <2>5 DEF WhileInitializing
<1>16. WhileConfiguring(q, pc, times)'
  BY <1>0 DEF WhileConfiguring, ElseKept
<1>17. PhaseOK'
  BY <1>0 DEF PhaseOK, ElseKept
<1>18. RoomOK(pc, times)'
  <2>1. Count(r) + Pushes(r, pc, times) <= Capacity
    BY <1>0 DEF RoomOK
  <2>2. Count(s) + Pushes(s, pc, times) <= Capacity
    BY ONLY <1>1, <1>2, <1>3, <2>1
  <2> QED BY <2>2 DEF RoomOK
<1> QED
  BY <1>10, <1>11, <1>12, <1>13, <1>14, <1>15, <1>16, <1>17, <1>18 DEF ControlInv

\* The controller takes a stage, and may say that it is complete.
LEMMA TakesMove ==
  ASSUME NEW q \in Seq(AllEvents), NEW q1 \in Seq(AllEvents), NEW e \in AllEvents,
         NEW pc, NEW times \in Nat, NEW d,
         PlacesOK(control), ControlInv(q, pc, times), Takes(control, control', d),
         q1 = q \/ Adds(q1, q, e),
         \A p \in StagePlaces : e \in Answers(p) /\ q1 # q =>
           /\ p = d /\ control.high[d] \in Interrupting
           /\ e.request = xhc.request /\ "control" \notin xhc.halted,
         pushed' = pushed, setupMap' = setupMap, ElseKept,
         xhc'.request \in AskedFor,
         control.high[d] \in Setups /\ "control" \notin xhc'.halted
           => xhc'.request = control.high[d].request
  PROVE  ControlInv(q1, pc, times)'
<1> DEFINE r == control
           s == control'
<1>0. /\ PushedOK(pc) /\ StagesOK /\ TicketsOK(q, pc, times) /\ AnswersOK(q) /\ MapOK(pc, times)
      /\ WhileInitializing(q, pc, times) /\ WhileConfiguring(q, pc, times) /\ PhaseOK /\ RoomOK(pc, times)
  BY DEF ControlInv
<1>1. /\ \A p \in StagePlaces : /\ OnItsWay(s, p) <=> OnItsWay(r, p) /\ p # d
                                /\ s.high[p] = r.high[p] /\ Ahead(s, p) = Ahead(r, p)
                                /\ Before(p) \in StagePlaces
                                /\ Ahead(r, p) \in 0 .. LinkPlace - 1
      /\ OnItsWay(r, d) /\ d \in StagePlaces /\ Ahead(r, d) + Count(r) = LinkPlace
      /\ Count(r) \in Nat /\ Count(s) = Count(r) - 1 /\ Free(s) = Free(r)
      /\ Before(d) = Taken(r) /\ Taken(s) = d /\ s.seen[2] = r.high[d]
      /\ Free(r) \in StagePlaces
      /\ Copying(s) <=> Copying(r)
      /\ Copying(r) => s.low[Free(s)] = r.low[Free(r)]
  BY DEF PlacesOK, Takes
<1>2. /\ LinkPlace \in Nat /\ LinkPlace >= 5 /\ Capacity = LinkPlace - 1
  BY TransferPlaces
<1>3. /\ LastPlace(s) = LastPlace(r) /\ LastTrb(s) = LastTrb(r)
      /\ Pushes(s, pc, times) = Pushes(r, pc, times) /\ Pushes(r, pc, times) \in Nat
  <2>1. LastPlace(s) = LastPlace(r) /\ LastTrb(s) = LastTrb(r)
    BY <1>1 DEF LastPlace, LastTrb
  <2> QED BY <1>1, <2>1, NumbersOfPc DEF Pushes
<1>4. \A p \in StagePlaces : AnswersIn(q1, p) # AnswersIn(q, p) =>
        /\ p = d /\ e \in Answers(d) /\ q1 # q /\ AnswersIn(q1, p) = AnswersIn(q, p) + 1
  BY DEF Adds, AnswersIn
<1>5. AnswersIn(q, d) = 0
  BY <1>0, <1>1, <1>2 DEF AnswersOK
<1>6. \A p \in StagePlaces : Open(s, q1, p) => Open(r, q, p)
  BY <1>1, <1>4, <1>5 DEF Open
<1>7. PushedOK(pc)'
  BY <1>0, <1>3 DEF PushedOK
<1>8. StagesOK'
  BY <1>0, <1>1 DEF StagesOK
<1>9. TicketsOK(q1, pc, times)'
  BY <1>0, <1>1, <1>3, <1>6 DEF TicketsOK, TicketOK
<1>10. AnswersOK(q1)'
  <2>1. ASSUME NEW p \in StagePlaces
        PROVE  /\ AnswersIn(q1, p) \in {0, 1}
               /\ AnswersIn(q1, p) = 1 => Ahead(s, p) + Count(s) < LinkPlace
    <3>1. CASE AnswersIn(q1, p) = AnswersIn(q, p)
      BY <1>0, <1>1, <1>2, <3>1 DEF AnswersOK
    <3>2. CASE AnswersIn(q1, p) # AnswersIn(q, p)
      <4>1. p = d /\ AnswersIn(q1, p) = 1
        BY <1>4, <1>5, <3>2
      <4> QED BY <1>1, <1>2, <4>1
    <3> QED BY <3>1, <3>2
  <2>2. ASSUME NEW p \in StagePlaces, NEW x \in Answers(p) \cap ToSet(q1)
        PROVE  x.request = s.high[Before(p)].request
    <3>1. CASE x \in ToSet(q)
      BY <1>0, <1>1, <3>1 DEF AnswersOK
    <3>2. CASE x \notin ToSet(q)
      <4>1. x = e /\ q1 # q
        BY <2>2, <3>2 DEF Adds
      <4>2. /\ p = d /\ r.high[d] \in Interrupting
            /\ e.request = xhc.request /\ "control" \notin xhc.halted
        BY <2>2, <4>1
      <4>3. Follows(r.high[Before(d)], r.high[d])
        BY <1>0, <1>1 DEF StagesOK
      <4>4. r.high[Before(d)] \in Setups
        BY <4>2, <4>3, FollowKinds
      <4>5. xhc.request = r.high[Before(d)].request
        BY <1>0, <1>1, <4>2, <4>4 DEF StagesOK
      <4> QED BY <1>1, <4>1, <4>2, <4>5
    <3> QED BY <3>1, <3>2
  <2> QED BY <2>1, <2>2 DEF AnswersOK
<1>11. MapOK(pc, times)'
  <2>1. Total' = Total
    BY DEF Total, ElseKept
  <2> QED BY <1>0, <2>1 DEF MapOK
<1>12. WhileInitializing(q1, pc, times)'
  <2> SUFFICES ASSUME portPhase = "InitializingDevice" PROVE WhileInitializing(q1, pc, times)'
    BY DEF WhileInitializing, ElseKept
  <2>1. /\ dev'.init \in 1 .. 3 /\ times = 0 /\ hid'.init = 0
        /\ pc \notin {"report", "reportBell", "command"}
    BY <1>0 DEF WhileInitializing, ElseKept
  <2>2. \A p1, p2 \in StagePlaces : Open(s, q1, p1) /\ Open(s, q1, p2) => p1 = p2
    BY <1>0, <1>6 DEF WhileInitializing
  <2>3. \A p \in StagePlaces : Open(s, q1, p) =>
          LinkPlace - Ahead(s, p) + Pushes(s, pc, times)
            <= IF s.high[p] = DataStage THEN 2 ELSE 1
    <3> SUFFICES ASSUME NEW p \in StagePlaces, Open(s, q1, p)
                 PROVE  LinkPlace - Ahead(s, p) + Pushes(s, pc, times)
                          <= IF s.high[p] = DataStage THEN 2 ELSE 1
      OBVIOUS
    <3>1. LinkPlace - Ahead(r, p) + Pushes(r, pc, times)
            <= IF r.high[p] = DataStage THEN 2 ELSE 1
      BY <1>0, <1>6 DEF WhileInitializing
    <3> QED BY <1>1, <1>3, <3>1
  <2> QED BY <2>1, <2>2, <2>3 DEF WhileInitializing
<1>13. WhileConfiguring(q1, pc, times)'
  BY <1>0, <1>1, <1>2 DEF WhileConfiguring, ElseKept
<1>14. PhaseOK'
  BY <1>0 DEF PhaseOK, ElseKept
<1>15. RoomOK(pc, times)'
  <2>1. Count(r) + Pushes(r, pc, times) <= Capacity
    BY <1>0 DEF RoomOK
  <2>2. Count(s) + Pushes(s, pc, times) <= Capacity
    BY ONLY <1>1, <1>2, <1>3, <2>1
  <2> QED BY <2>2 DEF RoomOK
<1> QED
  BY <1>7, <1>8, <1>9, <1>10, <1>11, <1>12, <1>13, <1>14, <1>15 DEF ControlInv

\* The control ring stays as it is if it is not touched.
LEMMA RingStays == ASSUME NEW r PROVE Stays(r, r)
BY DEF Stays

\* setup_stage_map_ is large enough.
LEMMA TotalFits ==
  ASSUME PhaseOK
  PROVE  /\ Total \in Nat /\ Total <= MapSize /\ MapSize \in Nat
         /\ dev.init = 4 => LET n == Cardinality(Numbers(dev.eps))
                            IN  n \in Nat /\ n <= MapSize /\ 2 * n <= Capacity
<1>1. dev.config \in Configs /\ (dev.init = 4 => dev.eps = EpConfigs(dev.config))
      /\ (portPhase = "Configured" => dev.init = 4)
  BY DEF PhaseOK
<1>2. MapSize \in Nat /\ MapSize >= 1
  BY TransferAssumption, TransferSizes
<1>3. dev.init = 4 => LET n == Cardinality(Numbers(dev.eps))
                      IN  n \in Nat /\ n <= MapSize /\ 2 * n <= Capacity
  BY <1>1, TransferSizes
<1> QED BY <1>1, <1>2, <1>3 DEF Total

\* The driver notes which transfer the stage belongs to.
LEMMA PutMove ==
  ASSUME NEW q, NEW times \in Nat, PlacesOK(control), ControlInv(q, "put", times),
         setupMap' = Put(setupMap, pushed.ioc, pushed.setup),
         control' = control, pushed' = pushed, ElseKept, xhc' = xhc
  PROVE  ControlInv(q, "bell", times)'
<1>0. /\ PushedOK("put") /\ StagesOK /\ TicketsOK(q, "put", times) /\ AnswersOK(q)
      /\ MapOK("put", times)
      /\ WhileInitializing(q, "put", times) /\ WhileConfiguring(q, "put", times) /\ PhaseOK
      /\ RoomOK("put", times)
  BY DEF ControlInv
<1>1. /\ Pushes(control, "bell", times) = Pushes(control, "put", times)
      /\ Puts("put", times) = times + 1 /\ Puts("bell", times) = times
  BY DEF Pushes, StagesLeft, Puts, Busy
<1>2. Total' = Total /\ Total \in Nat /\ Total <= MapSize /\ MapSize \in Nat
  <2>1. Total' = Total
    BY DEF Total, ElseKept
  <2> QED BY <1>0, <2>1, TotalFits
<1> DEFINE p0 == pushed.ioc
<1>3. p0 \in StagePlaces /\ pushed.setup = Before(p0)
  BY <1>0 DEF PushedOK
<1>4. /\ times + 1 <= Total /\ DOMAIN setupMap = 1 .. MapSize
      /\ \A i \in 1 .. MapSize :
           /\ i > Total - (times + 1) => setupMap[i] = None
           /\ setupMap[i] = None \/ \E p \in StagePlaces : setupMap[i] = <<p, Before(p)>>
  BY <1>0, <1>1 DEF MapOK
<1>5. PICK j \in 1 .. MapSize : /\ j <= Total - times /\ setupMap[j] = None
                                /\ setupMap' = [setupMap EXCEPT ![j] = <<p0, Before(p0)>>]
  <2>1. Total - times \in 1 .. MapSize /\ setupMap[Total - times] = None
    BY <1>2, <1>4
  <2> HIDE DEF p0
  <2>2. \A i \in 1 .. MapSize : \A key, value : setupMap[i] = None =>
          \E k \in 1 .. MapSize : /\ k <= i /\ setupMap[k] = None
             /\ Put(setupMap, key, value) = [setupMap EXCEPT ![k] = <<key, value>>]
    <3> SUFFICES ASSUME NEW i \in 1 .. MapSize, NEW key, NEW value, setupMap[i] = None
                 PROVE  \E k \in 1 .. MapSize : /\ k <= i /\ setupMap[k] = None
                    /\ Put(setupMap, key, value) = [setupMap EXCEPT ![k] = <<key, value>>]
      OBVIOUS
    <3>1. MapSize \in Nat /\ DOMAIN setupMap = 1 .. MapSize
      BY <1>2, <1>4
    <3> QED BY ONLY <3>1, i \in 1 .. MapSize, setupMap[i] = None, PutIs
  <2>3. \E k \in 1 .. MapSize : /\ k <= Total - times /\ setupMap[k] = None
             /\ Put(setupMap, p0, Before(p0)) = [setupMap EXCEPT ![k] = <<p0, Before(p0)>>]
    BY ONLY <2>1, <2>2
  <2> QED BY <1>3, <2>3 DEF p0
<1> HIDE DEF p0
<1>6. /\ DOMAIN setupMap' = 1 .. MapSize /\ setupMap'[j] = <<p0, Before(p0)>>
      /\ \A i \in 1 .. MapSize : i # j => setupMap'[i] = setupMap[i]
  BY <1>4, <1>5
<1>7. <<p0, Before(p0)>> # None /\ <<p0, Before(p0)>>[1] = p0
  BY DEF None
<1>8. MapOK("bell", times)'
  <2>1. ASSUME NEW i \in 1 .. MapSize
        PROVE  /\ i > Total - times => setupMap'[i] = None
               /\ setupMap'[i] = None \/ \E p \in StagePlaces : setupMap'[i] = <<p, Before(p)>>
    <3>1. CASE i = j
      BY <1>2, <1>3, <1>5, <1>6, <3>1
    <3>2. CASE i # j
      BY <1>2, <1>4, <1>6, <3>2
    <3> QED BY <3>1, <3>2
  <2>2. Puts("bell", times) <= Total
    BY ONLY <1>1, <1>2, <1>4, times \in Nat
  <2> QED BY <1>1, <1>2, <1>6, <2>1, <2>2 DEF MapOK
<1>9. TicketsOK(q, "bell", times)'
  <2> SUFFICES ASSUME NEW p \in StagePlaces, Open(control, q, p)
               PROVE  TicketOK(p, "bell", times)'
    BY DEF TicketsOK
  <2>1. TicketOK(p, "put", times)
    BY <1>0 DEF TicketsOK
  <2>2. Holding(setupMap', p) # {}
    <3>1. CASE Holding(setupMap, p) # {}
      <4>1. PICK i \in 1 .. MapSize : setupMap[i] # None /\ setupMap[i][1] = p
        BY <1>4, <3>1 DEF Holding
      <4>2. i # j
        BY <1>5, <4>1
      <4> QED BY <1>6, <4>1, <4>2 DEF Holding
    <3>2. CASE p = p0
      BY <1>6, <1>7, <3>2 DEF Holding
    <3> QED BY <2>1, <3>1, <3>2 DEF TicketOK, p0
  <2> QED BY <1>1, <2>1, <2>2 DEF TicketOK
<1>10. PushedOK("bell")' /\ StagesOK' /\ AnswersOK(q)' /\ RoomOK("bell", times)' /\ PhaseOK'
  <2>1. PushedOK("bell")'
    BY <1>0 DEF PushedOK
  <2>2. StagesOK' /\ AnswersOK(q)'
    BY <1>0 DEF StagesOK, AnswersOK
  <2>3. RoomOK("bell", times)'
    BY <1>0, <1>1 DEF RoomOK
  <2>4. PhaseOK'
    BY <1>0 DEF PhaseOK, ElseKept
  <2> QED BY <2>1, <2>2, <2>3, <2>4
<1>11. WhileInitializing(q, "bell", times)' /\ WhileConfiguring(q, "bell", times)'
  <2>1. WhileInitializing(q, "bell", times)'
    BY <1>0, <1>1 DEF WhileInitializing, ElseKept
  <2>2. WhileConfiguring(q, "bell", times)'
    BY <1>0 DEF WhileConfiguring, ElseKept
  <2> QED BY <2>1, <2>2
<1> QED BY <1>8, <1>9, <1>10, <1>11 DEF ControlInv

\* CompleteConfiguration goes on with the next control transfer.
LEMMA ConfigureMove ==
  ASSUME NEW q, NEW times \in Nat, times # 0, PlacesOK(control), ControlInv(q, "end", times),
         control' = control, pushed' = pushed, setupMap' = setupMap, ElseKept, xhc' = xhc
  PROVE  portPhase = "Configured" /\ ControlInv(q, "setupOut", times - 1)'
<1>0. /\ PushedOK("end") /\ StagesOK /\ TicketsOK(q, "end", times) /\ AnswersOK(q)
      /\ MapOK("end", times)
      /\ WhileInitializing(q, "end", times) /\ WhileConfiguring(q, "end", times) /\ PhaseOK
      /\ RoomOK("end", times)
  BY DEF ControlInv
<1>1. /\ Pushes(control, "setupOut", times - 1) = Pushes(control, "end", times)
      /\ Puts("setupOut", times - 1) = Puts("end", times)
  BY DEF Pushes, StagesLeft, Puts, Busy
<1>2. portPhase = "Configured" /\ portPhase' = "Configured"
  BY <1>0 DEF PhaseOK, WhileInitializing, WhileConfiguring, ElseKept
<1>3. PushedOK("setupOut")' /\ StagesOK' /\ AnswersOK(q)' /\ PhaseOK'
  <2>1. PushedOK("setupOut")'
    BY <1>0 DEF PushedOK
  <2>2. StagesOK' /\ AnswersOK(q)'
    BY <1>0 DEF StagesOK, AnswersOK
  <2>3. PhaseOK'
    BY <1>0 DEF PhaseOK, ElseKept
  <2> QED BY <2>1, <2>2, <2>3
<1>4. TicketsOK(q, "setupOut", times - 1)' /\ RoomOK("setupOut", times - 1)'
  BY <1>0, <1>1 DEF TicketsOK, TicketOK, RoomOK
<1>5. MapOK("setupOut", times - 1)'
  <2>1. Total' = Total
    BY DEF Total, ElseKept
  <2> QED BY <1>0, <1>1, <2>1 DEF MapOK
<1>6. WhileInitializing(q, "setupOut", times - 1)' /\ WhileConfiguring(q, "setupOut", times - 1)'
  BY <1>2 DEF WhileInitializing, WhileConfiguring
<1> QED BY <1>2, <1>3, <1>4, <1>5, <1>6 DEF ControlInv

\* An event is handled.
LEMMA EventHandled ==
  ASSUME NEW q \in Seq(AllEvents), q # << >>
  PROVE  /\ Tail(q) \in Seq(AllEvents) /\ Head(q) \in AllEvents
         /\ Adds(q, Tail(q), Head(q)) /\ Fewer(Tail(q), q)
<1>1. /\ Tail(q) \in Seq(AllEvents) /\ Head(q) \in AllEvents /\ Adds(q, Tail(q), Head(q))
  BY TailAdds
<1>2. \A p \in StagePlaces : AnswersIn(Tail(q), p) \in Nat
  BY <1>1, CountType DEF AnswersIn
<1> QED BY <1>1, <1>2 DEF Adds, Fewer, AnswersIn

\* A completion that is handled is that of the transfer the map leads to.
LEMMA AnswerHandled ==
  ASSUME NEW q \in Seq(AllEvents), q # << >>, NEW times \in Nat,
         NEW p \in StagePlaces, Head(q) \in Answers(p),
         PlacesOK(control), ControlInv(q, "end", times)
  PROVE  LET q1 == Tail(q)
         IN  /\ Fewer(q1, q) /\ Open(control, q, p) /\ TicketOK(p, "end", times)
             /\ AnswersIn(q1, p) = 0 /\ ~OnItsWay(control, p)
             /\ Ahead(control, p) + Count(control) < LinkPlace
             /\ \A p2 \in StagePlaces : Open(control, q1, p2) => Open(control, q, p2) /\ p2 # p
             /\ Holding(setupMap, p) # {} /\ Get(setupMap, p) = Before(p)
             /\ Head(q).request = control.high[Before(p)].request
             /\ DOMAIN Delete(setupMap, p) = DOMAIN setupMap
             /\ \A i \in 1 .. MapSize : Delete(setupMap, p)[i] \in {setupMap[i], None}
             /\ \A p2 \in StagePlaces : p2 # p /\ Holding(setupMap, p2) # {}
                                          => Holding(Delete(setupMap, p), p2) # {}
             /\ \A i \in 1 .. MapSize : (\A j \in 1 .. MapSize : j # i => setupMap[j] = None)
                  => \A j \in 1 .. MapSize : Delete(setupMap, p)[j] = None
<1> DEFINE q1 == Tail(q)
           m == Delete(setupMap, p)
<1>0. /\ PushedOK("end") /\ StagesOK /\ TicketsOK(q, "end", times) /\ AnswersOK(q)
      /\ MapOK("end", times)
      /\ WhileInitializing(q, "end", times) /\ WhileConfiguring(q, "end", times) /\ PhaseOK
      /\ RoomOK("end", times)
  BY DEF ControlInv
<1>1. /\ q1 \in Seq(AllEvents) /\ Head(q) \in AllEvents /\ Adds(q, q1, Head(q)) /\ Fewer(q1, q)
  BY EventHandled
<1>2. AnswersIn(q, p) = 1 /\ AnswersIn(q1, p) = 0 /\ Ahead(control, p) + Count(control) < LinkPlace
  <2>1. AnswersIn(q, p) = AnswersIn(q1, p) + 1
    BY <1>1 DEF Adds, AnswersIn
  <2> QED BY <1>0, <1>1, <2>1 DEF AnswersOK, Fewer
<1>3. ~OnItsWay(control, p)
  BY <1>2, TransferPlaces DEF PlacesOK
<1>4. Open(control, q, p) /\ TicketOK(p, "end", times)
  BY <1>0, <1>2 DEF Open, TicketsOK
<1>5. \A p2 \in StagePlaces : Open(control, q1, p2) => Open(control, q, p2) /\ p2 # p
  BY <1>1, <1>2, <1>3 DEF Open, Fewer
<1>6. Head(q).request = control.high[Before(p)].request
  <2>1. Head(q) \in ToSet(q)
    BY HeadInSet
  <2> QED BY <1>0, <2>1 DEF AnswersOK
<1>7. /\ DOMAIN setupMap = 1 .. MapSize /\ MapSize \in Nat
      /\ \A i \in 1 .. MapSize : setupMap[i] = None \/ \E p2 \in StagePlaces : setupMap[i] = <<p2, Before(p2)>>
  BY <1>0, TransferAssumption DEF MapOK
<1>8. Holding(setupMap, p) # {}
  BY <1>4 DEF TicketOK
<1>9. PICK i \in 1 .. MapSize :
        /\ setupMap[i] # None /\ setupMap[i][1] = p /\ Get(setupMap, p) = setupMap[i][2]
        /\ m = [setupMap EXCEPT ![i] = None]
  BY ONLY <1>7, <1>8, HeldIs DEF m
<1> HIDE DEF m
<1>10. Get(setupMap, p) = Before(p)
  BY <1>7, <1>9
<1>11. /\ DOMAIN m = DOMAIN setupMap /\ m[i] = None
       /\ \A j \in 1 .. MapSize : j # i => m[j] = setupMap[j]
  BY <1>7, <1>9
<1>12. ASSUME NEW p2 \in StagePlaces, p2 # p, Holding(setupMap, p2) # {}
       PROVE  Holding(m, p2) # {}
  <2>1. PICK j \in 1 .. MapSize : setupMap[j] # None /\ setupMap[j][1] = p2
    BY <1>7, <1>12 DEF Holding
  <2>2. j # i /\ m[j] = setupMap[j]
    BY <1>9, <1>11, <1>12, <2>1
  <2> QED BY <1>7, <1>11, <2>1, <2>2 DEF Holding
<1>13. ASSUME NEW k \in 1 .. MapSize, \A j \in 1 .. MapSize : j # k => setupMap[j] = None
       PROVE  \A j \in 1 .. MapSize : m[j] = None
  BY <1>9, <1>11, <1>13
<1> QED
  BY <1>1, <1>2, <1>3, <1>4, <1>5, <1>6, <1>8, <1>10, <1>11, <1>12, <1>13 DEF m

\* The control transfers go on between two of them.
LEMMA CompletionMove ==
  ASSUME NEW q \in Seq(AllEvents), q # << >>, NEW times \in Nat, NEW pc1 \in Quiet,
         NEW p \in StagePlaces, Head(q) \in Answers(p),
         PlacesOK(control), ControlInv(q, "end", times),
         portPhase # "Configured" => pc1 = "end",
         setupMap' = Delete(setupMap, p),
         control' = control, pushed' = pushed, ElseKept, xhc' = xhc
  PROVE  ControlInv(Tail(q), pc1, times)'
<1> DEFINE q1 == Tail(q)
           m == Delete(setupMap, p)
<1>1. /\ Fewer(q1, q)
      /\ \A p2 \in StagePlaces : Open(control, q1, p2) => p2 # p
      /\ DOMAIN m = DOMAIN setupMap
      /\ \A i \in 1 .. MapSize : m[i] \in {setupMap[i], None}
      /\ \A p2 \in StagePlaces : p2 # p /\ Holding(setupMap, p2) # {} => Holding(m, p2) # {}
  BY ONLY AnswerHandled, q \in Seq(AllEvents), q # << >>, times \in Nat, p \in StagePlaces,
          Head(q) \in Answers(p), PlacesOK(control), ControlInv(q, "end", times)
<1> HIDE DEF q1, m
<1>2. \A p2 \in StagePlaces : Open(control', q1, p2) /\ Holding(setupMap, p2) # {}
                                => Holding(setupMap', p2) # {}
  BY <1>1 DEF m
<1>3. Stays(control, control') /\ "end" \in Quiet
  BY DEF Stays, Quiet
<1>4. /\ DOMAIN setupMap' = DOMAIN setupMap
      /\ \A i \in 1 .. MapSize : setupMap'[i] \in {setupMap[i], None}
  BY <1>1 DEF m
<1>5. ControlInv(q1, pc1, times)'
  BY <1>1, <1>2, <1>3, <1>4, StaysMove
<1> QED BY <1>5 DEF q1

\* While a device is initialized there is one transfer.  When it is complete none is on
\* its way, and of its own TRBs at most the status stage after the data.
LEMMA LastOfInitialization ==
  ASSUME NEW q \in Seq(AllEvents), q # << >>, NEW times \in Nat,
         NEW p \in StagePlaces, Head(q) \in Answers(p), ~Copying(control),
         PlacesOK(control), ControlInv(q, "end", times), portPhase = "InitializingDevice"
  PROVE  /\ times = 0 /\ hid.init = 0 /\ dev.init \in 1 .. 3
         /\ \A p2 \in StagePlaces : ~Open(control, Tail(q), p2)
         /\ Count(control) <= 1
         /\ control.high[Before(p)] \in SetupsOut => Count(control) = 0
         /\ \A i \in 1 .. MapSize : Delete(setupMap, p)[i] = None
         /\ Fewer(Tail(q), q) /\ DOMAIN Delete(setupMap, p) = 1 .. MapSize
<1> DEFINE q1 == Tail(q)
           m == Delete(setupMap, p)
<1>0. /\ TicketsOK(q, "end", times) /\ MapOK("end", times) /\ WhileInitializing(q, "end", times)
  BY DEF ControlInv
<1>1. /\ Fewer(q1, q) /\ Open(control, q, p) /\ TicketOK(p, "end", times)
      /\ Ahead(control, p) + Count(control) < LinkPlace
      /\ \A p2 \in StagePlaces : Open(control, q1, p2) => Open(control, q, p2) /\ p2 # p
      /\ DOMAIN m = DOMAIN setupMap
      /\ \A i \in 1 .. MapSize : (\A j \in 1 .. MapSize : j # i => setupMap[j] = None)
           => \A j \in 1 .. MapSize : m[j] = None
  BY ONLY AnswerHandled, q \in Seq(AllEvents), q # << >>, times \in Nat, p \in StagePlaces,
          Head(q) \in Answers(p), PlacesOK(control), ControlInv(q, "end", times)
<1> HIDE DEF q1, m
<1>2. /\ times = 0 /\ hid.init = 0 /\ dev.init \in 1 .. 3
      /\ \A p1, p2 \in StagePlaces : Open(control, q, p1) /\ Open(control, q, p2) => p1 = p2
      /\ LinkPlace - Ahead(control, p) + Pushes(control, "end", times)
           <= IF control.high[p] = DataStage THEN 2 ELSE 1
  BY <1>0, <1>1 DEF WhileInitializing
<1>3. \A p2 \in StagePlaces : ~Open(control, q1, p2)
  BY <1>1, <1>2
<1>4. Pushes(control, "end", times) = 0
  BY <1>2 DEF Pushes, StagesLeft
<1>5. /\ Ahead(control, p) \in 0 .. LinkPlace - 1 /\ Count(control) \in Nat /\ LinkPlace \in Nat
  BY TransferPlaces DEF PlacesOK
<1>6. Count(control) <= 1 /\ (control.high[p] # DataStage => Count(control) = 0)
  BY ONLY <1>1, <1>2, <1>4, <1>5
<1>7. control.high[Before(p)] \in SetupsOut => control.high[p] # DataStage
  BY <1>1, FollowKinds, StageKinds DEF TicketOK
<1>8. /\ DOMAIN setupMap = 1 .. MapSize /\ MapSize \in Nat /\ MapSize >= 1
      /\ \A j \in 1 .. MapSize : j # 1 => setupMap[j] = None
  <2>1. Total - Puts("end", times) = 1
    BY <1>2 DEF Total, Puts, Busy
  <2> QED BY <1>0, <2>1, TransferSizes, TransferAssumption DEF MapOK
<1>9. \A j \in 1 .. MapSize : m[j] = None
  <2>1. 1 \in 1 .. MapSize
    BY <1>8
  <2> QED BY ONLY <1>1, <1>8, <2>1
<1> QED BY <1>1, <1>2, <1>3, <1>6, <1>7, <1>8, <1>9 DEF q1, m

\* The next request of StartInitialize.
LEMMA NextRequestMove ==
  ASSUME NEW q \in Seq(AllEvents), q # << >>, NEW times \in Nat, NEW pc1 \in {"setupIn", "setupOut"},
         NEW p \in StagePlaces, Head(q) \in Answers(p), ~Copying(control),
         PlacesOK(control), ControlInv(q, "end", times), portPhase = "InitializingDevice",
         dev'.init \in 1 .. 3, dev'.config = dev.config,
         dev'.init = 3 => dev'.eps = EpConfigs(dev.config),
         setupMap' = Delete(setupMap, p),
         control' = control, pushed' = pushed, hid' = hid, portPhase' = portPhase, xhc' = xhc
  PROVE  ControlInv(Tail(q), pc1, 0)'
<1> DEFINE q1 == Tail(q)
           m == Delete(setupMap, p)
<1>0. /\ PushedOK("end") /\ StagesOK /\ TicketsOK(q, "end", times) /\ AnswersOK(q)
      /\ MapOK("end", times)
      /\ WhileInitializing(q, "end", times) /\ WhileConfiguring(q, "end", times) /\ PhaseOK
      /\ RoomOK("end", times)
  BY DEF ControlInv
<1>1. /\ hid.init = 0 /\ dev.init \in 1 .. 3
      /\ \A p2 \in StagePlaces : ~Open(control, q1, p2)
      /\ Count(control) <= 1
      /\ \A i \in 1 .. MapSize : m[i] = None
      /\ Fewer(q1, q) /\ DOMAIN m = 1 .. MapSize
  BY ONLY LastOfInitialization, q \in Seq(AllEvents), q # << >>, times \in Nat, p \in StagePlaces,
          Head(q) \in Answers(p), PlacesOK(control), ControlInv(q, "end", times),
          ~Copying(control), portPhase = "InitializingDevice"
<1>m. setupMap' = m
  OBVIOUS
<1> HIDE DEF q1, m
<1>2. Pushes(control, pc1, 0) <= 3 /\ Pushes(control, pc1, 0) \in Nat /\ Puts(pc1, 0) = 1
  BY DEF Pushes, StagesLeft, Puts, Busy
<1>3. Count(control) \in Nat /\ Capacity \in Nat /\ Capacity >= 4
  BY TransferPlaces DEF PlacesOK
<1>4. PushedOK(pc1)'
  BY <1>0 DEF PushedOK
<1>5. StagesOK'
  BY <1>0 DEF StagesOK
<1>6. TicketsOK(q1, pc1, 0)'
  BY <1>1 DEF TicketsOK
<1>7. AnswersOK(q1)'
  <2>1. \A p2 \in StagePlaces : AnswersIn(q1, p2) = 0
    BY <1>1 DEF Open
  <2>2. \A p2 \in StagePlaces : \A e \in Answers(p2) \cap ToSet(q1) :
          e.request = control.high[Before(p2)].request
    BY <1>0, <1>1 DEF AnswersOK, Fewer
  <2> QED BY <2>1, <2>2 DEF AnswersOK
<1>8. MapOK(pc1, 0)'
  <2>1. Total' = 1
    BY DEF Total
  <2> QED BY <1>1, <1>2, <1>m, <2>1 DEF MapOK
<1>9. WhileInitializing(q1, pc1, 0)' /\ WhileConfiguring(q1, pc1, 0)'
  BY <1>1 DEF WhileInitializing, WhileConfiguring
<1>10. PhaseOK'
  BY <1>0 DEF PhaseOK
<1>11. RoomOK(pc1, 0)'
  BY <1>1, <1>2, <1>3 DEF RoomOK
<1> QED BY <1>4, <1>5, <1>6, <1>7, <1>8, <1>9, <1>10, <1>11 DEF ControlInv, q1

\* The device is initialized: its endpoints are configured.
LEMMA InitializedMove ==
  ASSUME NEW q \in Seq(AllEvents), q # << >>, NEW times \in Nat,
         NEW p \in StagePlaces, Head(q) \in Answers(p), ~Copying(control),
         PlacesOK(control), ControlInv(q, "end", times), portPhase = "InitializingDevice",
         control.high[Before(p)].request = "SetConfig",
         dev.init = 3, dev'.init = 4, dev'.config = dev.config, dev'.eps = dev.eps,
         setupMap' = Delete(setupMap, p), portPhase' = "ConfiguringEndpoints",
         control' = control, pushed' = pushed, hid' = hid, xhc' = xhc
  PROVE  ControlInv(Tail(q), "command", 0)'
<1> DEFINE q1 == Tail(q)
           m == Delete(setupMap, p)
<1>0. /\ PushedOK("end") /\ StagesOK /\ TicketsOK(q, "end", times) /\ AnswersOK(q)
      /\ MapOK("end", times)
      /\ WhileInitializing(q, "end", times) /\ WhileConfiguring(q, "end", times) /\ PhaseOK
      /\ RoomOK("end", times)
  BY DEF ControlInv
<1>a. TicketOK(p, "end", times)
  BY ONLY AnswerHandled, q \in Seq(AllEvents), q # << >>, times \in Nat, p \in StagePlaces,
          Head(q) \in Answers(p), PlacesOK(control), ControlInv(q, "end", times)
<1>b. control.high[Before(p)] \in SetupsOut
  <2>1. "SetConfig" \notin DataRequests
    BY DEF DataRequests
  <2> QED BY <1>a, <2>1, StageKinds DEF TicketOK, Setups
<1>1. /\ hid.init = 0
      /\ \A p2 \in StagePlaces : ~Open(control, q1, p2)
      /\ Count(control) = 0
      /\ \A i \in 1 .. MapSize : m[i] = None
      /\ Fewer(q1, q) /\ DOMAIN m = 1 .. MapSize
  BY ONLY <1>b, LastOfInitialization, q \in Seq(AllEvents), q # << >>, times \in Nat, p \in StagePlaces,
          Head(q) \in Answers(p), PlacesOK(control), ControlInv(q, "end", times),
          ~Copying(control), portPhase = "InitializingDevice"
<1>m. setupMap' = m
  OBVIOUS
<1> HIDE DEF q1, m
<1>2. Pushes(control, "command", 0) = 0 /\ Puts("command", 0) = 0
  BY DEF Pushes, StagesLeft, Puts, Busy
<1>3. Capacity \in Nat
  BY TransferPlaces
<1>4. PushedOK("command")'
  BY <1>0 DEF PushedOK
<1>5. StagesOK'
  BY <1>0 DEF StagesOK
<1>6. TicketsOK(q1, "command", 0)'
  BY <1>1 DEF TicketsOK
<1>7. AnswersOK(q1)' /\ \A p2 \in StagePlaces : AnswersIn(q1, p2) = 0
  <2>1. \A p2 \in StagePlaces : AnswersIn(q1, p2) = 0
    BY <1>1 DEF Open
  <2>2. \A p2 \in StagePlaces : \A e \in Answers(p2) \cap ToSet(q1) :
          e.request = control.high[Before(p2)].request
    BY <1>0, <1>1 DEF AnswersOK, Fewer
  <2> QED BY <2>1, <2>2 DEF AnswersOK
<1>8. MapOK("command", 0)'
  <2>1. Total' = 1
    BY DEF Total
  <2> QED BY <1>1, <1>2, <1>m, <2>1 DEF MapOK
<1>9. WhileInitializing(q1, "command", 0)' /\ WhileConfiguring(q1, "command", 0)'
  BY <1>1, <1>7, <1>m DEF WhileInitializing, WhileConfiguring
<1>10. PhaseOK'
  BY <1>0 DEF PhaseOK
<1>11. RoomOK("command", 0)'
  BY <1>1, <1>2, <1>3 DEF RoomOK
<1> QED BY <1>4, <1>5, <1>6, <1>7, <1>8, <1>9, <1>10, <1>11 DEF ControlInv, q1

\* The endpoints are configured: the class drivers follow.
LEMMA ConfiguredMove ==
  ASSUME NEW q \in Seq(AllEvents), q # << >>, NEW times \in Nat, NEW n,
         n = Cardinality(Numbers(dev.eps)), ~Copying(control),
         PlacesOK(control), ControlInv(q, "end", times), portPhase = "ConfiguringEndpoints",
         portPhase' = "Configured", control' = control, pushed' = pushed, setupMap' = setupMap,
         dev' = dev, hid' = hid, xhc' = xhc
  PROVE  n \in Nat /\ hid.init = 0 /\ ControlInv(Tail(q), "end", n)'
<1> DEFINE q1 == Tail(q)
<1>0. /\ PushedOK("end") /\ StagesOK /\ TicketsOK(q, "end", times) /\ AnswersOK(q)
      /\ MapOK("end", times)
      /\ WhileInitializing(q, "end", times) /\ WhileConfiguring(q, "end", times) /\ PhaseOK
      /\ RoomOK("end", times)
  BY DEF ControlInv
<1>1. /\ dev.init = 4 /\ times = 0 /\ hid.init = 0 /\ Count(control) = 0
      /\ \A p \in StagePlaces : AnswersIn(q, p) = 0
      /\ \A i \in 1 .. MapSize : setupMap[i] = None
  BY <1>0 DEF WhileConfiguring
<1>2. Fewer(q1, q)
  BY EventHandled
<1>3. n \in Nat /\ n <= MapSize /\ 2 * n <= Capacity
  BY <1>0, <1>1, TotalFits
<1> HIDE DEF q1
<1>4. Pushes(control, "end", n) = 2 * n /\ Puts("end", n) = n
  BY <1>3 DEF Pushes, StagesLeft, Puts, Busy
<1>5. Capacity \in Nat /\ LinkPlace \in Nat
  BY TransferPlaces
<1>6. \A p \in StagePlaces : AnswersIn(q1, p) = 0
  BY <1>1, <1>2 DEF Fewer
<1>7. \A p \in StagePlaces : ~Open(control, q1, p)
  <2>1. \A p \in StagePlaces : ~OnItsWay(control, p)
    BY <1>1, <1>5 DEF PlacesOK
  <2> QED BY <1>6, <2>1 DEF Open
<1>8. PushedOK("end")'
  BY <1>0 DEF PushedOK
<1>9. StagesOK'
  BY <1>0 DEF StagesOK
<1>10. TicketsOK(q1, "end", n)'
  BY <1>7 DEF TicketsOK
<1>11. AnswersOK(q1)'
  <2>2. \A p2 \in StagePlaces : \A e \in Answers(p2) \cap ToSet(q1) :
          e.request = control.high[Before(p2)].request
    BY <1>0, <1>2 DEF AnswersOK, Fewer
  <2> QED BY <1>6, <2>2 DEF AnswersOK
<1>12. MapOK("end", n)'
  <2>1. Total' = n
    BY DEF Total
  <2> QED BY <1>0, <1>1, <1>3, <1>4, <2>1 DEF MapOK
<1>13. WhileInitializing(q1, "end", n)' /\ WhileConfiguring(q1, "end", n)'
  BY DEF WhileInitializing, WhileConfiguring
<1>14. PhaseOK'
  BY <1>0, <1>1 DEF PhaseOK
<1>15. RoomOK("end", n)'
  BY <1>1, <1>3, <1>4 DEF RoomOK
<1> QED
  BY <1>1, <1>3, <1>8, <1>9, <1>10, <1>11, <1>12, <1>13, <1>14, <1>15 DEF ControlInv, q1

\* The events that reports are.
SameReports(q1, q) == /\ ReportsIn(q1) = ReportsIn(q)
                      /\ InterruptReports \cap ToSet(q1) \subseteq ToSet(q)

\* No report is waiting exactly if none is in the queue.
LEMMA ReportsAre ==
  ASSUME NEW q \in Seq(AllEvents)
  PROVE  ReportsIn(q) \in Nat /\ (ReportsIn(q) = 0 <=> InterruptReports \cap ToSet(q) = {})
BY CountType DEF ReportsIn

\* An event more is a report more, if it is a report.
LEMMA AddedReports ==
  ASSUME NEW q, NEW r, NEW e, Adds(q, r, e)
  PROVE  /\ e \notin InterruptReports => SameReports(q, r) /\ SameReports(r, q)
         /\ e \in InterruptReports => ReportsIn(q) = ReportsIn(r) + 1
         /\ ToSet(r) \subseteq ToSet(q) /\ ToSet(q) \subseteq ToSet(r) \cup {e}
BY DEF Adds, SameReports, ReportsIn

----------------------------------------------------------------------------
(* The interrupt endpoint: one report at a time.                           *)

\* A step that leaves the interrupt ring alone and adds no report.
LEMMA ReportStays ==
  ASSUME NEW q, NEW q1, SameReports(q1, q), NEW pc, NEW pc1, PlacesOK(interrupt),
         ReportInv(q, pc), Stays(interrupt, interrupt'), hid'.init \in {hid.init, 1},
         hid'.init = 1 => hid.init < 2,
         pc1 = "report" => pc = "report",
         q \in Seq(AllEvents)
  PROVE  ReportInv(q1, pc1)'
<1>1. /\ Count(interrupt') = Count(interrupt) /\ (Copying(interrupt') <=> Copying(interrupt))
      /\ \A p \in StagePlaces : interrupt'.high[p] = interrupt.high[p]
      /\ Count(interrupt) \in Nat
  BY DEF Stays, PlacesOK
<1>2. \A e \in InterruptReports : e.at \in StagePlaces
  BY EventKinds
<1>3. ReportsIn(q) \in Nat
  BY ReportsAre
<1>4. \A e \in InterruptReports \cap ToSet(q1) : interrupt'.high[e.at] = Normal
  BY <1>1, <1>2 DEF ReportInv, SameReports
<1>5. hid'.init < 2 => hid.init < 2
  OBVIOUS
<1> QED BY <1>1, <1>3, <1>4, <1>5 DEF ReportInv, SameReports

\* The driver asks for a report: the first, or the next.
LEMMA ReportAsked ==
  ASSUME NEW q \in Seq(AllEvents), q # << >>, PlacesOK(interrupt), ReportInv(q, "end"),
         interrupt' = interrupt, hid'.init = 2,
         hid.init = 1 \/ Head(q) \in InterruptReports
  PROVE  ReportInv(Tail(q), "report")'
<1>1. Count(interrupt) \in Nat
  BY DEF PlacesOK
<1>2. /\ Tail(q) \in Seq(AllEvents) /\ Adds(q, Tail(q), Head(q))
      /\ ReportsIn(q) \in Nat /\ ReportsIn(Tail(q)) \in Nat
  BY EventHandled, ReportsAre
<1>3. /\ ReportsIn(Tail(q)) <= ReportsIn(q) /\ ToSet(Tail(q)) \subseteq ToSet(q)
      /\ Head(q) \in InterruptReports => ReportsIn(q) = ReportsIn(Tail(q)) + 1
  BY <1>2, AddedReports DEF SameReports
<1>4. Count(interrupt) = 0 /\ ~Copying(interrupt) /\ ReportsIn(Tail(q)) = 0
  BY <1>1, <1>2, <1>3 DEF ReportInv
<1> QED BY <1>3, <1>4 DEF ReportInv

\* The driver begins to push the TRB that asks for a report.
LEMMA ReportBegins ==
  ASSUME NEW q \in Seq(AllEvents), PlacesOK(interrupt), ReportInv(q, "report"),
         BeginsIn(interrupt, interrupt', Normal), hid'.init = hid.init
  PROVE  ReportInv(q, "reportBell")'
<1>1. /\ Count(interrupt') = Count(interrupt) /\ Copying(interrupt') /\ ~Copying(interrupt)
      /\ \A p \in StagePlaces : interrupt'.high[p] = interrupt.high[p]
  BY DEF BeginsIn, PlacesOK
<1>2. \A e \in InterruptReports : e.at \in StagePlaces
  BY EventKinds
<1> QED BY <1>1, <1>2 DEF ReportInv

\* It goes on pushing it.
LEMMA ReportCopies ==
  ASSUME NEW q \in Seq(AllEvents), NEW pc, pc # "report", PlacesOK(interrupt), ReportInv(q, pc),
         Copies(interrupt, interrupt'), hid'.init = hid.init
  PROVE  ReportInv(q, pc)'
<1>1. /\ Count(interrupt') = Count(interrupt) + 1 /\ ~Copying(interrupt') /\ Copying(interrupt)
      /\ Count(interrupt) \in Nat
  BY DEF Copies, PlacesOK
<1>2. ReportsIn(q) \in Nat /\ (ReportsIn(q) = 0 => InterruptReports \cap ToSet(q) = {})
  BY ReportsAre
<1>3. Count(interrupt) = 0 /\ ReportsIn(q) = 0
  BY <1>1, <1>2 DEF ReportInv
<1> QED BY <1>1, <1>2, <1>3 DEF ReportInv

\* The keyboard reports, or the transfer fails.
LEMMA ReportTaken ==
  ASSUME NEW q \in Seq(AllEvents), NEW q1 \in Seq(AllEvents), NEW e \in AllEvents,
         NEW pc, NEW d, PlacesOK(interrupt), ReportInv(q, pc), Takes(interrupt, interrupt', d),
         hid'.init = hid.init, Adds(q1, q, e),
         e \in InterruptReports => e.at = d /\ interrupt.high[d] = Normal
  PROVE  ReportsIn(q) = 0 /\ ReportInv(q1, pc)'
<1>1. /\ Count(interrupt') = Count(interrupt) - 1 /\ (Copying(interrupt') <=> Copying(interrupt))
      /\ Count(interrupt) \in Nat /\ Count(interrupt) >= 1
      /\ \A p \in StagePlaces : interrupt'.high[p] = interrupt.high[p]
      /\ d \in StagePlaces
  BY TransferPlaces DEF Takes, PlacesOK
<1>2. ReportsIn(q) \in Nat /\ (ReportsIn(q) = 0 => InterruptReports \cap ToSet(q) = {})
  BY ReportsAre
<1>3. ReportsIn(q) = 0 /\ Count(interrupt) = 1 /\ pc # "report" /\ ~Copying(interrupt)
  BY <1>1, <1>2 DEF ReportInv
<1>4. /\ ReportsIn(q1) <= 1 /\ ReportsIn(q1) \in Nat
      /\ ToSet(q1) \subseteq ToSet(q) \cup {e}
  BY <1>3, AddedReports, ReportsAre DEF SameReports
<1>5. ~(hid.init < 2)
  BY <1>1 DEF ReportInv
<1>6. \A x \in InterruptReports \cap ToSet(q1) : interrupt'.high[x.at] = Normal
  BY <1>1, <1>2, <1>3, <1>4
<1> QED BY <1>1, <1>3, <1>4, <1>5, <1>6 DEF ReportInv

----------------------------------------------------------------------------
(* The keys.                                                               *)

\* A step that neither types nor tells.
LEMMA KeysStay ==
  ASSUME NEW q, NEW q1, SameReports(q1, q), KeysInv(q),
         keyboard' = keyboard, hid'.buf = hid.buf, hid'.previous = hid.previous
  PROVE  KeysInv(q1)'
<1>1. KeysOK'
  BY DEF KeysInv, KeysOK
<1> QED BY <1>1 DEF KeysInv, SameReports

\* A report is handled.
LEMMA KeysTold ==
  ASSUME NEW q, NEW q1, KeysInv(q),
         keyboard' = [keyboard EXCEPT !.told =
                    [k \in Keys |-> IF k \in hid.buf \ hid.previous THEN @[k] + 1 ELSE @[k]]],
         hid'.buf = hid.buf, hid'.previous = hid.buf,
         keyboard = [down |-> keyboard.down, changed |-> keyboard.changed,
                     rolled |-> keyboard.rolled, changes |-> keyboard.changes,
                     pressed |-> keyboard.pressed, told |-> keyboard.told]
  PROVE  KeysInv(q1)'
<1>1. /\ keyboard'.pressed = keyboard.pressed /\ keyboard'.down = keyboard.down
      /\ keyboard'.changed = keyboard.changed /\ keyboard'.rolled = keyboard.rolled
      /\ keyboard'.told = [k \in Keys |-> IF k \in hid.buf \ hid.previous
                                          THEN keyboard.told[k] + 1 ELSE keyboard.told[k]]
  OBVIOUS
<1>2. KeysOK
  BY DEF KeysInv
<1>3. KeysOK'
  BY <1>1, <1>2 DEF KeysOK
<1>4. ASSUME ~keyboard.rolled, NEW k \in Keys
      PROVE  keyboard'.pressed[k] - keyboard'.told[k] =
               IF k \in hid.buf \ hid.buf \/ k \in keyboard.down \ hid.buf THEN 1 ELSE 0
  <2>1. keyboard.pressed[k] - keyboard.told[k] =
          IF k \in hid.buf \ hid.previous \/ k \in keyboard.down \ hid.buf THEN 1 ELSE 0
    BY <1>4 DEF KeysInv
  <2>2. keyboard.pressed[k] \in Nat /\ keyboard.told[k] \in Nat
    BY <1>2 DEF KeysOK
  <2>3. keyboard'.told[k] = IF k \in hid.buf \ hid.previous
                            THEN keyboard.told[k] + 1 ELSE keyboard.told[k]
    BY <1>1
  <2> QED BY <1>1, <2>1, <2>2, <2>3
<1> QED BY <1>1, <1>3, <1>4 DEF KeysInv

\* The keyboard reports.
LEMMA KeysReported ==
  ASSUME NEW q \in Seq(AllEvents), NEW q1 \in Seq(AllEvents), KeysInv(q),
         ReportsIn(q) = 0, ReportsIn(q1) # 0, NEW tooMany \in BOOLEAN,
         hid'.buf = IF tooMany THEN {RollOver} ELSE keyboard.down, hid'.previous = hid.previous,
         keyboard'.down = keyboard.down, keyboard'.pressed = keyboard.pressed,
         keyboard'.told = keyboard.told, keyboard'.changed = FALSE,
         keyboard'.rolled = (keyboard.rolled \/ tooMany)
  PROVE  KeysInv(q1)'
<1>1. KeysOK
  BY DEF KeysInv
<1>2. KeysOK'
  BY <1>1 DEF KeysOK
<1>3. CASE tooMany
  BY <1>2, <1>3 DEF KeysInv
<1>4. CASE ~tooMany
  <2>1. keyboard'.rolled <=> keyboard.rolled
    BY <1>4
  <2>2. ~keyboard.rolled => hid.previous = hid.buf
    BY DEF KeysInv
  <2> QED BY <1>1, <1>2, <1>4, <2>1, <2>2 DEF KeysInv
<1> QED BY <1>3, <1>4

\* A key goes down or up.
LEMMA KeyTyped ==
  ASSUME NEW q, KeysInv(q), NEW k \in Keys, ~keyboard.changed, hid' = hid,
         keyboard'.changed = TRUE, keyboard'.rolled = keyboard.rolled,
         keyboard'.told = keyboard.told,
         keyboard'.down = IF k \in keyboard.down THEN keyboard.down \ {k}
                          ELSE keyboard.down \cup {k},
         keyboard'.pressed = [keyboard.pressed EXCEPT
                                ![k] = IF k \in keyboard.down THEN @ ELSE @ + 1]
  PROVE  KeysInv(q)'
<1>1. KeysOK
  BY DEF KeysInv
<1>a. keyboard'.pressed \in [Keys -> Nat]
  BY <1>1 DEF KeysOK
<1>b. keyboard'.down \subseteq Keys /\ keyboard'.changed \in BOOLEAN
  BY <1>1 DEF KeysOK
<1>2. KeysOK'
  BY <1>1, <1>a, <1>b DEF KeysOK
<1>3. ASSUME ~keyboard.rolled, NEW j \in Keys
      PROVE  keyboard'.pressed[j] - keyboard'.told[j] =
               IF j \in hid.buf \ hid.previous \/ j \in keyboard'.down \ hid.buf THEN 1 ELSE 0
  <2>1. /\ keyboard.pressed[j] - keyboard.told[j] =
             IF j \in hid.buf \ hid.previous \/ j \in keyboard.down \ hid.buf THEN 1 ELSE 0
        /\ keyboard.down = hid.buf
    BY <1>3 DEF KeysInv
  <2>2. keyboard.pressed[j] \in Nat /\ keyboard.told[j] \in Nat
        /\ keyboard.pressed \in [Keys -> Nat]
    BY <1>1 DEF KeysOK
  <2>3. keyboard'.pressed[j] = IF j = k /\ k \notin keyboard.down THEN keyboard.pressed[j] + 1
                               ELSE keyboard.pressed[j]
    BY <2>2
  <2> QED BY <2>1, <2>2, <2>3
<1> QED BY <1>2, <1>3 DEF KeysInv

----------------------------------------------------------------------------
(* What each kind of step does to the rings' invariants.                   *)

\* The steps of the control ring are those of a ring.
LEMMA ControlPushed ==
  ASSUME CR!RingInv, control.step = "ready", Count(control) < Capacity, NEW x \in ControlTrbs,
         control' = BeginPush(control, x)
  PROVE  CR!RingNext /\ CR!RingInv'
<1>1. CR!Push(x)
  BY DEF CR!Push, CR!Count, Count, CR!LinkPlace, LinkPlace, CR!Capacity, Capacity,
         CR!BeginPush, BeginPush, CR!CopyLow, CopyLow
<1>2. CR!RingNext
  BY <1>1 DEF CR!RingNext
<1>3. CR!RingInv'
  BY ONLY <1>2, CR!RingInv, RingSizesHold, NoLinksPushed, CR!RingStep
<1> QED BY <1>2, <1>3

\* Push goes on in the control ring.
LEMMA ControlGoesOn ==
  ASSUME CR!RingInv, control.step # "ready", control' = PushStep(control)
  PROVE  CR!RingNext /\ CR!RingInv'
<1>1. CR!PushStep(control) = PushStep(control)
  BY DEF CR!PushStep, PushStep, CR!Copied, Copied, CR!BeginLink, BeginLink, CR!Linked, Linked,
         CR!CopyHigh, CopyHigh, CR!CopyLow, CopyLow, CR!LinkPlace, LinkPlace, CR!Link, Link
<1>2. CR!RingNext
  BY <1>1 DEF CR!RingNext, CR!GoOn
<1>3. CR!RingInv'
  BY ONLY <1>2, CR!RingInv, RingSizesHold, NoLinksPushed, CR!RingStep
<1> QED BY <1>2, <1>3

\* The controller takes a TRB from the control ring, or follows the link.
LEMMA ControlFetches ==
  ASSUME CR!RingInv, HasTrb(control),
         control' = IF AtLink(control) THEN FollowLink(control) ELSE Take(control)
  PROVE  CR!RingNext /\ CR!RingInv'
<1>1. CR!Fetch
  BY DEF CR!Fetch, CR!HasTrb, HasTrb, CR!AtLink, AtLink, CR!NextTrb, NextTrb,
         CR!FollowLink, FollowLink, CR!Take, Take
<1>2. CR!RingNext
  BY <1>1 DEF CR!RingNext
<1>3. CR!RingInv'
  BY ONLY <1>2, CR!RingInv, RingSizesHold, NoLinksPushed, CR!RingStep
<1> QED BY <1>2, <1>3

\* The control ring is left alone.
LEMMA ControlKept == ASSUME CR!RingInv, control' = control PROVE CR!RingInv'
BY ONLY CR!RingInv, control' = control, RingSizesHold, NoLinksPushed, CR!RingStep

\* The steps of the interrupt ring are those of a ring.
LEMMA InterruptPushed ==
  ASSUME IR!RingInv, interrupt.step = "ready", Count(interrupt) < Capacity, NEW x \in {Normal},
         interrupt' = BeginPush(interrupt, x)
  PROVE  IR!RingNext /\ IR!RingInv'
<1>1. IR!Push(x)
  BY DEF IR!Push, IR!Count, Count, IR!LinkPlace, LinkPlace, IR!Capacity, Capacity,
         IR!BeginPush, BeginPush, IR!CopyLow, CopyLow
<1>2. IR!RingNext
  BY <1>1 DEF IR!RingNext
<1>3. IR!RingInv'
  BY ONLY <1>2, IR!RingInv, RingSizesHold, NoLinksPushed, IR!RingStep
<1> QED BY <1>2, <1>3

\* Push goes on in the interrupt ring.
LEMMA InterruptGoesOn ==
  ASSUME IR!RingInv, interrupt.step # "ready", interrupt' = PushStep(interrupt)
  PROVE  IR!RingNext /\ IR!RingInv'
<1>1. IR!PushStep(interrupt) = PushStep(interrupt)
  BY DEF IR!PushStep, PushStep, IR!Copied, Copied, IR!BeginLink, BeginLink, IR!Linked, Linked,
         IR!CopyHigh, CopyHigh, IR!CopyLow, CopyLow, IR!LinkPlace, LinkPlace, IR!Link, Link
<1>2. IR!RingNext
  BY <1>1 DEF IR!RingNext, IR!GoOn
<1>3. IR!RingInv'
  BY ONLY <1>2, IR!RingInv, RingSizesHold, NoLinksPushed, IR!RingStep
<1> QED BY <1>2, <1>3

\* The controller takes a TRB from the interrupt ring, or follows the link.
LEMMA InterruptFetches ==
  ASSUME IR!RingInv, HasTrb(interrupt),
         interrupt' = IF AtLink(interrupt) THEN FollowLink(interrupt) ELSE Take(interrupt)
  PROVE  IR!RingNext /\ IR!RingInv'
<1>1. IR!Fetch
  BY DEF IR!Fetch, IR!HasTrb, HasTrb, IR!AtLink, AtLink, IR!NextTrb, NextTrb,
         IR!FollowLink, FollowLink, IR!Take, Take
<1>2. IR!RingNext
  BY <1>1 DEF IR!RingNext
<1>3. IR!RingInv'
  BY ONLY <1>2, IR!RingInv, RingSizesHold, NoLinksPushed, IR!RingStep
<1> QED BY <1>2, <1>3

\* The interrupt ring is left alone.
LEMMA InterruptKept == ASSUME IR!RingInv, interrupt' = interrupt PROVE IR!RingInv'
BY ONLY IR!RingInv, interrupt' = interrupt, RingSizesHold, NoLinksPushed, IR!RingStep

\* The event ring is left alone.
LEMMA EventsKept == ASSUME CR!EventInv, eventRing' = eventRing PROVE CR!EventInv'
BY DEF CR!EventInv, CR!EventType, CR!EventBits, CR!EventSameLap, CR!EventBehind, CR!Unhandled, CR!EventsThere

RingsOK == CR!RingInv /\ IR!RingInv /\ CR!EventInv

----------------------------------------------------------------------------
(* Where the driver is.                                                    *)

\* What the rings' invariants say of the places.
LEMMA RingFacts ==
  ASSUME RingsOK
  PROVE  /\ RingOK(control, ControlTrbs) /\ PlacesOK(control)
         /\ RingOK(interrupt, {Normal}) /\ PlacesOK(interrupt)
BY ControlRingOK, InterruptRingOK, PlacesOfRing DEF RingsOK

\* Where the driver is, and what it has not handled.
LEMMA WhereItIs ==
  ASSUME RingsOK, TransfersInv
  PROVE  \E q \in Seq(AllEvents), pc \in Busy \cup Quiet, times \in Nat, end \in Ends :
           /\ end \in {<< >>, <<PopEvent>>, Drivers(times)}
           /\ q = Unhandled(eventRing, end) /\ InvAt(q, pc, end, times)
<1>1. PICK pc \in Busy \cup Quiet, times \in Nat :
        \E end \in {<< >>, <<PopEvent>>, Drivers(times)} :
          InvAt(Unhandled(eventRing, end), pc, end, times)
  BY DEF TransfersInv
<1>2. PICK end \in {<< >>, <<PopEvent>>, Drivers(times)} :
          InvAt(Unhandled(eventRing, end), pc, end, times)
  BY <1>1
<1>3. TodoOK(pc, end, times)
  BY <1>2 DEF InvAt
<1>4. Pending(eventRing) \in Seq(AllEvents)
  BY EventsWaiting DEF RingsOK
<1>5. Unhandled(eventRing, end) \in Seq(AllEvents)
  BY <1>3, <1>4, EventHandled DEF TodoOK, Unhandled
<1>6. end \in Ends
  BY <1>2 DEF Ends
<1> QED BY <1>2, <1>5, <1>6

\* The invariant, after a step that leaves the driver at pc1.
LEMMA ThereItIs ==
  ASSUME NEW q1, NEW pc1, NEW end1, NEW times1, InvAt(q1, pc1, end1, times1)',
         q1 = Unhandled(eventRing', end1)
  PROVE  TransfersInv'
<1>1. Ending(end1, times1) /\ At(todo', pc1, end1)
  BY DEF InvAt, TodoOK
<1>2. pc1 \in Busy \cup Quiet
  BY <1>1, TodoHeads
<1>3. times1 \in Nat /\ end1 \in {<< >>, <<PopEvent>>, Drivers(times1)}
  BY <1>1 DEF Ending
<1> QED BY <1>2, <1>3 DEF TransfersInv

----------------------------------------------------------------------------
(* The events, posted and handled.                                         *)

\* An event is posted.
LEMMA QueuePosted ==
  ASSUME RingsOK, NEW pc, NEW end, NEW times, TodoOK(pc, end, times),
         NEW x \in AllEvents, HasRoom(eventRing), eventRing' = Posted(eventRing, x)
  PROVE  \E q1 \in Seq(AllEvents) :
           /\ q1 = Unhandled(eventRing', end) /\ Adds(q1, Unhandled(eventRing, end), x)
           /\ Pending(eventRing') # << >> /\ CR!EventInv'
<1> DEFINE p == Pending(eventRing)
<1>1. CR!EventInv' /\ Pending(eventRing') = Append(p, x)
  BY EventPosted DEF RingsOK
<1>2. p \in Seq(AllEvents)
  BY EventsWaiting DEF RingsOK
<1>3. end # << >> => p # << >>
  BY DEF TodoOK
<1>u. /\ Unhandled(eventRing', end) = IF end = << >> THEN Append(p, x) ELSE Tail(Append(p, x))
      /\ Unhandled(eventRing, end) = IF end = << >> THEN p ELSE Tail(p)
  BY <1>1 DEF Unhandled
<1> HIDE DEF p
<1>4. Append(p, x) \in Seq(AllEvents) /\ Adds(Append(p, x), p, x)
  BY <1>2, AppendAdds
<1>5. Append(p, x) # << >>
  BY <1>2, AppendProperties, EmptySeq
<1>6. CASE end = << >>
  BY <1>1, <1>4, <1>5, <1>6, <1>u
<1>7. CASE end # << >>
  <2>1. Tail(Append(p, x)) = Append(Tail(p), x)
    BY <1>2, <1>3, <1>7, TailOfAppend
  <2>2. Tail(p) \in Seq(AllEvents)
    BY <1>2, <1>3, <1>7, EventHandled
  <2>3. Append(Tail(p), x) \in Seq(AllEvents) /\ Adds(Append(Tail(p), x), Tail(p), x)
    BY <2>2, AppendAdds
  <2> QED BY <1>1, <1>5, <1>7, <1>u, <2>1, <2>3
<1> QED BY <1>6, <1>7

\* If an event is waiting, the driver finds one at the front.
LEMMA FrontThere ==
  ASSUME CR!EventInv, Pending(eventRing) # << >>
  PROVE  HasFront(eventRing)
<1>1. Len(Pending(eventRing)) = EventCount(eventRing) /\ Pending(eventRing) \in Seq(AllEvents)
  BY EventsWaiting
<1>2. EventCount(eventRing) # 0
  BY <1>1, EmptySeq
<1>3. /\ eventRing.enq \in 0 .. EventSize - 1 /\ eventRing.erdp \in 0 .. EventSize - 1
      /\ eventRing.pcs \in {0, 1} /\ eventRing.cycle \in {0, 1}
      /\ eventRing.bit \in [0 .. EventSize - 1 -> {0, 1}]
      /\ EventSize \in Nat
  BY SizeAssumption DEF CR!EventInv, CR!EventType, CR!EventPlaces
<1>4. /\ \A i \in 0 .. EventSize - 1 : eventRing.bit[i] = eventRing.pcs <=> i < eventRing.enq
      /\ IF eventRing.pcs = eventRing.cycle THEN eventRing.erdp <= eventRing.enq
         ELSE eventRing.enq <= eventRing.erdp
  BY <1>3 DEF CR!EventInv, CR!EventBits, CR!EventBehind, CR!EventSameLap, CR!EventPlaces
<1> QED BY <1>2, <1>3, <1>4 DEF EventCount, HasFront

\* The event that has been handled is popped.
LEMMA QueuePopped ==
  ASSUME RingsOK, Pending(eventRing) # << >>, eventRing' = Popped(eventRing), NEW end, end # << >>
  PROVE  Unhandled(eventRing', << >>) = Unhandled(eventRing, end) /\ CR!EventInv'
<1>1. HasFront(eventRing)
  BY FrontThere DEF RingsOK
<1>2. CR!EventInv' /\ Pending(eventRing') = Tail(Pending(eventRing))
  BY <1>1, EventPopped DEF RingsOK
<1> QED BY <1>2 DEF Unhandled

\* What a step leaves alone, and what holds of it.
LEMMA OthersKept ==
  ASSUME NEW q, NEW pc, NEW end, NEW times, InvAt(q, pc, end, times),
         dev' = dev, hid' = hid, keyboard' = keyboard
  PROVE  /\ KeysInv(q)' /\ SameReports(q, q)
         /\ xhc' = xhc => RecordsOK' /\ XhcOK'
         /\ portPhase' = portPhase => ElseKept
<1>1. SameReports(q, q)
  BY DEF SameReports
<1>2. KeysInv(q)'
  BY <1>1, KeysStay DEF InvAt
<1>3. xhc' = xhc => RecordsOK' /\ XhcOK'
  BY DEF InvAt, RecordsOK, XhcOK
<1>4. portPhase' = portPhase => ElseKept
  BY DEF InvAt, ControlInv, PhaseOK, ElseKept
<1> QED BY <1>1, <1>2, <1>3, <1>4

----------------------------------------------------------------------------
(* Each action keeps the invariant: the steps of the driver.               *)

\* What the driver pushes to the control ring.
LEMMA PushingAt ==
  ASSUME NEW pc, NEW end, NEW times, TodoOK(pc, end, times), todo # << >>,
         Head(todo).do = "push", Head(todo).ring = "control"
  PROVE  /\ pc \in {"setupIn", "setupOut", "data", "statusIn", "statusOut"}
         /\ Head(todo).trb \in ControlTrbs
         /\ \E pc1 \in {"data", "statusIn", "statusOut", "put"} :
              PushesAt(pc, Head(todo).trb, pc1) /\ At(Tail(todo), pc1, end)
<1>1. Ending(end, times) /\ At(todo, pc, end)
  BY DEF TodoOK
<1>2. pc \in {"setupIn", "setupOut", "data", "statusIn", "statusOut"}
  BY <1>1, NextThings
<1>3. /\ pc = "setupIn" => /\ \E x \in SetupsIn : Head(todo) = PushTo("control", x)
                           /\ At(Tail(todo), "data", end)
      /\ pc = "setupOut" => /\ \E x \in SetupsOut : Head(todo) = PushTo("control", x)
                            /\ At(Tail(todo), "statusOut", end)
      /\ pc = "data" => Head(todo) = PushTo("control", DataStage) /\ At(Tail(todo), "statusIn", end)
      /\ pc = "statusIn" => /\ Head(todo) = PushTo("control", StatusStage(FALSE))
                            /\ At(Tail(todo), "put", end)
      /\ pc = "statusOut" => /\ Head(todo) = PushTo("control", StatusStage(TRUE))
                             /\ At(Tail(todo), "put", end)
  BY <1>1, TodoHeads
<1>4. \A x : Head(todo) = PushTo("control", x) => Head(todo).trb = x
  BY ThingKinds
<1>5. /\ pc = "setupIn" => Head(todo).trb \in SetupsIn
      /\ pc = "setupOut" => Head(todo).trb \in SetupsOut
      /\ pc = "data" => Head(todo).trb = DataStage
      /\ pc = "statusIn" => Head(todo).trb = StatusStage(FALSE)
      /\ pc = "statusOut" => Head(todo).trb = StatusStage(TRUE)
  BY ONLY <1>3, <1>4
<1>6. Head(todo).trb \in ControlTrbs
  BY <1>2, <1>5, ThingsAre
<1>7. \E pc1 \in {"data", "statusIn", "statusOut", "put"} :
        PushesAt(pc, Head(todo).trb, pc1) /\ At(Tail(todo), pc1, end)
  BY ONLY <1>2, <1>3, <1>5 DEF PushesAt
<1> QED BY <1>2, <1>6, <1>7

\* Ring::Push begins, of a stage or of the TRB that asks for a report.
LEMMA BeginsPushKeeps ==
  ASSUME RingsOK, TransfersInv, BeginsPush
  PROVE  RingsOK' /\ TransfersInv' /\ [CR!RingNext]_control /\ [IR!RingNext]_interrupt
<1>1. PICK q \in Seq(AllEvents), pc \in Busy \cup Quiet, times \in Nat, end \in Ends :
        q = Unhandled(eventRing, end) /\ InvAt(q, pc, end, times)
  BY WhereItIs
<1> HIDE DEF Unhandled
<1>2. /\ TodoOK(pc, end, times) /\ ControlInv(q, pc, times) /\ ReportInv(q, pc)
  BY <1>1 DEF InvAt
<1>3. /\ control.step = "ready" /\ interrupt.step = "ready" /\ todo # << >>
      /\ Head(todo).do = "push" /\ todo' = Tail(todo)
      /\ eventRing' = eventRing /\ setupMap' = setupMap /\ dev' = dev /\ hid' = hid
      /\ portPhase' = portPhase /\ xhc' = xhc /\ keyboard' = keyboard
  BY DEF BeginsPush, Doing, Ready
<1>4. RecordsOK' /\ XhcOK' /\ KeysInv(q)' /\ SameReports(q, q) /\ ElseKept
  BY <1>1, <1>3, OthersKept
<1>5. q = Unhandled(eventRing', end) /\ CR!EventInv'
  BY <1>1, <1>3, EventsKept DEF RingsOK
<1>6. /\ RingOK(control, ControlTrbs) /\ PlacesOK(control)
      /\ RingOK(interrupt, {Normal}) /\ PlacesOK(interrupt)
  BY RingFacts
<1>7. CASE Head(todo).ring = "control"
  <2>1. PICK pc1 \in {"data", "statusIn", "statusOut", "put"} :
          PushesAt(pc, Head(todo).trb, pc1) /\ At(Tail(todo), pc1, end)
    BY <1>2, <1>3, <1>7, PushingAt
  <2>2. /\ pc \in {"setupIn", "setupOut", "data", "statusIn", "statusOut"}
        /\ Head(todo).trb \in ControlTrbs
    BY <1>2, <1>3, <1>7, PushingAt
  <2> DEFINE x == Head(todo).trb
  <2>3. /\ control' = BeginPush(control, x) /\ interrupt' = interrupt
        /\ pushed' = CASE x.type = "Setup" -> [pushed EXCEPT !.setup = control.write]
                       [] x.type # "Setup" /\ x.ioc -> [pushed EXCEPT !.ioc = control.write]
                       [] OTHER -> pushed
    BY <1>7 DEF BeginsPush
  <2> HIDE DEF x
  <2>4. Count(control) < Capacity
    <3>1. Count(control) + Pushes(control, pc, times) <= Capacity
      BY <1>2 DEF ControlInv, RoomOK
    <3>2. Pushes(control, pc, times) >= 1 /\ Pushes(control, pc, times) \in Nat
      <4>1. StagesLeft(pc) \in 1 .. 3
        BY <2>2 DEF StagesLeft
      <4> QED BY ONLY <4>1, times \in Nat DEF Pushes
    <3> QED BY <1>6, <3>1, <3>2, TransferPlaces DEF PlacesOK
  <2>5. CR!RingNext /\ CR!RingInv' /\ IR!RingInv'
    BY <1>3, <2>2, <2>3, <2>4, ControlPushed, InterruptKept DEF RingsOK, x
  <2>6. BeginsIn(control, control', x) /\ control.write = Free(control)
    <3>1. BeginsIn(control, control', x)
      BY ONLY <1>3, <1>6, <2>3, RingBegins
    <3> QED BY <1>3, <1>6, <3>1 DEF PlacesOK
  <2>7. ControlInv(q, pc1, times)'
    <3>1. pushed' = CASE x.type = "Setup" -> [pushed EXCEPT !.setup = Free(control)]
                       [] x.type # "Setup" /\ x.ioc -> [pushed EXCEPT !.ioc = Free(control)]
                       [] OTHER -> pushed
      BY <2>3, <2>6
    <3>2. PushesAt(pc, x, pc1)
      BY <2>1 DEF x
    <3> QED BY ONLY <1>2, <1>3, <1>4, <1>6, <2>6, <3>1, <3>2, times \in Nat, BeginsMove
  <2>8. ReportInv(q, pc1)'
    <3>1. Stays(interrupt, interrupt')
      BY <2>3 DEF Stays
    <3>2. pc1 # "report"
      OBVIOUS
    <3>3. hid'.init \in {hid.init, 1} /\ (hid'.init = 1 => hid.init < 2)
      BY <1>3
    <3> QED BY <1>2, <1>4, <1>6, <3>1, <3>2, <3>3, ReportStays
  <2>9. TodoOK(pc1, end, times)'
    <3>1. pc1 # "reportBell"
      OBVIOUS
    <3> QED BY <1>2, <1>3, <2>1, <2>3 DEF TodoOK
  <2> QED
    BY <1>4, <1>5, <2>3, <2>5, <2>7, <2>8, <2>9, ThereItIs DEF InvAt, RingsOK
<1>8. CASE Head(todo).ring # "control"
  <2>1. /\ interrupt' = BeginPush(interrupt, Head(todo).trb) /\ control' = control /\ pushed' = pushed
    BY <1>8 DEF BeginsPush
  <2>2. pc = "report" /\ Head(todo).trb = Normal /\ At(Tail(todo), "reportBell", end)
    <3>1. Ending(end, times) /\ At(todo, pc, end)
      BY <1>2 DEF TodoOK
    <3>2. pc = "report"
      BY <1>3, <1>8, <3>1, NextThings
    <3>3. Head(todo) = PushTo("interrupt", Normal) /\ At(Tail(todo), "reportBell", end)
      BY <3>1, <3>2, TodoHeads
    <3> QED BY <3>2, <3>3, ThingKinds
  <2>3. Count(interrupt) < Capacity
    BY <1>2, <1>6, <2>2, TransferPlaces, ReportsAre DEF ReportInv, PlacesOK
  <2>4. IR!RingNext /\ IR!RingInv' /\ CR!RingInv'
    <3>1. Normal \in {Normal} /\ interrupt' = BeginPush(interrupt, Normal)
      BY <2>1, <2>2
    <3> QED BY <1>3, <2>1, <2>3, <3>1, InterruptPushed, ControlKept DEF RingsOK
  <2>5. BeginsIn(interrupt, interrupt', Normal)
    <3>1. interrupt' = BeginPush(interrupt, Normal)
      BY <2>1, <2>2
    <3> QED BY ONLY <1>3, <1>6, <3>1, RingBegins
  <2>6. ReportInv(q, "reportBell")'
    BY <1>2, <1>3, <1>6, <2>2, <2>5, ReportBegins
  <2>7. ControlInv(q, "reportBell", times)'
    <3>1. /\ pc \in Quiet /\ "reportBell" \in Quiet
      BY <2>2 DEF Quiet
    <3>2. portPhase = "Configured"
      BY <1>2, <2>2 DEF ControlInv, WhileInitializing, WhileConfiguring, PhaseOK
    <3>3. Stays(control, control') /\ Fewer(q, q)
      <4>1. \A p \in StagePlaces : AnswersIn(q, p) \in Nat
        BY CountType DEF AnswersIn
      <4> QED BY <2>1, <4>1 DEF Stays, Fewer
    <3>4. /\ DOMAIN setupMap' = DOMAIN setupMap
          /\ \A i \in 1 .. MapSize : setupMap'[i] \in {setupMap[i], None}
          /\ \A p \in StagePlaces : Open(control', q, p) /\ Holding(setupMap, p) # {}
                                  => Holding(setupMap', p) # {}
          /\ xhc'.request = xhc.request /\ xhc'.halted = xhc.halted
      BY <1>3
    <3> QED BY <1>2, <1>4, <1>6, <2>1, <3>1, <3>2, <3>3, <3>4, StaysMove
  <2>8. TodoOK("reportBell", end, times)'
    BY <1>2, <1>3, <2>1, <2>2 DEF TodoOK
  <2> QED
    BY <1>4, <1>5, <2>1, <2>4, <2>6, <2>7, <2>8, ThereItIs DEF InvAt, RingsOK
<1> QED BY <1>7, <1>8

\* No event has been taken.
LEMMA FewerSame == ASSUME NEW q \in Seq(AllEvents) PROVE Fewer(q, q)
<1>1. \A p \in StagePlaces : AnswersIn(q, p) \in Nat
  BY CountType DEF AnswersIn
<1> QED BY <1>1 DEF Fewer

\* The map is as it was, too.
LEMMA ElsewhereMove ==
  ASSUME NEW q, NEW q1, Fewer(q1, q), NEW pc, NEW pc1, NEW times \in Nat,
         PlacesOK(control), ControlInv(q, pc, times), Stays(control, control'),
         pc1 = pc \/ (pc \in Quiet /\ pc1 \in Quiet),
         portPhase # "Configured" => pc1 \in {pc, "end"},
         setupMap' = setupMap, pushed' = pushed, ElseKept,
         xhc'.request = xhc.request,
         "control" \in xhc.halted => "control" \in xhc'.halted
  PROVE  ControlInv(q1, pc1, times)'
<1>1. /\ DOMAIN setupMap' = DOMAIN setupMap
      /\ \A i \in 1 .. MapSize : setupMap'[i] \in {setupMap[i], None}
      /\ \A p \in StagePlaces : Open(control', q1, p) /\ Holding(setupMap, p) # {}
                                  => Holding(setupMap', p) # {}
  OBVIOUS
<1> QED BY <1>1, StaysMove

\* Ring::Push goes on.
LEMMA GoesOnPushingKeeps ==
  ASSUME RingsOK, TransfersInv, GoesOnPushing
  PROVE  RingsOK' /\ TransfersInv' /\ [CR!RingNext]_control /\ [IR!RingNext]_interrupt
<1>1. PICK q \in Seq(AllEvents), pc \in Busy \cup Quiet, times \in Nat, end \in Ends :
        q = Unhandled(eventRing, end) /\ InvAt(q, pc, end, times)
  BY WhereItIs
<1>2. /\ TodoOK(pc, end, times) /\ ControlInv(q, pc, times) /\ ReportInv(q, pc)
  BY <1>1 DEF InvAt
<1>3. /\ todo' = todo /\ pushed' = pushed
      /\ eventRing' = eventRing /\ setupMap' = setupMap /\ dev' = dev /\ hid' = hid
      /\ portPhase' = portPhase /\ xhc' = xhc /\ keyboard' = keyboard
  BY DEF GoesOnPushing, driverVars
<1>4. RecordsOK' /\ XhcOK' /\ KeysInv(q)' /\ SameReports(q, q) /\ ElseKept
  BY <1>1, <1>3, OthersKept
<1>5. q = Unhandled(eventRing', end) /\ CR!EventInv'
  BY <1>1, <1>3, EventsKept DEF RingsOK
<1>6. /\ RingOK(control, ControlTrbs) /\ PlacesOK(control)
      /\ RingOK(interrupt, {Normal}) /\ PlacesOK(interrupt)
  BY RingFacts
<1>s. /\ control.step \in {"ready", "copying", "fullLap", "linking"}
      /\ interrupt.step \in {"ready", "copying", "fullLap", "linking"}
  BY <1>6 DEF RingOK
<1>7. CASE control.step # "ready" /\ control' = PushStep(control) /\ interrupt' = interrupt
  <2>1. pc \in {"data", "statusIn", "statusOut", "put"}
    BY <1>2, <1>7 DEF TodoOK
  <2>2. CR!RingNext /\ CR!RingInv' /\ IR!RingInv'
    BY <1>7, ControlGoesOn, InterruptKept DEF RingsOK
  <2>3. ControlInv(q, pc, times)'
    <3>1. CASE control.step = "copying"
      <4>1. Copies(control, control')
        BY ONLY <1>6, <1>7, <3>1, RingCopies
      <4> QED BY <1>2, <1>3, <1>4, <1>6, <2>1, <4>1, CopiesMove
    <3>2. CASE control.step # "copying"
      <4>1. control.step \in {"fullLap", "linking"}
        BY <1>7, <1>s, <3>2
      <4>2. Stays(control, control')
        BY ONLY <1>6, <1>7, <4>1, RingLinks
      <4>3. /\ pc = pc /\ portPhase # "Configured" => pc \in {pc, "end"}
            /\ xhc'.request = xhc.request /\ xhc'.halted = xhc.halted
        BY <1>3
      <4> QED BY <1>2, <1>3, <1>4, <1>6, <4>2, <4>3, FewerSame, ElsewhereMove
    <3> QED BY <3>1, <3>2
  <2>4. ReportInv(q, pc)'
    <3>1. Stays(interrupt, interrupt')
      BY <1>7 DEF Stays
    <3>2. hid'.init \in {hid.init, 1} /\ (hid'.init = 1 => hid.init < 2)
      BY <1>3
    <3> QED BY <1>2, <1>4, <1>6, <3>1, <3>2, ReportStays
  <2>5. TodoOK(pc, end, times)'
    BY <1>2, <1>3, <1>7, <2>1 DEF TodoOK
  <2> QED
    BY <1>4, <1>5, <1>7, <2>2, <2>3, <2>4, <2>5, ThereItIs DEF InvAt, RingsOK
<1>8. CASE interrupt.step # "ready" /\ interrupt' = PushStep(interrupt) /\ control' = control
  <2>1. pc = "reportBell"
    BY <1>2, <1>8 DEF TodoOK
  <2>2. IR!RingNext /\ IR!RingInv' /\ CR!RingInv'
    BY <1>8, InterruptGoesOn, ControlKept DEF RingsOK
  <2>3. ControlInv(q, pc, times)'
    <3>1. Stays(control, control')
      BY <1>8 DEF Stays
    <3>2. /\ pc = pc /\ portPhase # "Configured" => pc \in {pc, "end"}
          /\ xhc'.request = xhc.request /\ xhc'.halted = xhc.halted
      BY <1>3
    <3> QED BY <1>2, <1>3, <1>4, <1>6, <3>1, <3>2, FewerSame, ElsewhereMove
  <2>4. ReportInv(q, pc)'
    <3>1. CASE interrupt.step = "copying"
      <4>1. Copies(interrupt, interrupt')
        BY ONLY <1>6, <1>8, <3>1, RingCopies
      <4> QED BY <1>2, <1>3, <1>6, <2>1, <4>1, ReportCopies
    <3>2. CASE interrupt.step # "copying"
      <4>1. interrupt.step \in {"fullLap", "linking"}
        BY <1>8, <1>s, <3>2
      <4>2. Stays(interrupt, interrupt')
        BY ONLY <1>6, <1>8, <4>1, RingLinks
      <4>3. hid'.init \in {hid.init, 1} /\ (hid'.init = 1 => hid.init < 2)
        BY <1>3
      <4> QED BY <1>2, <1>4, <1>6, <4>2, <4>3, ReportStays
    <3> QED BY <3>1, <3>2
  <2>5. TodoOK(pc, end, times)'
    BY <1>2, <1>3, <1>8, <2>1 DEF TodoOK
  <2> QED
    BY <1>4, <1>5, <1>8, <2>2, <2>3, <2>4, <2>5, ThereItIs DEF InvAt, RingsOK
<1> QED BY <1>7, <1>8 DEF GoesOnPushing

\* A step that leaves the rings alone.
LEMMA RingsUntouched ==
  ASSUME RingsOK, control' = control, interrupt' = interrupt, eventRing' = eventRing
  PROVE  /\ RingsOK' /\ Stays(control, control') /\ Stays(interrupt, interrupt')
         /\ PlacesOK(control) /\ PlacesOK(interrupt)
BY RingFacts, ControlKept, InterruptKept, EventsKept DEF RingsOK, Stays

\* The setup stage is put into the map, for the completion to find it.
LEMMA PutsSetupStageKeeps ==
  ASSUME RingsOK, TransfersInv, PutsSetupStage
  PROVE  RingsOK' /\ TransfersInv' /\ [CR!RingNext]_control /\ [IR!RingNext]_interrupt
<1>1. PICK q \in Seq(AllEvents), pc \in Busy \cup Quiet, times \in Nat, end \in Ends :
        q = Unhandled(eventRing, end) /\ InvAt(q, pc, end, times)
  BY WhereItIs
<1>2. /\ TodoOK(pc, end, times) /\ ControlInv(q, pc, times) /\ ReportInv(q, pc)
  BY <1>1 DEF InvAt
<1>3. /\ control.step = "ready" /\ interrupt.step = "ready" /\ todo # << >>
      /\ Head(todo).do = "put" /\ todo' = Tail(todo)
      /\ setupMap' = Put(setupMap, pushed.ioc, pushed.setup)
      /\ control' = control /\ interrupt' = interrupt /\ pushed' = pushed
      /\ eventRing' = eventRing /\ dev' = dev /\ hid' = hid
      /\ portPhase' = portPhase /\ xhc' = xhc /\ keyboard' = keyboard
  BY DEF PutsSetupStage, Doing, Ready
<1>4. RecordsOK' /\ XhcOK' /\ KeysInv(q)' /\ SameReports(q, q) /\ ElseKept
  BY <1>1, <1>3, OthersKept
<1>5. /\ RingsOK' /\ Stays(control, control') /\ Stays(interrupt, interrupt')
      /\ PlacesOK(control) /\ PlacesOK(interrupt)
  BY <1>3, RingsUntouched
<1>6. pc = "put" /\ At(Tail(todo), "bell", end)
  BY <1>2, <1>3, NextThings, TodoHeads DEF TodoOK
<1>7. ControlInv(q, "bell", times)'
  BY <1>2, <1>3, <1>4, <1>5, <1>6, PutMove
<1>8. ReportInv(q, "bell")'
  <2>1. hid'.init \in {hid.init, 1} /\ (hid'.init = 1 => hid.init < 2)
    BY <1>3
  <2> QED BY <1>2, <1>4, <1>5, <2>1, ReportStays
<1>9. TodoOK("bell", end, times)'
  BY <1>2, <1>3, <1>6 DEF TodoOK
<1> QED
  BY <1>1, <1>3, <1>4, <1>5, <1>7, <1>8, <1>9, ThereItIs DEF InvAt

\* A doorbell is rung.
LEMMA RingsDoorbellKeeps ==
  ASSUME RingsOK, TransfersInv, RingsDoorbell
  PROVE  RingsOK' /\ TransfersInv' /\ [CR!RingNext]_control /\ [IR!RingNext]_interrupt
<1>1. PICK q \in Seq(AllEvents), pc \in Busy \cup Quiet, times \in Nat, end \in Ends :
        q = Unhandled(eventRing, end) /\ InvAt(q, pc, end, times)
  BY WhereItIs
<1>2. /\ TodoOK(pc, end, times) /\ ControlInv(q, pc, times) /\ ReportInv(q, pc)
      /\ RecordsOK /\ XhcOK
  BY <1>1 DEF InvAt
<1>3. /\ control.step = "ready" /\ interrupt.step = "ready" /\ todo # << >>
      /\ Head(todo).do = "doorbell" /\ todo' = Tail(todo)
      /\ setupMap' = setupMap /\ pushed' = pushed
      /\ control' = control /\ interrupt' = interrupt
      /\ eventRing' = eventRing /\ dev' = dev /\ hid' = hid
      /\ portPhase' = portPhase /\ keyboard' = keyboard
      /\ xhc' = [xhc EXCEPT !.active = @ \cup {Head(todo).ring}]
  BY DEF RingsDoorbell, Doing, Ready, driverVars
<1>4. KeysInv(q)' /\ SameReports(q, q) /\ ElseKept
  BY <1>1, <1>3, OthersKept
<1>5. /\ RingsOK' /\ Stays(control, control') /\ Stays(interrupt, interrupt')
      /\ PlacesOK(control) /\ PlacesOK(interrupt)
  BY <1>3, RingsUntouched
<1>6. pc \in {"bell", "reportBell"} /\ At(Tail(todo), "end", end)
      /\ Head(todo).ring \in {"control", "interrupt"}
  BY <1>2, <1>3, NextThings, TodoHeads DEF TodoOK
<1>7. RecordsOK' /\ XhcOK' /\ xhc'.request = xhc.request /\ xhc'.halted = xhc.halted
  <2>1. /\ xhc' = [active |-> xhc.active \cup {Head(todo).ring}, halted |-> xhc.halted,
                   request |-> xhc.request, command |-> xhc.command, failures |-> xhc.failures]
    BY <1>2, <1>3 DEF RecordsOK
  <2>2. /\ xhc'.active = xhc.active \cup {Head(todo).ring} /\ xhc'.halted = xhc.halted
        /\ xhc'.request = xhc.request
        /\ xhc' = [active |-> xhc'.active, halted |-> xhc'.halted, request |-> xhc'.request,
                   command |-> xhc'.command, failures |-> xhc'.failures]
    BY ONLY <2>1
  <2>3. RecordsOK'
    BY ONLY <1>2, <1>3, <2>2 DEF RecordsOK
  <2> QED BY ONLY <1>2, <1>6, <2>2, <2>3 DEF XhcOK
<1>8. ControlInv(q, "end", times)'
  <2>1. pc \in Quiet /\ "end" \in Quiet
    BY <1>6 DEF Quiet
  <2> QED BY <1>2, <1>3, <1>4, <1>5, <1>7, <2>1, FewerSame, ElsewhereMove
<1>9. ReportInv(q, "end")'
  <2>1. hid'.init \in {hid.init, 1} /\ (hid'.init = 1 => hid.init < 2)
    BY <1>3
  <2> QED BY <1>2, <1>4, <1>5, <2>1, ReportStays
<1>10. TodoOK("end", end, times)'
  BY <1>2, <1>3, <1>6 DEF TodoOK
<1> QED
  BY <1>1, <1>3, <1>4, <1>5, <1>7, <1>8, <1>9, <1>10, ThereItIs DEF InvAt

\* The command is sent that configures the endpoints.
LEMMA SendsCommandKeeps ==
  ASSUME RingsOK, TransfersInv, SendsCommand
  PROVE  RingsOK' /\ TransfersInv' /\ [CR!RingNext]_control /\ [IR!RingNext]_interrupt
<1>1. PICK q \in Seq(AllEvents), pc \in Busy \cup Quiet, times \in Nat, end \in Ends :
        q = Unhandled(eventRing, end) /\ InvAt(q, pc, end, times)
  BY WhereItIs
<1>2. /\ TodoOK(pc, end, times) /\ ControlInv(q, pc, times) /\ ReportInv(q, pc)
      /\ RecordsOK /\ XhcOK
  BY <1>1 DEF InvAt
<1>3. /\ control.step = "ready" /\ interrupt.step = "ready" /\ todo # << >>
      /\ Head(todo).do = "command" /\ todo' = Tail(todo)
      /\ setupMap' = setupMap /\ pushed' = pushed
      /\ control' = control /\ interrupt' = interrupt
      /\ eventRing' = eventRing /\ dev' = dev /\ hid' = hid
      /\ portPhase' = portPhase /\ keyboard' = keyboard
      /\ xhc' = [xhc EXCEPT !.command = TRUE]
  BY DEF SendsCommand, Doing, Ready, driverVars
<1>4. KeysInv(q)' /\ SameReports(q, q) /\ ElseKept
  BY <1>1, <1>3, OthersKept
<1>5. /\ RingsOK' /\ Stays(control, control') /\ Stays(interrupt, interrupt')
      /\ PlacesOK(control) /\ PlacesOK(interrupt)
  BY <1>3, RingsUntouched
<1>6. pc = "command" /\ At(Tail(todo), "end", end)
  <2>1. Ending(end, times) /\ At(todo, pc, end)
    BY <1>2 DEF TodoOK
  <2>2. pc = "command"
    BY <1>3, <2>1, NextThings
  <2> QED BY <2>1, <2>2, TodoHeads
<1>7. RecordsOK' /\ XhcOK' /\ xhc'.request = xhc.request /\ xhc'.halted = xhc.halted
  <2>1. /\ xhc' = [active |-> xhc.active, halted |-> xhc.halted,
                   request |-> xhc.request, command |-> TRUE, failures |-> xhc.failures]
    BY <1>2, <1>3 DEF RecordsOK
  <2> QED BY <1>2, <1>3, <2>1 DEF RecordsOK, XhcOK
<1>8. ControlInv(q, "end", times)'
  <2>1. pc \in Quiet /\ "end" \in Quiet
    BY <1>6 DEF Quiet
  <2> QED BY <1>2, <1>3, <1>4, <1>5, <1>7, <2>1, FewerSame, ElsewhereMove
<1>9. ReportInv(q, "end")'
  <2>1. hid'.init \in {hid.init, 1} /\ (hid'.init = 1 => hid.init < 2)
    BY <1>3
  <2> QED BY <1>2, <1>4, <1>5, <2>1, ReportStays
<1>10. TodoOK("end", end, times)'
  BY <1>2, <1>3, <1>6 DEF TodoOK
<1> QED
  BY <1>1, <1>3, <1>4, <1>5, <1>7, <1>8, <1>9, <1>10, ThereItIs DEF InvAt

\* CompleteConfiguration goes on to the next class driver.
LEMMA ConfiguresDriverKeeps ==
  ASSUME RingsOK, TransfersInv, ConfiguresDriver
  PROVE  RingsOK' /\ TransfersInv' /\ [CR!RingNext]_control /\ [IR!RingNext]_interrupt
<1>1. PICK q \in Seq(AllEvents), pc \in Busy \cup Quiet, times \in Nat, end \in Ends :
        q = Unhandled(eventRing, end) /\ InvAt(q, pc, end, times)
  BY WhereItIs
<1>2. /\ TodoOK(pc, end, times) /\ ControlInv(q, pc, times) /\ ReportInv(q, pc)
      /\ RecordsOK /\ XhcOK /\ KeysInv(q)
  BY <1>1 DEF InvAt
<1>3. /\ control.step = "ready" /\ interrupt.step = "ready" /\ todo # << >>
      /\ Head(todo).do = "configure"
      /\ setupMap' = setupMap /\ pushed' = pushed
      /\ control' = control /\ interrupt' = interrupt
      /\ eventRing' = eventRing /\ portPhase' = portPhase /\ xhc' = xhc /\ keyboard' = keyboard
  BY DEF ConfiguresDriver, Ready
<1>4. Ending(end, times) /\ At(todo, pc, end)
  BY <1>2 DEF TodoOK
<1>5. /\ pc = "end" /\ end = Drivers(times) /\ Head(todo).times = times /\ Tail(todo) = <<PopEvent>>
      /\ end # << >> /\ hid.init < 2 /\ Pending(eventRing) # << >>
  <2>1. /\ pc = "end" /\ end = Drivers(times) /\ Head(todo).times = times
        /\ Tail(todo) = <<PopEvent>>
    BY <1>3, <1>4, NextThings
  <2>2. end # << >>
    BY <1>4, <2>1, EndIs
  <2> QED BY <1>2, <2>1, <2>2 DEF TodoOK
<1>6. /\ RingsOK' /\ Stays(control, control') /\ Stays(interrupt, interrupt')
      /\ PlacesOK(control) /\ PlacesOK(interrupt)
  BY <1>3, RingsUntouched
<1>7. CASE times = 0
  <2>1. todo' = <<PopEvent>> /\ dev' = dev /\ hid' = hid
    BY <1>3, <1>5, <1>7 DEF ConfiguresDriver
  <2>2. RecordsOK' /\ XhcOK' /\ KeysInv(q)' /\ SameReports(q, q) /\ ElseKept
    BY <1>1, <1>3, <2>1, OthersKept
  <2>3. /\ Ending(<<PopEvent>>, 0) /\ At(<<PopEvent>>, "end", <<PopEvent>>)
        /\ <<PopEvent>> # << >> /\ <<PopEvent>> # Drivers(0)
    BY TodoBegins, EndIs
  <2>4. q = Unhandled(eventRing', <<PopEvent>>)
    BY <1>1, <1>3, <1>5, <2>3 DEF Unhandled
  <2>5. ControlInv(q, "end", 0)'
    <3>1. ControlInv(q, "end", 0) /\ 0 \in Nat
      BY <1>2, <1>5, <1>7
    <3>2. /\ "end" = "end" /\ portPhase # "Configured" => "end" \in {"end", "end"}
          /\ xhc'.request = xhc.request /\ xhc'.halted = xhc.halted
      BY <1>3
    <3> QED BY <1>3, <1>6, <2>2, <3>1, <3>2, FewerSame, ElsewhereMove
  <2>6. ReportInv(q, "end")'
    <3>1. hid'.init \in {hid.init, 1} /\ (hid'.init = 1 => hid.init < 2)
      BY <1>5, <2>1
    <3> QED BY <1>2, <1>5, <1>6, <2>2, <3>1, ReportStays
  <2>7. TodoOK("end", <<PopEvent>>, 0)'
    BY <1>3, <1>5, <2>1, <2>3 DEF TodoOK
  <2> QED
    BY <1>3, <1>6, <2>2, <2>4, <2>5, <2>6, <2>7, ThereItIs DEF InvAt
<1>8. CASE times # 0
  <2>1. /\ hid' = [hid EXCEPT !.init = 1]
        /\ dev' = [dev EXCEPT !.waiters = Put(@, "SetProtocol", "hid")]
        /\ todo' = (SetProtocol \o <<ConfigureDrivers(times - 1)>>) \o <<PopEvent>>
    BY <1>3, <1>5, <1>8 DEF ConfiguresDriver
  <2>2. /\ hid'.init = 1 /\ hid'.buf = hid.buf /\ hid'.previous = hid.previous
        /\ hid' = [init |-> hid'.init, buf |-> hid'.buf, previous |-> hid'.previous]
    <3>1. hid = [init |-> hid.init, buf |-> hid.buf, previous |-> hid.previous]
      BY <1>2 DEF RecordsOK
    <3>2. hid' = [init |-> 1, buf |-> hid.buf, previous |-> hid.previous]
      BY ONLY <2>1, <3>1
    <3> QED BY ONLY <3>2
  <2>3. /\ dev'.init = dev.init /\ dev'.eps = dev.eps /\ dev'.config = dev.config
        /\ dev' = [init |-> dev'.init, buf |-> dev'.buf, config |-> dev'.config, eps |-> dev'.eps,
                  waiters |-> dev'.waiters]
    <3>1. dev = [init |-> dev.init, buf |-> dev.buf, config |-> dev.config, eps |-> dev.eps,
                 waiters |-> dev.waiters]
      BY <1>2 DEF RecordsOK
    <3> DEFINE w == Put(dev.waiters, "SetProtocol", "hid")
    <3>2. dev' = [dev EXCEPT !.waiters = w]
      BY <2>1
    <3> HIDE DEF w
    <3>3. dev' = [init |-> dev.init, buf |-> dev.buf, config |-> dev.config, eps |-> dev.eps,
                 waiters |-> w]
      BY ONLY <3>1, <3>2
    <3> QED BY ONLY <3>3
  <2>4. RecordsOK' /\ XhcOK'
    BY ONLY <1>2, <1>3, <2>2, <2>3 DEF RecordsOK, XhcOK
  <2>5. portPhase = "Configured"
    BY <1>2, <1>5, <1>8 DEF ControlInv, WhileInitializing, WhileConfiguring, PhaseOK
  <2>6. ElseKept /\ SameReports(q, q)
    BY <1>3, <2>2, <2>3, <2>5 DEF ElseKept, SameReports
  <2>7. KeysInv(q)'
    BY <1>2, <1>3, <2>2, <2>6, KeysStay
  <2>8. ControlInv(q, "setupOut", times - 1)'
    <3>1. ControlInv(q, "end", times)
      BY <1>2, <1>5
    <3> QED BY <1>3, <1>6, <1>8, <2>6, <3>1, ConfigureMove
  <2>9. ReportInv(q, "setupOut")'
    <3>1. hid'.init \in {hid.init, 1} /\ (hid'.init = 1 => hid.init < 2) /\ "setupOut" # "report"
      BY <1>5, <2>2
    <3> QED BY <1>2, <1>6, <2>6, <3>1, ReportStays
  <2>10. times - 1 \in Nat
    BY <1>8
  <2>11. /\ Ending(Drivers(times - 1), times - 1) /\ Drivers(times - 1) # << >>
         /\ At(todo', "setupOut", Drivers(times - 1))
    <3>1. /\ Ending(Drivers(times - 1), times - 1)
          /\ At(todo', "setupOut", Drivers(times - 1))
      BY <2>1, <2>10, TodoBegins
    <3> QED BY <3>1, EndIs
  <2>12. q = Unhandled(eventRing', Drivers(times - 1))
    BY <1>1, <1>3, <1>5, <2>11 DEF Unhandled
  <2>13. TodoOK("setupOut", Drivers(times - 1), times - 1)'
    BY <1>3, <1>5, <2>2, <2>11 DEF TodoOK
  <2> QED
    BY <1>3, <1>6, <2>4, <2>7, <2>8, <2>9, <2>12, <2>13, ThereItIs DEF InvAt
<1> QED BY <1>7, <1>8

\* The event that has been handled is taken from the ring.
LEMMA PopsEventKeeps ==
  ASSUME RingsOK, TransfersInv, PopsEvent
  PROVE  RingsOK' /\ TransfersInv' /\ [CR!RingNext]_control /\ [IR!RingNext]_interrupt
<1>1. PICK q \in Seq(AllEvents), pc \in Busy \cup Quiet, times \in Nat, end \in Ends :
        q = Unhandled(eventRing, end) /\ InvAt(q, pc, end, times)
  BY WhereItIs
<1>2. /\ TodoOK(pc, end, times) /\ ControlInv(q, pc, times) /\ ReportInv(q, pc)
  BY <1>1 DEF InvAt
<1>3. /\ control.step = "ready" /\ interrupt.step = "ready" /\ todo # << >>
      /\ Head(todo).do = "pop" /\ todo' = Tail(todo)
      /\ setupMap' = setupMap /\ pushed' = pushed
      /\ control' = control /\ interrupt' = interrupt
      /\ eventRing' = Popped(eventRing) /\ dev' = dev /\ hid' = hid
      /\ portPhase' = portPhase /\ xhc' = xhc /\ keyboard' = keyboard
  BY DEF PopsEvent, Doing, Ready, driverVars
<1>4. RecordsOK' /\ XhcOK' /\ KeysInv(q)' /\ SameReports(q, q) /\ ElseKept
  BY <1>1, <1>3, OthersKept
<1>5. pc = "end" /\ end = <<PopEvent>> /\ times = 0 /\ Tail(todo) = << >> /\ end # << >>
  <2>1. Ending(end, times) /\ At(todo, pc, end)
    BY <1>2 DEF TodoOK
  <2>2. pc = "end" /\ end = <<PopEvent>> /\ times = 0 /\ Tail(todo) = << >>
    BY <1>3, <2>1, NextThings
  <2> QED BY <2>2
<1>6. q = Unhandled(eventRing', << >>) /\ CR!EventInv'
  <2>1. Pending(eventRing) # << >>
    BY <1>2, <1>5 DEF TodoOK
  <2> QED BY <1>1, <1>3, <1>5, <2>1, QueuePopped
<1>7. /\ RingsOK' /\ Stays(control, control') /\ Stays(interrupt, interrupt')
      /\ PlacesOK(control) /\ PlacesOK(interrupt)
  BY <1>3, <1>6, RingFacts, ControlKept, InterruptKept DEF RingsOK, Stays
<1>8. ControlInv(q, "end", 0)'
  <2>1. ControlInv(q, "end", 0) /\ 0 \in Nat
    BY <1>2, <1>5
  <2>2. /\ "end" = "end" /\ portPhase # "Configured" => "end" \in {"end", "end"}
        /\ xhc'.request = xhc.request /\ xhc'.halted = xhc.halted
    BY <1>3
  <2> QED BY <1>3, <1>4, <1>7, <2>1, <2>2, FewerSame, ElsewhereMove
<1>9. ReportInv(q, "end")'
  <2>1. hid'.init \in {hid.init, 1} /\ (hid'.init = 1 => hid.init < 2)
    BY <1>3
  <2> QED BY <1>2, <1>4, <1>5, <1>7, <2>1, ReportStays
<1>10. TodoOK("end", << >>, 0)'
  <2>1. Ending(<< >>, 0) /\ At(<< >>, "end", << >>) /\ << >> # Drivers(0)
    <3>1. At(<< >>, "end", << >>)
      BY DEF At
    <3> QED BY <3>1, TodoBegins, EndIs
  <2> QED BY <1>3, <1>5, <2>1 DEF TodoOK
<1> QED
  BY <1>3, <1>4, <1>6, <1>7, <1>8, <1>9, <1>10, ThereItIs DEF InvAt

----------------------------------------------------------------------------
(* The steps of the controller and the keyboard.                           *)

\* What the controller does is no step of Push.
LEMMA FetchKeepsStep ==
  ASSUME NEW T, NEW r, RingOK(r, T)
  PROVE  FollowLink(r).step = r.step /\ Take(r).step = r.step
BY DEF RingOK, FollowLink, Take

\* What the driver has to do is left to it.
LEMMA TodoKept ==
  ASSUME NEW pc, NEW end, NEW times, TodoOK(pc, end, times), todo' = todo,
         hid'.init = hid.init, control'.step = control.step, interrupt'.step = interrupt.step,
         Pending(eventRing') # << >> \/ eventRing' = eventRing
  PROVE  TodoOK(pc, end, times)'
BY DEF TodoOK

\* A stage is taken from the control ring.
LEMMA TakesControl ==
  ASSUME RingsOK, HasTrb(control), ~AtLink(control), control' = Take(control)
  PROVE  /\ CR!RingNext /\ CR!RingInv' /\ Takes(control, control', control.deq)
         /\ OnItsWay(control, control.deq) /\ control.deq \in StagePlaces
         /\ NextTrb(control) = control.high[control.deq] /\ NextTrb(control) \in ControlTrbs
         /\ control'.step = control.step
<1>1. CR!RingNext /\ CR!RingInv'
  BY ControlFetches DEF RingsOK
<1>2. RingOK(control, ControlTrbs)
  BY RingFacts
<1>3. control.deq < LinkPlace /\ OnItsWay(control, control.deq) /\ control.deq \in StagePlaces
  BY ControlFinds, TransferPlaces DEF RingsOK, StagePlaces
<1>4. Takes(control, control', control.deq)
  BY ONLY <1>2, <1>3, control' = Take(control), RingTakes
<1>5. NextTrb(control) = control.high[control.deq] /\ NextTrb(control) \in ControlTrbs
  BY <1>2, <1>3 DEF NextTrb, RingOK
<1> QED BY <1>1, <1>2, <1>3, <1>4, <1>5, FetchKeepsStep

\* The controller takes the TRB that asks for a report.
LEMMA TakesInterrupt ==
  ASSUME RingsOK, HasTrb(interrupt), ~AtLink(interrupt), interrupt' = Take(interrupt)
  PROVE  /\ IR!RingNext /\ IR!RingInv' /\ Takes(interrupt, interrupt', interrupt.deq)
         /\ interrupt.deq \in StagePlaces /\ interrupt.high[interrupt.deq] = Normal
         /\ interrupt'.step = interrupt.step
<1>1. IR!RingNext /\ IR!RingInv'
  BY InterruptFetches DEF RingsOK
<1>2. RingOK(interrupt, {Normal})
  BY RingFacts
<1>3. interrupt.deq < LinkPlace /\ OnItsWay(interrupt, interrupt.deq) /\ interrupt.deq \in StagePlaces
  BY InterruptFinds, TransferPlaces DEF RingsOK, StagePlaces
<1>4. Takes(interrupt, interrupt', interrupt.deq)
  BY ONLY <1>2, <1>3, interrupt' = Take(interrupt), RingTakes
<1>5. interrupt.high[interrupt.deq] = Normal
  BY <1>2, <1>3 DEF RingOK
<1> QED BY <1>1, <1>2, <1>3, <1>4, <1>5, FetchKeepsStep

\* The controller finds nothing more in a ring.
LEMMA GoesIdleKeeps ==
  ASSUME RingsOK, TransfersInv, GoesIdle
  PROVE  RingsOK' /\ TransfersInv' /\ [CR!RingNext]_control /\ [IR!RingNext]_interrupt
<1>1. PICK q \in Seq(AllEvents), pc \in Busy \cup Quiet, times \in Nat, end \in Ends :
        q = Unhandled(eventRing, end) /\ InvAt(q, pc, end, times)
  BY WhereItIs
<1>2. /\ TodoOK(pc, end, times) /\ ControlInv(q, pc, times) /\ ReportInv(q, pc)
      /\ RecordsOK /\ XhcOK
  BY <1>1 DEF InvAt
<1>3. /\ todo' = todo /\ setupMap' = setupMap /\ pushed' = pushed
      /\ control' = control /\ interrupt' = interrupt
      /\ eventRing' = eventRing /\ dev' = dev /\ hid' = hid
      /\ portPhase' = portPhase /\ keyboard' = keyboard
      /\ \E e \in {"control", "interrupt"} : xhc' = [xhc EXCEPT !.active = @ \ {e}]
  BY DEF GoesIdle, driverVars
<1>4. KeysInv(q)' /\ SameReports(q, q) /\ ElseKept
  BY <1>1, <1>3, OthersKept
<1>5. /\ RingsOK' /\ Stays(control, control') /\ Stays(interrupt, interrupt')
      /\ PlacesOK(control) /\ PlacesOK(interrupt)
  BY <1>3, RingsUntouched
<1>6. RecordsOK' /\ XhcOK' /\ xhc'.request = xhc.request /\ xhc'.halted = xhc.halted
  <2>1. PICK e \in {"control", "interrupt"} : xhc' = [xhc EXCEPT !.active = @ \ {e}]
    BY <1>3
  <2>2. xhc' = [active |-> xhc.active \ {e}, halted |-> xhc.halted,
                request |-> xhc.request, command |-> xhc.command, failures |-> xhc.failures]
    BY <1>2, <2>1 DEF RecordsOK
  <2>3. /\ xhc'.active = xhc.active \ {e} /\ xhc'.halted = xhc.halted
        /\ xhc'.request = xhc.request
        /\ xhc' = [active |-> xhc'.active, halted |-> xhc'.halted, request |-> xhc'.request,
                   command |-> xhc'.command, failures |-> xhc'.failures]
    BY ONLY <2>2
  <2>4. RecordsOK'
    BY ONLY <1>2, <1>3, <2>3 DEF RecordsOK
  <2> QED BY ONLY <1>2, <2>3, <2>4 DEF XhcOK
<1>7. ControlInv(q, pc, times)'
  <2>1. pc = pc /\ (portPhase # "Configured" => pc \in {pc, "end"})
    OBVIOUS
  <2> QED BY <1>2, <1>3, <1>4, <1>5, <1>6, <2>1, FewerSame, ElsewhereMove
<1>8. ReportInv(q, pc)'
  <2>1. hid'.init \in {hid.init, 1} /\ (hid'.init = 1 => hid.init < 2)
    BY <1>3
  <2> QED BY <1>2, <1>4, <1>5, <2>1, ReportStays
<1>9. TodoOK(pc, end, times)'
  BY <1>2, <1>3, TodoKept
<1> QED
  BY <1>1, <1>3, <1>4, <1>5, <1>6, <1>7, <1>8, <1>9, ThereItIs DEF InvAt

\* The controller follows the link of a ring.
LEMMA FollowsLinkKeeps ==
  ASSUME RingsOK, TransfersInv, FollowsLink
  PROVE  RingsOK' /\ TransfersInv' /\ [CR!RingNext]_control /\ [IR!RingNext]_interrupt
<1>1. PICK q \in Seq(AllEvents), pc \in Busy \cup Quiet, times \in Nat, end \in Ends :
        q = Unhandled(eventRing, end) /\ InvAt(q, pc, end, times)
  BY WhereItIs
<1>2. /\ TodoOK(pc, end, times) /\ ControlInv(q, pc, times) /\ ReportInv(q, pc)
  BY <1>1 DEF InvAt
<1>3. /\ todo' = todo /\ setupMap' = setupMap /\ pushed' = pushed
      /\ eventRing' = eventRing /\ dev' = dev /\ hid' = hid /\ xhc' = xhc
      /\ portPhase' = portPhase /\ keyboard' = keyboard
  BY DEF FollowsLink, driverVars
<1>4. RecordsOK' /\ XhcOK' /\ KeysInv(q)' /\ SameReports(q, q) /\ ElseKept
  BY <1>1, <1>3, OthersKept
<1>5. CR!EventInv'
  BY <1>3, EventsKept DEF RingsOK
<1>6. /\ RingOK(control, ControlTrbs) /\ PlacesOK(control)
      /\ RingOK(interrupt, {Normal}) /\ PlacesOK(interrupt)
  BY RingFacts
<1>7. /\ [CR!RingNext]_control /\ CR!RingInv' /\ Stays(control, control')
      /\ [IR!RingNext]_interrupt /\ IR!RingInv' /\ Stays(interrupt, interrupt')
      /\ control'.step = control.step /\ interrupt'.step = interrupt.step
  <2>1. CASE AtLink(control) /\ control' = FollowLink(control) /\ interrupt' = interrupt
    <3>1. HasTrb(control)
      BY <2>1 DEF AtLink
    <3>2. CR!RingNext /\ CR!RingInv'
      BY <2>1, <3>1, ControlFetches DEF RingsOK
    <3>3. control.deq = LinkPlace /\ control.cycle # control.ccs
      BY <2>1, <3>1, ControlFinds DEF RingsOK
    <3>4. Stays(control, control')
      BY ONLY <1>6, <2>1, <3>3, RingFollows
    <3> QED BY <1>6, <2>1, <3>2, <3>4, InterruptKept, FetchKeepsStep DEF RingsOK, Stays
  <2>2. CASE AtLink(interrupt) /\ interrupt' = FollowLink(interrupt) /\ control' = control
    <3>1. HasTrb(interrupt)
      BY <2>2 DEF AtLink
    <3>2. IR!RingNext /\ IR!RingInv'
      BY <2>2, <3>1, InterruptFetches DEF RingsOK
    <3>3. interrupt.deq = LinkPlace /\ interrupt.cycle # interrupt.ccs
      BY <2>2, <3>1, InterruptFinds DEF RingsOK
    <3>4. Stays(interrupt, interrupt')
      BY ONLY <1>6, <2>2, <3>3, RingFollows
    <3> QED BY <1>6, <2>2, <3>2, <3>4, ControlKept, FetchKeepsStep DEF RingsOK, Stays
  <2> QED BY <2>1, <2>2 DEF FollowsLink
<1>8. ControlInv(q, pc, times)'
  <2>1. /\ pc = pc /\ (portPhase # "Configured" => pc \in {pc, "end"})
        /\ xhc'.request = xhc.request /\ xhc'.halted = xhc.halted
    BY <1>3
  <2> QED BY <1>2, <1>3, <1>4, <1>6, <1>7, <2>1, FewerSame, ElsewhereMove
<1>9. ReportInv(q, pc)'
  <2>1. hid'.init \in {hid.init, 1} /\ (hid'.init = 1 => hid.init < 2)
    BY <1>3
  <2> QED BY <1>2, <1>4, <1>6, <1>7, <2>1, ReportStays
<1>10. TodoOK(pc, end, times)'
  BY <1>2, <1>3, <1>7, TodoKept
<1> QED
  BY <1>1, <1>3, <1>4, <1>5, <1>7, <1>8, <1>9, <1>10, ThereItIs DEF InvAt, RingsOK

\* A stage is taken: what the driver and the other endpoint see is only the event
\* that may be posted.
LEMMA ControlTaken ==
  ASSUME RingsOK, NEW q \in Seq(AllEvents), NEW q1 \in Seq(AllEvents), NEW e \in AllEvents,
         NEW pc, NEW end, NEW times \in Nat, InvAt(q, pc, end, times),
         HasTrb(control), ~AtLink(control), control' = Take(control), interrupt' = interrupt,
         q1 = Unhandled(eventRing', end), CR!EventInv',
         \/ q1 = q /\ eventRing' = eventRing
         \/ Adds(q1, q, e) /\ Pending(eventRing') # << >>,
         e \notin InterruptReports,
         \A p \in StagePlaces : e \in Answers(p) /\ q1 # q =>
           /\ p = control.deq /\ control.high[control.deq] \in Interrupting
           /\ e.request = xhc.request /\ "control" \notin xhc.halted,
         todo' = todo, setupMap' = setupMap, pushed' = pushed, hid' = hid,
         portPhase' = portPhase, keyboard' = keyboard, ElseKept, RecordsOK', XhcOK',
         xhc'.request \in AskedFor,
         control.high[control.deq] \in Setups /\ "control" \notin xhc'.halted
           => xhc'.request = control.high[control.deq].request
  PROVE  RingsOK' /\ TransfersInv' /\ [CR!RingNext]_control /\ [IR!RingNext]_interrupt
<1>1. /\ TodoOK(pc, end, times) /\ ControlInv(q, pc, times) /\ ReportInv(q, pc) /\ KeysInv(q)
  BY DEF InvAt
<1>2. /\ CR!RingNext /\ CR!RingInv' /\ Takes(control, control', control.deq)
      /\ control'.step = control.step
  BY TakesControl
<1>3. IR!RingInv' /\ RingsOK'
  BY <1>2, InterruptKept DEF RingsOK
<1>4. PlacesOK(control) /\ PlacesOK(interrupt) /\ Stays(interrupt, interrupt')
  BY RingFacts, RingStays
<1>5. SameReports(q1, q)
  <2>1. CASE q1 = q
    BY <2>1 DEF SameReports
  <2>2. CASE Adds(q1, q, e)
    BY <2>2, AddedReports
  <2> QED BY <2>1, <2>2
<1>6. ControlInv(q1, pc, times)'
  BY <1>1, <1>2, <1>4, TakesMove
<1>7. ReportInv(q1, pc)'
  <2>1. hid'.init \in {hid.init, 1} /\ (hid'.init = 1 => hid.init < 2)
        /\ (pc = "report" => pc = "report")
    OBVIOUS
  <2> QED BY <1>1, <1>4, <1>5, <2>1, ReportStays
<1>8. KeysInv(q1)'
  BY <1>1, <1>5, KeysStay
<1>9. TodoOK(pc, end, times)'
  BY <1>1, <1>2, TodoKept
<1> QED
  BY <1>2, <1>3, <1>6, <1>7, <1>8, <1>9, ThereItIs DEF InvAt

\* The controller takes a setup stage.
LEMMA TakesSetupKeeps ==
  ASSUME RingsOK, TransfersInv, TakesSetup
  PROVE  RingsOK' /\ TransfersInv' /\ [CR!RingNext]_control /\ [IR!RingNext]_interrupt
<1>1. PICK q \in Seq(AllEvents), pc \in Busy \cup Quiet, times \in Nat, end \in Ends :
        q = Unhandled(eventRing, end) /\ InvAt(q, pc, end, times)
  BY WhereItIs
<1>2. RecordsOK /\ XhcOK
  BY <1>1 DEF InvAt
<1>3. /\ HasTrb(control) /\ NextTrb(control).type = "Setup" /\ control' = Take(control)
      /\ xhc' = [xhc EXCEPT !.request = NextTrb(control).request]
      /\ todo' = todo /\ setupMap' = setupMap /\ pushed' = pushed
      /\ interrupt' = interrupt /\ eventRing' = eventRing /\ dev' = dev /\ hid' = hid
      /\ portPhase' = portPhase /\ keyboard' = keyboard
  BY DEF TakesSetup, AtTrb, driverVars
<1>4. ElseKept
  BY <1>1, <1>3, OthersKept
<1>5. ~AtLink(control)
  BY <1>3, StageKinds DEF AtLink
<1>6. control.deq \in StagePlaces /\ NextTrb(control) = control.high[control.deq]
      /\ NextTrb(control) \in ControlTrbs
  BY <1>3, <1>5, TakesControl
<1>7. NextTrb(control) \in Setups /\ NextTrb(control).request \in Requests
  BY <1>3, <1>6, StagesOfKinds, StageKinds
<1>8. RecordsOK' /\ XhcOK' /\ xhc'.request = NextTrb(control).request
  <2> DEFINE r == NextTrb(control).request
  <2>1. xhc' = [xhc EXCEPT !.request = r]
    BY <1>3
  <2> HIDE DEF r
  <2>2. xhc' = [active |-> xhc.active, halted |-> xhc.halted,
                request |-> r, command |-> xhc.command, failures |-> xhc.failures]
    BY ONLY <1>2, <2>1 DEF RecordsOK
  <2>3. /\ xhc'.active = xhc.active /\ xhc'.halted = xhc.halted
        /\ xhc'.request = r
        /\ xhc' = [active |-> xhc'.active, halted |-> xhc'.halted, request |-> xhc'.request,
                   command |-> xhc'.command, failures |-> xhc'.failures]
    BY ONLY <2>2
  <2>4. RecordsOK' /\ XhcOK'
    BY ONLY <1>2, <1>3, <2>3 DEF RecordsOK, XhcOK
  <2> QED BY ONLY <2>3, <2>4 DEF r
<1>9. CR!EventInv'
  BY <1>3, EventsKept DEF RingsOK
<1>10. q = Unhandled(eventRing', end) /\ (q = q /\ eventRing' = eventRing)
  BY <1>1, <1>3
<1>11. CommandCompletion \in AllEvents /\ CommandCompletion \notin InterruptReports
  BY EventKinds
<1>12. \A p \in StagePlaces : CommandCompletion \in Answers(p) /\ q # q =>
           /\ p = control.deq /\ control.high[control.deq] \in Interrupting
           /\ CommandCompletion.request = xhc.request /\ "control" \notin xhc.halted
  OBVIOUS
<1>13. xhc'.request \in AskedFor
       /\ (control.high[control.deq] \in Setups /\ "control" \notin xhc'.halted
             => xhc'.request = control.high[control.deq].request)
  BY <1>6, <1>7, <1>8 DEF AskedFor
<1> QED
  BY <1>1, <1>3, <1>4, <1>5, <1>8, <1>9, <1>10, <1>11, <1>12, <1>13, ControlTaken

\* An answer that is posted.
LEMMA CompletesAnswer ==
  ASSUME RingsOK, NEW pc, NEW end, NEW times, TodoOK(pc, end, times),
         NEW endpoint \in {"control", "interrupt"}, NEW place \in StagePlaces, NEW ok \in BOOLEAN,
         xhc.request \in AskedFor, Completes(endpoint, place, ok)
  PROVE  LET e == TransferCompletion(endpoint, place, ok, xhc.request)
         IN  /\ e \in AllEvents /\ e.request = xhc.request /\ e.at = place
             /\ ok /\ endpoint = "control" => e \in Answers(place)
             /\ ok /\ endpoint = "interrupt" => e \in InterruptReports
             /\ ~ok => e \in Failures
             /\ \E q1 \in Seq(AllEvents) :
                  /\ q1 = Unhandled(eventRing', end) /\ Adds(q1, Unhandled(eventRing, end), e)
                  /\ Pending(eventRing') # << >> /\ CR!EventInv'
<1> DEFINE e == TransferCompletion(endpoint, place, ok, xhc.request)
<1>1. HasRoom(eventRing) /\ eventRing' = Posted(eventRing, e)
  BY DEF Completes
<1>2. e.request = xhc.request /\ e.at = place
  BY DEF TransferCompletion
<1>3. ok /\ endpoint = "control" => e \in Answers(place)
  BY DEF Answers
<1>4. ok /\ endpoint = "interrupt" => e \in InterruptReports
  <2>1. TransferCompletion("interrupt", place, TRUE, xhc.request) \in InterruptReports
    BY DEF InterruptReports, TransferCompletion
  <2>2. ok => ok = TRUE
    OBVIOUS
  <2> QED BY <2>1, <2>2
<1>5. ~ok => e \in Failures
  <2>1. TransferCompletion(endpoint, place, FALSE, xhc.request) \in Failures
    BY DEF Failures, TransferCompletion
  <2>2. ~ok => ok = FALSE
    OBVIOUS
  <2> QED BY <2>1, <2>2
<1>6. e \in AllEvents
  BY <1>3, <1>4, <1>5, EventKinds
<1> HIDE DEF e
<1>7. \E q1 \in Seq(AllEvents) :
                  /\ q1 = Unhandled(eventRing', end) /\ Adds(q1, Unhandled(eventRing, end), e)
                  /\ Pending(eventRing') # << >> /\ CR!EventInv'
  BY <1>1, <1>6, QueuePosted
<1> QED BY <1>2, <1>3, <1>4, <1>5, <1>6, <1>7 DEF e

\* The controller takes a data stage.
LEMMA TakesDataKeeps ==
  ASSUME RingsOK, TransfersInv, TakesData
  PROVE  RingsOK' /\ TransfersInv' /\ [CR!RingNext]_control /\ [IR!RingNext]_interrupt
<1>1. PICK q \in Seq(AllEvents), pc \in Busy \cup Quiet, times \in Nat, end \in Ends :
        q = Unhandled(eventRing, end) /\ InvAt(q, pc, end, times)
  BY WhereItIs
<1>2. RecordsOK /\ XhcOK /\ TodoOK(pc, end, times) /\ ControlInv(q, pc, times)
  BY <1>1 DEF InvAt
<1>3. /\ HasTrb(control) /\ NextTrb(control).type = "Data" /\ control' = Take(control)
      /\ "control" \notin xhc.halted /\ Completes("control", control.deq, TRUE)
      /\ \E b : dev' = [dev EXCEPT !.buf = b]
      /\ todo' = todo /\ setupMap' = setupMap /\ pushed' = pushed
      /\ interrupt' = interrupt /\ hid' = hid
      /\ portPhase' = portPhase /\ xhc' = xhc /\ keyboard' = keyboard
  BY DEF TakesData, AtTrb, Runs
<1>4. ~AtLink(control)
  BY <1>3, StageKinds DEF AtLink
<1>5. /\ control.deq \in StagePlaces /\ NextTrb(control) = control.high[control.deq]
      /\ NextTrb(control) \in ControlTrbs
  BY <1>3, <1>4, TakesControl
<1>6. /\ control.high[control.deq] = DataStage /\ control.high[control.deq] \in Interrupting
      /\ control.high[control.deq] \notin Setups
  BY <1>3, <1>5, StagesOfKinds, StageKinds DEF Interrupting
<1>7. xhc.request \in AskedFor
  BY <1>2 DEF ControlInv, StagesOK
<1> DEFINE e == TransferCompletion("control", control.deq, TRUE, xhc.request)
<1>8. /\ e \in AllEvents /\ e.request = xhc.request /\ e \in Answers(control.deq)
      /\ \E q1 \in Seq(AllEvents) :
                  /\ q1 = Unhandled(eventRing', end) /\ Adds(q1, Unhandled(eventRing, end), e)
                  /\ Pending(eventRing') # << >> /\ CR!EventInv'
  BY <1>2, <1>3, <1>5, <1>7, CompletesAnswer
<1> HIDE DEF e
<1>9. PICK q1 \in Seq(AllEvents) :
                  /\ q1 = Unhandled(eventRing', end) /\ Adds(q1, q, e)
                  /\ Pending(eventRing') # << >> /\ CR!EventInv'
  BY <1>1, <1>8
<1>10. e \notin InterruptReports /\ \A p \in StagePlaces : e \in Answers(p) => p = control.deq
  BY <1>5, <1>8, EventKinds
<1>11. RecordsOK' /\ XhcOK' /\ dev'.init = dev.init /\ dev'.eps = dev.eps
       /\ dev'.config = dev.config
  <2>1. PICK b : dev' = [dev EXCEPT !.buf = b]
    BY <1>3
  <2>2. dev' = [init |-> dev.init, buf |-> b, config |-> dev.config, eps |-> dev.eps,
                waiters |-> dev.waiters]
    BY ONLY <1>2, <2>1 DEF RecordsOK
  <2>3. /\ dev'.init = dev.init /\ dev'.eps = dev.eps /\ dev'.config = dev.config
        /\ dev' = [init |-> dev'.init, buf |-> dev'.buf, config |-> dev'.config, eps |-> dev'.eps,
                   waiters |-> dev'.waiters]
    BY ONLY <2>2
  <2>4. RecordsOK' /\ XhcOK'
    BY ONLY <1>2, <1>3, <2>3 DEF RecordsOK, XhcOK
  <2> QED BY <2>3, <2>4
<1>12. ElseKept
  BY <1>2, <1>3, <1>11 DEF ElseKept, ControlInv, PhaseOK
<1>13. \A p \in StagePlaces : e \in Answers(p) /\ q1 # q =>
           /\ p = control.deq /\ control.high[control.deq] \in Interrupting
           /\ e.request = xhc.request /\ "control" \notin xhc.halted
  BY <1>3, <1>6, <1>8, <1>10
<1>14. xhc'.request \in AskedFor
       /\ (control.high[control.deq] \in Setups /\ "control" \notin xhc'.halted
             => xhc'.request = control.high[control.deq].request)
  BY <1>3, <1>6, <1>7
<1> QED
  BY <1>1, <1>3, <1>4, <1>8, <1>9, <1>10, <1>11, <1>12, <1>13, <1>14, ControlTaken

\* The controller takes a status stage.
LEMMA TakesStatusKeeps ==
  ASSUME RingsOK, TransfersInv, TakesStatus
  PROVE  RingsOK' /\ TransfersInv' /\ [CR!RingNext]_control /\ [IR!RingNext]_interrupt
<1>1. PICK q \in Seq(AllEvents), pc \in Busy \cup Quiet, times \in Nat, end \in Ends :
        q = Unhandled(eventRing, end) /\ InvAt(q, pc, end, times)
  BY WhereItIs
<1>2. RecordsOK /\ XhcOK /\ TodoOK(pc, end, times) /\ ControlInv(q, pc, times)
  BY <1>1 DEF InvAt
<1>3. /\ HasTrb(control) /\ NextTrb(control).type = "Status" /\ control' = Take(control)
      /\ "control" \notin xhc.halted
      /\ IF NextTrb(control).ioc THEN Completes("control", control.deq, TRUE)
         ELSE eventRing' = eventRing
      /\ todo' = todo /\ setupMap' = setupMap /\ pushed' = pushed /\ dev' = dev
      /\ interrupt' = interrupt /\ hid' = hid
      /\ portPhase' = portPhase /\ xhc' = xhc /\ keyboard' = keyboard
  BY DEF TakesStatus, AtTrb, Runs, driverVars
<1>4. ~AtLink(control)
  BY <1>3, StageKinds DEF AtLink
<1>5. /\ control.deq \in StagePlaces /\ NextTrb(control) = control.high[control.deq]
      /\ NextTrb(control) \in ControlTrbs
  BY <1>3, <1>4, TakesControl
<1>6. /\ control.high[control.deq] \in Statuses /\ control.high[control.deq] \notin Setups
      /\ NextTrb(control).ioc => control.high[control.deq] \in Interrupting
  BY <1>3, <1>5, StagesOfKinds, StageKinds DEF Interrupting, Statuses
<1>7. xhc.request \in AskedFor
  BY <1>2 DEF ControlInv, StagesOK
<1>8. ElseKept /\ RecordsOK' /\ XhcOK'
  BY <1>1, <1>3, OthersKept
<1>9. xhc'.request \in AskedFor
       /\ (control.high[control.deq] \in Setups /\ "control" \notin xhc'.halted
             => xhc'.request = control.high[control.deq].request)
  BY <1>3, <1>6, <1>7
<1>10. CASE NextTrb(control).ioc
  <2>1. Completes("control", control.deq, TRUE)
    BY <1>3, <1>10
  <2> DEFINE e == TransferCompletion("control", control.deq, TRUE, xhc.request)
  <2>2. /\ e \in AllEvents /\ e.request = xhc.request /\ e \in Answers(control.deq)
        /\ \E q1 \in Seq(AllEvents) :
                  /\ q1 = Unhandled(eventRing', end) /\ Adds(q1, Unhandled(eventRing, end), e)
                  /\ Pending(eventRing') # << >> /\ CR!EventInv'
    BY <1>2, <1>5, <1>7, <2>1, CompletesAnswer
  <2> HIDE DEF e
  <2>3. PICK q1 \in Seq(AllEvents) :
                  /\ q1 = Unhandled(eventRing', end) /\ Adds(q1, q, e)
                  /\ Pending(eventRing') # << >> /\ CR!EventInv'
    BY <1>1, <2>2
  <2>4. e \notin InterruptReports /\ \A p \in StagePlaces : e \in Answers(p) => p = control.deq
    BY <1>5, <2>2, EventKinds
  <2>5. \A p \in StagePlaces : e \in Answers(p) /\ q1 # q =>
           /\ p = control.deq /\ control.high[control.deq] \in Interrupting
           /\ e.request = xhc.request /\ "control" \notin xhc.halted
    BY <1>3, <1>6, <1>10, <2>2, <2>4
  <2> QED
    BY <1>1, <1>3, <1>4, <1>8, <1>9, <2>2, <2>3, <2>4, <2>5, ControlTaken
<1>11. CASE ~NextTrb(control).ioc
  <2>1. eventRing' = eventRing
    BY <1>3, <1>11
  <2>2. CR!EventInv'
    BY <2>1, EventsKept DEF RingsOK
  <2>3. q = Unhandled(eventRing', end) /\ (q = q /\ eventRing' = eventRing)
    BY <1>1, <2>1
  <2>4. CommandCompletion \in AllEvents /\ CommandCompletion \notin InterruptReports
    BY EventKinds
  <2>5. \A p \in StagePlaces : CommandCompletion \in Answers(p) /\ q # q =>
           /\ p = control.deq /\ control.high[control.deq] \in Interrupting
           /\ CommandCompletion.request = xhc.request /\ "control" \notin xhc.halted
    OBVIOUS
  <2> QED
    BY <1>1, <1>3, <1>4, <1>8, <1>9, <2>2, <2>3, <2>4, <2>5, ControlTaken
<1> QED BY <1>10, <1>11

\* The transfer of a report is taken.
LEMMA InterruptTaken ==
  ASSUME RingsOK, NEW q \in Seq(AllEvents), NEW q1 \in Seq(AllEvents), NEW e \in AllEvents,
         NEW pc, NEW end, NEW times \in Nat, InvAt(q, pc, end, times),
         HasTrb(interrupt), ~AtLink(interrupt), interrupt' = Take(interrupt), control' = control,
         q1 = Unhandled(eventRing', end), CR!EventInv',
         Adds(q1, q, e), Pending(eventRing') # << >>,
         \A p \in StagePlaces : e \notin Answers(p),
         e \in InterruptReports => e.at = interrupt.deq,
         todo' = todo, setupMap' = setupMap, pushed' = pushed, dev' = dev,
         hid'.init = hid.init, portPhase' = portPhase, RecordsOK', XhcOK',
         ReportsIn(q) = 0 => KeysInv(q1)',
         xhc'.request = xhc.request, "control" \in xhc.halted => "control" \in xhc'.halted
  PROVE  RingsOK' /\ TransfersInv' /\ [CR!RingNext]_control /\ [IR!RingNext]_interrupt
<1>1. TodoOK(pc, end, times) /\ ControlInv(q, pc, times) /\ ReportInv(q, pc)
  BY DEF InvAt
<1>2. /\ IR!RingNext /\ IR!RingInv' /\ Takes(interrupt, interrupt', interrupt.deq)
      /\ interrupt'.step = interrupt.step /\ interrupt.high[interrupt.deq] = Normal
  BY TakesInterrupt
<1>3. CR!RingInv' /\ RingsOK'
  BY <1>2, ControlKept DEF RingsOK
<1>4. PlacesOK(control) /\ PlacesOK(interrupt) /\ Stays(control, control')
  BY RingFacts, RingStays
<1>5. Fewer(q1, q)
  <2>1. \A p \in StagePlaces : AnswersIn(q, p) \in Nat
    BY <1>1 DEF ControlInv, AnswersOK
  <2>2. \A p \in StagePlaces : AnswersIn(q1, p) = AnswersIn(q, p)
    BY DEF Adds, AnswersIn
  <2>3. \A p \in StagePlaces : Answers(p) \cap ToSet(q1) \subseteq ToSet(q)
    BY DEF Adds
  <2> QED BY <2>1, <2>2, <2>3 DEF Fewer
<1>6. ElseKept
  BY <1>1 DEF ElseKept, ControlInv, PhaseOK
<1>7. ControlInv(q1, pc, times)'
  <2>1. pc = pc /\ (portPhase # "Configured" => pc \in {pc, "end"})
    OBVIOUS
  <2> QED BY <1>1, <1>4, <1>5, <1>6, <2>1, ElsewhereMove
<1>8. ReportsIn(q) = 0 /\ ReportInv(q1, pc)'
  BY <1>1, <1>2, <1>4, ReportTaken
<1>9. TodoOK(pc, end, times)'
  BY <1>1, <1>2, TodoKept
<1> QED
  BY <1>2, <1>3, <1>7, <1>8, <1>9, ThereItIs DEF InvAt

\* The controller executes the command.
LEMMA ExecutesCommandKeeps ==
  ASSUME RingsOK, TransfersInv, ExecutesCommand
  PROVE  RingsOK' /\ TransfersInv' /\ [CR!RingNext]_control /\ [IR!RingNext]_interrupt
<1>1. PICK q \in Seq(AllEvents), pc \in Busy \cup Quiet, times \in Nat, end \in Ends :
        q = Unhandled(eventRing, end) /\ InvAt(q, pc, end, times)
  BY WhereItIs
<1>2. /\ RecordsOK /\ XhcOK /\ TodoOK(pc, end, times) /\ ControlInv(q, pc, times)
      /\ ReportInv(q, pc) /\ KeysInv(q)
  BY <1>1 DEF InvAt
<1>3. /\ HasRoom(eventRing) /\ eventRing' = Posted(eventRing, CommandCompletion)
      /\ xhc' = [xhc EXCEPT !.command = FALSE]
      /\ todo' = todo /\ setupMap' = setupMap /\ pushed' = pushed
      /\ control' = control /\ interrupt' = interrupt /\ dev' = dev /\ hid' = hid
      /\ portPhase' = portPhase /\ keyboard' = keyboard
  BY DEF ExecutesCommand, driverVars
<1>4. /\ CommandCompletion \in AllEvents /\ CommandCompletion \notin InterruptReports
      /\ \A p \in StagePlaces : CommandCompletion \notin Answers(p)
  BY EventKinds
<1>5. PICK q1 \in Seq(AllEvents) :
           /\ q1 = Unhandled(eventRing', end) /\ Adds(q1, q, CommandCompletion)
           /\ Pending(eventRing') # << >> /\ CR!EventInv'
  BY <1>1, <1>2, <1>3, <1>4, QueuePosted
<1>6. SameReports(q1, q)
  BY <1>4, <1>5, AddedReports
<1>7. Fewer(q1, q)
  <2>1. \A p \in StagePlaces : AnswersIn(q, p) \in Nat
    BY <1>2 DEF ControlInv, AnswersOK
  <2>2. \A p \in StagePlaces : AnswersIn(q1, p) = AnswersIn(q, p)
    BY <1>4, <1>5 DEF Adds, AnswersIn
  <2>3. \A p \in StagePlaces : Answers(p) \cap ToSet(q1) \subseteq ToSet(q)
    BY <1>4, <1>5 DEF Adds
  <2> QED BY <2>1, <2>2, <2>3 DEF Fewer
<1>8. ElseKept
  BY <1>1, <1>3, OthersKept
<1>9. /\ PlacesOK(control) /\ PlacesOK(interrupt) /\ RingsOK'
      /\ Stays(control, control') /\ Stays(interrupt, interrupt')
  BY <1>3, <1>5, RingFacts, ControlKept, InterruptKept DEF RingsOK, Stays
<1>10. RecordsOK' /\ XhcOK' /\ xhc'.request = xhc.request /\ xhc'.halted = xhc.halted
  <2>1. xhc' = [active |-> xhc.active, halted |-> xhc.halted,
                request |-> xhc.request, command |-> FALSE, failures |-> xhc.failures]
    BY ONLY <1>2, <1>3 DEF RecordsOK
  <2>2. /\ xhc'.active = xhc.active /\ xhc'.halted = xhc.halted
        /\ xhc'.request = xhc.request
        /\ xhc' = [active |-> xhc'.active, halted |-> xhc'.halted, request |-> xhc'.request,
                   command |-> xhc'.command, failures |-> xhc'.failures]
    BY ONLY <2>1
  <2>3. RecordsOK' /\ XhcOK'
    BY ONLY <1>2, <1>3, <2>2 DEF RecordsOK, XhcOK
  <2> QED BY <2>2, <2>3
<1>11. ControlInv(q1, pc, times)'
  <2>1. pc = pc /\ (portPhase # "Configured" => pc \in {pc, "end"})
    OBVIOUS
  <2> QED BY <1>2, <1>3, <1>7, <1>8, <1>9, <1>10, <2>1, ElsewhereMove
<1>12. ReportInv(q1, pc)'
  <2>1. hid'.init \in {hid.init, 1} /\ (hid'.init = 1 => hid.init < 2)
        /\ (pc = "report" => pc = "report")
    BY <1>3
  <2> QED BY <1>2, <1>6, <1>9, <2>1, ReportStays
<1>13. KeysInv(q1)'
  BY <1>2, <1>3, <1>6, KeysStay
<1>14. TodoOK(pc, end, times)'
  BY <1>2, <1>3, <1>5, TodoKept
<1> QED
  BY <1>3, <1>5, <1>9, <1>10, <1>11, <1>12, <1>13, <1>14, ThereItIs DEF InvAt

\* A transfer fails, and its endpoint halts.
LEMMA TransferFailsKeeps ==
  ASSUME RingsOK, TransfersInv, TransferFails
  PROVE  RingsOK' /\ TransfersInv' /\ [CR!RingNext]_control /\ [IR!RingNext]_interrupt
<1>1. PICK q \in Seq(AllEvents), pc \in Busy \cup Quiet, times \in Nat, end \in Ends :
        q = Unhandled(eventRing, end) /\ InvAt(q, pc, end, times)
  BY WhereItIs
<1>2. /\ RecordsOK /\ XhcOK /\ TodoOK(pc, end, times) /\ ControlInv(q, pc, times) /\ KeysInv(q)
  BY <1>1 DEF InvAt
<1>3. /\ todo' = todo /\ setupMap' = setupMap /\ pushed' = pushed /\ dev' = dev /\ hid' = hid
      /\ portPhase' = portPhase /\ keyboard' = keyboard
  BY DEF TransferFails, driverVars
<1>4. xhc.request \in AskedFor
  BY <1>2 DEF ControlInv, StagesOK
<1>5. ASSUME NEW who \in {"control", "interrupt"},
             xhc' = [xhc EXCEPT !.failures = @ + 1, !.halted = @ \cup {who}]
      PROVE  /\ RecordsOK' /\ XhcOK' /\ xhc'.request = xhc.request
             /\ xhc'.halted = xhc.halted \cup {who}
  <2> DEFINE n == xhc.failures + 1
  <2>1. xhc' = [xhc EXCEPT !.failures = n, !.halted = xhc.halted \cup {who}]
    BY <1>5
  <2> HIDE DEF n
  <2>2. xhc' = [active |-> xhc.active, halted |-> xhc.halted \cup {who},
                request |-> xhc.request, command |-> xhc.command, failures |-> n]
    BY ONLY <1>2, <2>1 DEF RecordsOK
  <2>3. /\ xhc'.active = xhc.active /\ xhc'.halted = xhc.halted \cup {who}
        /\ xhc'.request = xhc.request
        /\ xhc' = [active |-> xhc'.active, halted |-> xhc'.halted, request |-> xhc'.request,
                   command |-> xhc'.command, failures |-> xhc'.failures]
    BY ONLY <2>2
  <2>4. RecordsOK' /\ XhcOK'
    BY ONLY <1>2, <1>3, <2>3, who \in {"control", "interrupt"} DEF RecordsOK, XhcOK
  <2> QED BY <2>3, <2>4
<1>6. CASE /\ HasTrb(control) /\ ~AtLink(control)
           /\ Completes("control", control.deq, FALSE)
           /\ control' = Take(control)
           /\ xhc' = [xhc EXCEPT !.failures = @ + 1, !.halted = @ \cup {"control"}]
           /\ interrupt' = interrupt
  <2>1. control.deq \in StagePlaces
    BY <1>6, TakesControl
  <2> DEFINE e == TransferCompletion("control", control.deq, FALSE, xhc.request)
  <2>2. /\ e \in AllEvents /\ e \in Failures
        /\ \E q1 \in Seq(AllEvents) :
                  /\ q1 = Unhandled(eventRing', end) /\ Adds(q1, Unhandled(eventRing, end), e)
                  /\ Pending(eventRing') # << >> /\ CR!EventInv'
    BY <1>2, <1>4, <1>6, <2>1, CompletesAnswer
  <2> HIDE DEF e
  <2>3. PICK q1 \in Seq(AllEvents) :
                  /\ q1 = Unhandled(eventRing', end) /\ Adds(q1, q, e)
                  /\ Pending(eventRing') # << >> /\ CR!EventInv'
    BY <1>1, <2>2
  <2>4. e \notin InterruptReports /\ \A p \in StagePlaces : e \notin Answers(p)
    BY <2>2, EventKinds
  <2>5. /\ RecordsOK' /\ XhcOK' /\ xhc'.request = xhc.request
        /\ xhc'.halted = xhc.halted \cup {"control"}
    BY <1>5, <1>6
  <2>6. ElseKept
    BY <1>1, <1>3, OthersKept
  <2>7. \A p \in StagePlaces : e \in Answers(p) /\ q1 # q =>
           /\ p = control.deq /\ control.high[control.deq] \in Interrupting
           /\ e.request = xhc.request /\ "control" \notin xhc.halted
    BY <2>4
  <2>8. xhc'.request \in AskedFor
       /\ (control.high[control.deq] \in Setups /\ "control" \notin xhc'.halted
             => xhc'.request = control.high[control.deq].request)
    BY <1>4, <2>5
  <2> QED
    BY <1>1, <1>3, <1>6, <2>2, <2>3, <2>4, <2>5, <2>6, <2>7, <2>8, ControlTaken
<1>7. CASE /\ HasTrb(interrupt) /\ ~AtLink(interrupt)
           /\ Completes("interrupt", interrupt.deq, FALSE)
           /\ interrupt' = Take(interrupt)
           /\ xhc' = [xhc EXCEPT !.failures = @ + 1, !.halted = @ \cup {"interrupt"}]
           /\ control' = control
  <2>1. interrupt.deq \in StagePlaces
    BY <1>7, TakesInterrupt
  <2> DEFINE e == TransferCompletion("interrupt", interrupt.deq, FALSE, xhc.request)
  <2>2. /\ e \in AllEvents /\ e \in Failures
        /\ \E q1 \in Seq(AllEvents) :
                  /\ q1 = Unhandled(eventRing', end) /\ Adds(q1, Unhandled(eventRing, end), e)
                  /\ Pending(eventRing') # << >> /\ CR!EventInv'
    BY <1>2, <1>4, <1>7, <2>1, CompletesAnswer
  <2> HIDE DEF e
  <2>3. PICK q1 \in Seq(AllEvents) :
                  /\ q1 = Unhandled(eventRing', end) /\ Adds(q1, q, e)
                  /\ Pending(eventRing') # << >> /\ CR!EventInv'
    BY <1>1, <2>2
  <2>4. e \notin InterruptReports /\ \A p \in StagePlaces : e \notin Answers(p)
    BY <2>2, EventKinds
  <2>5. /\ RecordsOK' /\ XhcOK' /\ xhc'.request = xhc.request
        /\ ("control" \in xhc.halted => "control" \in xhc'.halted)
    BY <1>5, <1>7
  <2>6. KeysInv(q1)'
    <3>1. SameReports(q1, q)
      BY <2>3, <2>4, AddedReports
    <3> QED BY <1>2, <1>3, <3>1, KeysStay
  <2>7. (e \in InterruptReports => e.at = interrupt.deq) /\ hid'.init = hid.init
    BY <1>3, <2>4
  <2> QED
    BY <1>1, <1>3, <1>7, <2>2, <2>3, <2>4, <2>5, <2>6, <2>7, InterruptTaken
<1> QED BY <1>6, <1>7 DEF TransferFails

\* The keyboard reports.
LEMMA ReportsKeeps ==
  ASSUME RingsOK, TransfersInv, Reports
  PROVE  RingsOK' /\ TransfersInv' /\ [CR!RingNext]_control /\ [IR!RingNext]_interrupt
<1>1. PICK q \in Seq(AllEvents), pc \in Busy \cup Quiet, times \in Nat, end \in Ends :
        q = Unhandled(eventRing, end) /\ InvAt(q, pc, end, times)
  BY WhereItIs
<1>2. /\ RecordsOK /\ XhcOK /\ TodoOK(pc, end, times) /\ ControlInv(q, pc, times) /\ KeysInv(q)
  BY <1>1 DEF InvAt
<1> DEFINE tooMany == Cardinality(keyboard.down) > KeySlots
           b == IF tooMany THEN {RollOver} ELSE keyboard.down
           rolled == keyboard.rolled \/ tooMany
<1>3. /\ HasTrb(interrupt) /\ ~AtLink(interrupt) /\ interrupt' = Take(interrupt)
      /\ Completes("interrupt", interrupt.deq, TRUE)
      /\ todo' = todo /\ setupMap' = setupMap /\ pushed' = pushed
      /\ control' = control /\ dev' = dev
      /\ hid' = [hid EXCEPT !.buf = b]
      /\ keyboard' = [keyboard EXCEPT !.changed = FALSE, !.rolled = rolled]
      /\ portPhase' = portPhase /\ xhc' = xhc
  BY DEF Reports
<1>4. tooMany \in BOOLEAN
  OBVIOUS
<1>5. PICK many \in BOOLEAN : /\ b = IF many THEN {RollOver} ELSE keyboard.down
                              /\ rolled = (keyboard.rolled \/ many)
  BY <1>4
<1> HIDE DEF tooMany, b, rolled
<1>6. xhc.request \in AskedFor
  BY <1>2 DEF ControlInv, StagesOK
<1>7. interrupt.deq \in StagePlaces
  BY <1>3, TakesInterrupt
<1> DEFINE e == TransferCompletion("interrupt", interrupt.deq, TRUE, xhc.request)
<1>8. /\ e \in AllEvents /\ e \in InterruptReports /\ e.at = interrupt.deq
      /\ \E q1 \in Seq(AllEvents) :
                  /\ q1 = Unhandled(eventRing', end) /\ Adds(q1, Unhandled(eventRing, end), e)
                  /\ Pending(eventRing') # << >> /\ CR!EventInv'
  BY <1>2, <1>3, <1>6, <1>7, CompletesAnswer
<1> HIDE DEF e
<1>9. PICK q1 \in Seq(AllEvents) :
                  /\ q1 = Unhandled(eventRing', end) /\ Adds(q1, q, e)
                  /\ Pending(eventRing') # << >> /\ CR!EventInv'
  BY <1>1, <1>8
<1>10. \A p \in StagePlaces : e \notin Answers(p)
  BY <1>8, EventKinds
<1>11. /\ hid'.init = hid.init /\ hid'.buf = b /\ hid'.previous = hid.previous
       /\ hid' = [init |-> hid'.init, buf |-> hid'.buf, previous |-> hid'.previous]
  <2>1. hid' = [init |-> hid.init, buf |-> b, previous |-> hid.previous]
    BY ONLY <1>2, <1>3 DEF RecordsOK
  <2> QED BY ONLY <2>1
<1>12. /\ keyboard'.down = keyboard.down /\ keyboard'.pressed = keyboard.pressed
       /\ keyboard'.told = keyboard.told /\ keyboard'.changed = FALSE
       /\ keyboard'.rolled = rolled
       /\ keyboard' = [down |-> keyboard'.down, changed |-> keyboard'.changed,
                       rolled |-> keyboard'.rolled, changes |-> keyboard'.changes,
                       pressed |-> keyboard'.pressed, told |-> keyboard'.told]
  <2>1. keyboard' = [down |-> keyboard.down, changed |-> FALSE,
                       rolled |-> rolled, changes |-> keyboard.changes,
                       pressed |-> keyboard.pressed, told |-> keyboard.told]
    BY ONLY <1>2, <1>3 DEF RecordsOK
  <2> QED BY ONLY <2>1
<1>13. RecordsOK' /\ XhcOK'
  BY ONLY <1>2, <1>3, <1>11, <1>12 DEF RecordsOK, XhcOK
<1>14. ReportsIn(q) = 0 => KeysInv(q1)'
  <2>1. ReportsIn(q) = 0 => ReportsIn(q1) # 0
    BY <1>8, <1>9, AddedReports
  <2> QED BY <1>2, <1>5, <1>11, <1>12, <2>1, KeysReported
<1>15. /\ xhc'.request = xhc.request
       /\ ("control" \in xhc.halted => "control" \in xhc'.halted)
       /\ (e \in InterruptReports => e.at = interrupt.deq)
  BY <1>3, <1>8
<1> QED
  BY <1>1, <1>3, <1>8, <1>9, <1>10, <1>11, <1>13, <1>14, <1>15, InterruptTaken

\* A key is pressed or released.
LEMMA TypesKeeps ==
  ASSUME RingsOK, TransfersInv, NEW k \in Keys, Types(k)
  PROVE  RingsOK' /\ TransfersInv' /\ [CR!RingNext]_control /\ [IR!RingNext]_interrupt
<1>1. PICK q \in Seq(AllEvents), pc \in Busy \cup Quiet, times \in Nat, end \in Ends :
        q = Unhandled(eventRing, end) /\ InvAt(q, pc, end, times)
  BY WhereItIs
<1>2. /\ RecordsOK /\ XhcOK /\ TodoOK(pc, end, times) /\ ControlInv(q, pc, times)
      /\ ReportInv(q, pc) /\ KeysInv(q)
  BY <1>1 DEF InvAt
<1> DEFINE n == keyboard.changes + 1
           down == IF k \in keyboard.down THEN keyboard.down \ {k} ELSE keyboard.down \cup {k}
           pressed == [keyboard.pressed EXCEPT ![k] = IF k \in keyboard.down THEN @ ELSE @ + 1]
<1>3. /\ ~keyboard.changed
      /\ keyboard' = [keyboard EXCEPT !.changes = n, !.changed = TRUE, !.down = down,
                                      !.pressed[k] = IF k \in keyboard.down THEN @ ELSE @ + 1]
      /\ todo' = todo /\ setupMap' = setupMap /\ pushed' = pushed
      /\ control' = control /\ interrupt' = interrupt /\ eventRing' = eventRing
      /\ dev' = dev /\ hid' = hid /\ portPhase' = portPhase /\ xhc' = xhc
  BY DEF Types, driverVars
<1>4. keyboard' = [keyboard EXCEPT !.changes = n, !.changed = TRUE, !.down = down,
                                   !.pressed = pressed]
  BY <1>3
<1> HIDE DEF n
<1>5. /\ keyboard'.changed = TRUE /\ keyboard'.rolled = keyboard.rolled
      /\ keyboard'.told = keyboard.told /\ keyboard'.down = down /\ keyboard'.pressed = pressed
      /\ keyboard' = [down |-> keyboard'.down, changed |-> keyboard'.changed,
                       rolled |-> keyboard'.rolled, changes |-> keyboard'.changes,
                       pressed |-> keyboard'.pressed, told |-> keyboard'.told]
  <2> HIDE DEF down, pressed
  <2>1. keyboard' = [down |-> down, changed |-> TRUE,
                       rolled |-> keyboard.rolled, changes |-> n,
                       pressed |-> pressed, told |-> keyboard.told]
    BY ONLY <1>2, <1>4 DEF RecordsOK
  <2> QED BY ONLY <2>1
<1>6. RecordsOK' /\ XhcOK'
  <2> HIDE DEF down, pressed
  <2> QED BY ONLY <1>2, <1>3, <1>5 DEF RecordsOK, XhcOK
<1>7. KeysInv(q)'
  BY <1>2, <1>3, <1>5, KeyTyped
<1>8. ElseKept /\ SameReports(q, q)
  BY <1>2, <1>3 DEF ElseKept, SameReports, ControlInv, PhaseOK
<1>9. /\ PlacesOK(control) /\ PlacesOK(interrupt) /\ RingsOK'
      /\ Stays(control, control') /\ Stays(interrupt, interrupt')
  BY <1>3, RingsUntouched
<1>10. ControlInv(q, pc, times)'
  <2>1. /\ pc = pc /\ (portPhase # "Configured" => pc \in {pc, "end"})
        /\ xhc'.request = xhc.request /\ ("control" \in xhc.halted => "control" \in xhc'.halted)
    BY <1>3
  <2> QED BY <1>2, <1>3, <1>8, <1>9, <2>1, FewerSame, ElsewhereMove
<1>11. ReportInv(q, pc)'
  <2>1. hid'.init \in {hid.init, 1} /\ (hid'.init = 1 => hid.init < 2)
        /\ (pc = "report" => pc = "report")
    BY <1>3
  <2> QED BY <1>2, <1>8, <1>9, <2>1, ReportStays
<1>12. TodoOK(pc, end, times)'
  BY <1>2, <1>3, TodoKept
<1> QED
  BY <1>1, <1>3, <1>6, <1>7, <1>9, <1>10, <1>11, <1>12, ThereItIs DEF InvAt

----------------------------------------------------------------------------
(* The handlers of the events.                                             *)

\* Between two events there is nothing to do.
LEMMA NothingLeft ==
  ASSUME NEW pc, NEW end, NEW times, TodoOK(pc, end, times), todo = << >>
  PROVE  pc = "end" /\ end = << >> /\ times = 0
<1>1. Ending(end, times) /\ At(todo, pc, end)
  BY DEF TodoOK
<1>2. pc = "end" /\ end = << >>
  BY <1>1, TodoHeads
<1> QED BY <1>1, <1>2, EndIs

\* A handler has gone on to end1, and its event is no longer waiting.
LEMMA HandlerKeeps ==
  ASSUME RingsOK, Ready, HasFront(eventRing), Outside,
         NEW q, q = Unhandled(eventRing, << >>), NEW pc1, NEW end1, NEW times1,
         end1 # << >>, Ending(end1, times1), At(todo', pc1, end1),
         end1 = Drivers(times1) => hid'.init < 2,
         ControlInv(Tail(q), pc1, times1)', ReportInv(Tail(q), pc1)', KeysInv(Tail(q))',
         RecordsOK', XhcOK
  PROVE  RingsOK' /\ TransfersInv' /\ [CR!RingNext]_control /\ [IR!RingNext]_interrupt
<1>1. /\ control' = control /\ interrupt' = interrupt /\ eventRing' = eventRing /\ xhc' = xhc
  BY DEF Outside
<1>2. RingsOK'
  BY <1>1, RingsUntouched
<1>3. Unhandled(eventRing', end1) = Tail(q) /\ Pending(eventRing') # << >>
  <2>1. q = Pending(eventRing) /\ Pending(eventRing) # << >>
    <3>1. Pending(eventRing) # << >>
      BY EventsWaiting DEF RingsOK
    <3> QED BY <3>1 DEF Unhandled
  <2> QED BY <1>1, <2>1 DEF Unhandled
<1>4. TodoOK(pc1, end1, times1)'
  BY <1>1, <1>3 DEF TodoOK, Ready
<1>5. XhcOK'
  BY <1>1 DEF XhcOK
<1> QED BY <1>1, <1>2, <1>3, <1>4, <1>5, ThereItIs DEF InvAt

\* What every handler begins with.
LEMMA HandlerBegins ==
  ASSUME RingsOK, TransfersInv, Ready, todo = << >>, HasFront(eventRing), Outside
  PROVE  \E q \in Seq(AllEvents) :
           /\ q = Unhandled(eventRing, << >>) /\ q # << >> /\ Head(q) = frontEvent
           /\ ControlInv(q, "end", 0) /\ ReportInv(q, "end") /\ KeysInv(q) /\ RecordsOK /\ XhcOK
           /\ Tail(q) \in Seq(AllEvents) /\ frontEvent \in AllEvents /\ frontEvent \in ToSet(q)
           /\ Adds(q, Tail(q), frontEvent) /\ Fewer(Tail(q), q)
<1>1. PICK q \in Seq(AllEvents), pc \in Busy \cup Quiet, times \in Nat, end \in Ends :
        q = Unhandled(eventRing, end) /\ InvAt(q, pc, end, times)
  BY WhereItIs
<1>2. /\ TodoOK(pc, end, times) /\ ControlInv(q, pc, times) /\ ReportInv(q, pc) /\ KeysInv(q)
      /\ RecordsOK /\ XhcOK
  BY <1>1 DEF InvAt
<1>3. pc = "end" /\ end = << >> /\ times = 0
  BY <1>2, NothingLeft
<1>4. q = Unhandled(eventRing, << >>) /\ ControlInv(q, "end", 0) /\ ReportInv(q, "end")
  BY <1>1, <1>2, <1>3
<1>5. q # << >> /\ Head(q) = frontEvent
  <2>1. Pending(eventRing) # << >> /\ Head(Pending(eventRing)) = frontEvent
    BY EventsWaiting DEF RingsOK
  <2> QED BY <1>4, <2>1 DEF Unhandled
<1>6. /\ Tail(q) \in Seq(AllEvents) /\ frontEvent \in AllEvents
      /\ Adds(q, Tail(q), frontEvent) /\ Fewer(Tail(q), q)
  BY <1>5, EventHandled
<1>7. frontEvent \in ToSet(q)
  BY <1>5, TailAdds
<1> QED BY <1>2, <1>4, <1>5, <1>6, <1>7

\* OnEvent, of a transfer that failed.
LEMMA OnTransferFailedKeeps ==
  ASSUME RingsOK, TransfersInv, OnTransferFailed
  PROVE  RingsOK' /\ TransfersInv' /\ [CR!RingNext]_control /\ [IR!RingNext]_interrupt
<1>1. /\ Ready /\ todo = << >> /\ HasFront(eventRing) /\ Outside
      /\ frontEvent.type = "TransferEvent" /\ ~frontEvent.ok
      /\ todo' = <<PopEvent>> /\ setupMap' = setupMap /\ dev' = dev /\ hid' = hid
      /\ portPhase' = portPhase /\ keyboard' = keyboard
  BY DEF OnTransferFailed, Handles, NothingToDo
<1>2. PICK q \in Seq(AllEvents) :
           /\ q = Unhandled(eventRing, << >>) /\ q # << >> /\ Head(q) = frontEvent
           /\ ControlInv(q, "end", 0) /\ ReportInv(q, "end") /\ KeysInv(q) /\ RecordsOK /\ XhcOK
           /\ Tail(q) \in Seq(AllEvents) /\ frontEvent \in AllEvents /\ frontEvent \in ToSet(q)
           /\ Adds(q, Tail(q), frontEvent) /\ Fewer(Tail(q), q)
  BY <1>1, HandlerBegins
<1>3. /\ control' = control /\ interrupt' = interrupt /\ eventRing' = eventRing /\ xhc' = xhc
      /\ pushed' = pushed
  BY <1>1 DEF Outside
<1>4. frontEvent \notin InterruptReports
  BY <1>1, <1>2, EventsOfKinds, EventKinds
<1>5. SameReports(Tail(q), q)
  BY <1>2, <1>4, AddedReports
<1>6. /\ PlacesOK(control) /\ PlacesOK(interrupt)
      /\ Stays(control, control') /\ Stays(interrupt, interrupt')
  BY <1>3, RingsUntouched
<1>7. ElseKept
  BY <1>1, <1>2 DEF ElseKept, ControlInv, PhaseOK
<1>8. ControlInv(Tail(q), "end", 0)'
  <2>1. /\ "end" = "end" /\ (portPhase # "Configured" => "end" \in {"end", "end"}) /\ 0 \in Nat
        /\ xhc'.request = xhc.request /\ ("control" \in xhc.halted => "control" \in xhc'.halted)
    BY <1>3
  <2> QED BY <1>1, <1>2, <1>3, <1>6, <1>7, <2>1, ElsewhereMove
<1>9. ReportInv(Tail(q), "end")'
  <2>1. hid'.init \in {hid.init, 1} /\ (hid'.init = 1 => hid.init < 2)
        /\ ("end" = "report" => "end" = "report")
    BY <1>1
  <2> QED BY <1>2, <1>5, <1>6, <2>1, ReportStays
<1>10. KeysInv(Tail(q))'
  BY <1>1, <1>2, <1>5, KeysStay
<1>11. RecordsOK'
  BY <1>1, <1>2, <1>3 DEF RecordsOK
<1>12. /\ <<PopEvent>> # << >> /\ Ending(<<PopEvent>>, 0) /\ <<PopEvent>> # Drivers(0)
       /\ At(todo', "end", <<PopEvent>>)
  <2>1. Ending(<<PopEvent>>, 0) /\ At(<<PopEvent>>, "end", <<PopEvent>>)
    BY TodoBegins
  <2> QED BY <1>1, <2>1, EndIs
<1> QED BY <1>1, <1>2, <1>8, <1>9, <1>10, <1>11, <1>12, HandlerKeeps

\* OnEvent, of a report.
LEMMA OnReportKeeps ==
  ASSUME RingsOK, TransfersInv, OnReport
  PROVE  RingsOK' /\ TransfersInv' /\ [CR!RingNext]_control /\ [IR!RingNext]_interrupt
<1> DEFINE told == [k \in Keys |-> IF k \in hid.buf \ hid.previous THEN keyboard.told[k] + 1
                                   ELSE keyboard.told[k]]
<1>1. /\ Ready /\ todo = << >> /\ HasFront(eventRing) /\ Outside
      /\ frontEvent.type = "TransferEvent" /\ frontEvent.ok /\ Issuer(frontEvent).type = "Normal"
      /\ todo' = InterruptIn \o <<PopEvent>> /\ setupMap' = setupMap /\ dev' = dev
      /\ hid' = [hid EXCEPT !.previous = hid.buf] /\ portPhase' = portPhase
      /\ keyboard' = [keyboard EXCEPT !.told =
                    [k \in Keys |-> IF k \in hid.buf \ hid.previous THEN @[k] + 1 ELSE @[k]]]
      /\ keyboard' = [keyboard EXCEPT !.told = told]
  BY DEF OnReport, Handles, ThenPop
<1> HIDE DEF told
<1>2. PICK q \in Seq(AllEvents) :
           /\ q = Unhandled(eventRing, << >>) /\ q # << >> /\ Head(q) = frontEvent
           /\ ControlInv(q, "end", 0) /\ ReportInv(q, "end") /\ KeysInv(q) /\ RecordsOK /\ XhcOK
           /\ Tail(q) \in Seq(AllEvents) /\ frontEvent \in AllEvents /\ frontEvent \in ToSet(q)
           /\ Adds(q, Tail(q), frontEvent) /\ Fewer(Tail(q), q)
  BY <1>1, HandlerBegins
<1>3. /\ control' = control /\ interrupt' = interrupt /\ eventRing' = eventRing /\ xhc' = xhc
      /\ pushed' = pushed
  BY <1>1 DEF Outside
<1>4. /\ PlacesOK(control) /\ PlacesOK(interrupt)
      /\ Stays(control, control') /\ Stays(interrupt, interrupt')
  BY <1>3, RingsUntouched
<1>5. frontEvent \in InterruptReports
  <2>1. ASSUME NEW p \in StagePlaces, frontEvent \in Answers(p) PROVE FALSE
    <3>1. Head(q) \in Answers(p) /\ 0 \in Nat
      BY <1>2, <2>1
    <3>2. TicketOK(p, "end", 0)
      BY <1>2, <1>4, <3>1, AnswerHandled
    <3>3. control.high[p] \in Interrupting /\ Issuer(frontEvent) = control.high[p]
      BY <2>1, <3>2, EventKinds DEF TicketOK, Issuer
    <3>4. \A x \in Interrupting : x.type # "Normal"
      BY StageKinds DEF Interrupting, Statuses
    <3> QED BY <1>1, <3>3, <3>4
  <2> QED BY <1>1, <1>2, <2>1, EventsOfKinds
<1>6. hid.init = 2 /\ portPhase = "Configured"
  <2>1. ReportsIn(q) # 0
    BY <1>2, <1>5, ReportsAre
  <2>2. hid.init \in 0 .. 2
    BY <1>2 DEF ControlInv, PhaseOK
  <2>3. hid.init = 2
    BY <1>2, <2>1, <2>2 DEF ReportInv
  <2> QED BY <1>2, <2>3 DEF ControlInv, PhaseOK, WhileInitializing, WhileConfiguring
<1>7. /\ hid'.init = hid.init /\ hid'.buf = hid.buf /\ hid'.previous = hid.buf
      /\ hid' = [init |-> hid'.init, buf |-> hid'.buf, previous |-> hid'.previous]
  <2>1. hid' = [init |-> hid.init, buf |-> hid.buf, previous |-> hid.buf]
    BY ONLY <1>1, <1>2 DEF RecordsOK
  <2> QED BY ONLY <2>1
<1>8. RecordsOK'
  <2>1. keyboard' = [down |-> keyboard.down, changed |-> keyboard.changed,
                       rolled |-> keyboard.rolled, changes |-> keyboard.changes,
                       pressed |-> keyboard.pressed, told |-> told]
    BY ONLY <1>1, <1>2 DEF RecordsOK
  <2>2. keyboard' = [down |-> keyboard'.down, changed |-> keyboard'.changed,
                       rolled |-> keyboard'.rolled, changes |-> keyboard'.changes,
                       pressed |-> keyboard'.pressed, told |-> keyboard'.told]
    BY ONLY <2>1
  <2>3. dev' = dev /\ xhc' = xhc
    BY <1>1, <1>3
  <2> QED BY ONLY <1>2, <1>7, <2>2, <2>3 DEF RecordsOK
<1>9. ElseKept
  BY <1>1, <1>2, <1>7 DEF ElseKept, ControlInv, PhaseOK
<1>10. ControlInv(Tail(q), "report", 0)'
  <2>1. /\ "end" \in Quiet /\ "report" \in Quiet /\ 0 \in Nat
        /\ (portPhase # "Configured" => "report" \in {"end", "end"})
        /\ xhc'.request = xhc.request /\ ("control" \in xhc.halted => "control" \in xhc'.halted)
    BY <1>3, <1>6 DEF Quiet
  <2> QED BY <1>1, <1>2, <1>3, <1>4, <1>9, <2>1, ElsewhereMove
<1>11. ReportInv(Tail(q), "report")'
  BY <1>2, <1>3, <1>4, <1>5, <1>6, <1>7, ReportAsked
<1>12. KeysInv(Tail(q))'
  <2>1. keyboard = [down |-> keyboard.down, changed |-> keyboard.changed,
                     rolled |-> keyboard.rolled, changes |-> keyboard.changes,
                     pressed |-> keyboard.pressed, told |-> keyboard.told]
    BY <1>2 DEF RecordsOK
  <2> QED BY <1>1, <1>2, <1>7, <2>1, KeysTold
<1>13. /\ <<PopEvent>> # << >> /\ Ending(<<PopEvent>>, 0) /\ <<PopEvent>> # Drivers(0)
       /\ At(todo', "report", <<PopEvent>>)
  <2>1. Ending(<<PopEvent>>, 0) /\ At(InterruptIn \o <<PopEvent>>, "report", <<PopEvent>>)
    BY TodoBegins
  <2> QED BY <1>1, <2>1, EndIs
<1> QED BY <1>1, <1>2, <1>8, <1>10, <1>11, <1>12, <1>13, HandlerKeeps

\* CompleteConfiguration, when the endpoints have been configured.
LEMMA CompleteConfigurationKeeps ==
  ASSUME RingsOK, TransfersInv, CompleteConfiguration
  PROVE  RingsOK' /\ TransfersInv' /\ [CR!RingNext]_control /\ [IR!RingNext]_interrupt
<1>0. PICK n : n = Cardinality(Numbers(dev.eps))
  OBVIOUS
<1>1. /\ Ready /\ todo = << >> /\ HasFront(eventRing) /\ Outside
      /\ frontEvent.type = "CommandCompletionEvent" /\ portPhase = "ConfiguringEndpoints"
      /\ todo' = <<ConfigureDrivers(n)>> \o <<PopEvent>> /\ setupMap' = setupMap /\ dev' = dev
      /\ hid' = hid /\ portPhase' = "Configured" /\ keyboard' = keyboard
  BY <1>0 DEF CompleteConfiguration, Handles, ThenPop
<1>2. PICK q \in Seq(AllEvents) :
           /\ q = Unhandled(eventRing, << >>) /\ q # << >> /\ Head(q) = frontEvent
           /\ ControlInv(q, "end", 0) /\ ReportInv(q, "end") /\ KeysInv(q) /\ RecordsOK /\ XhcOK
           /\ Tail(q) \in Seq(AllEvents) /\ frontEvent \in AllEvents /\ frontEvent \in ToSet(q)
           /\ Adds(q, Tail(q), frontEvent) /\ Fewer(Tail(q), q)
  BY <1>1, HandlerBegins
<1>3. /\ control' = control /\ interrupt' = interrupt /\ eventRing' = eventRing /\ xhc' = xhc
      /\ pushed' = pushed
  BY <1>1 DEF Outside
<1>4. /\ PlacesOK(control) /\ PlacesOK(interrupt)
      /\ Stays(control, control') /\ Stays(interrupt, interrupt')
  BY <1>3, RingsUntouched
<1>5. SameReports(Tail(q), q)
  <2>1. frontEvent \notin InterruptReports
    BY <1>1, <1>2, EventsOfKinds, EventKinds
  <2> QED BY <1>2, <2>1, AddedReports
<1>6. n \in Nat /\ hid.init = 0 /\ ControlInv(Tail(q), "end", n)'
  <2>1. ~Copying(control) /\ 0 \in Nat
    BY <1>1 DEF Ready, Copying
  <2> QED BY <1>0, <1>1, <1>2, <1>3, <1>4, <2>1, ConfiguredMove
<1>7. ReportInv(Tail(q), "end")'
  <2>1. hid'.init \in {hid.init, 1} /\ (hid'.init = 1 => hid.init < 2)
        /\ ("end" = "report" => "end" = "report")
    BY <1>1, <1>6
  <2> QED BY <1>2, <1>4, <1>5, <2>1, ReportStays
<1>8. KeysInv(Tail(q))'
  BY <1>1, <1>2, <1>5, KeysStay
<1>9. RecordsOK'
  BY <1>1, <1>2, <1>3 DEF RecordsOK
<1>10. /\ Drivers(n) # << >> /\ Ending(Drivers(n), n) /\ At(todo', "end", Drivers(n))
  <2>1. Ending(Drivers(n), n) /\ At(<<ConfigureDrivers(n)>> \o <<PopEvent>>, "end", Drivers(n))
    BY <1>6, TodoBegins
  <2> QED BY <1>1, <2>1, EndIs
<1>11. hid'.init < 2
  BY <1>1, <1>6
<1> QED BY <1>1, <1>2, <1>6, <1>7, <1>8, <1>9, <1>10, <1>11, HandlerKeeps

\* The completion of a control transfer leads to its setup stage.
LEMMA CompletionIs ==
  ASSUME RingsOK, NEW q \in Seq(AllEvents), q # << >>, Head(q) = frontEvent,
         frontEvent \in AllEvents, frontEvent \in ToSet(q),
         ControlInv(q, "end", 0), ReportInv(q, "end"),
         frontEvent.type = "TransferEvent", frontEvent.ok, Issuer(frontEvent).type # "Normal"
  PROVE  \E p \in StagePlaces :
           /\ Head(q) \in Answers(p) /\ frontEvent.at = p /\ frontEvent \notin InterruptReports
           /\ Issuer(frontEvent) = control.high[p]
           /\ Holding(setupMap, frontEvent.at) # {}
           /\ control.high[Get(setupMap, frontEvent.at)] = control.high[Before(p)]
           /\ control.high[Before(p)] \in Setups
           /\ control.high[p] = DataStage <=> control.high[Before(p)] \in SetupsIn
<1>1. PlacesOK(control) /\ 0 \in Nat
  BY RingFacts
<1>2. frontEvent \notin InterruptReports
  <2>1. ASSUME frontEvent \in InterruptReports PROVE FALSE
    <3>1. interrupt.high[frontEvent.at] = Normal
      BY <2>1 DEF ReportInv
    <3>2. Issuer(frontEvent) = Normal
      BY <2>1, <3>1, EventKinds DEF Issuer
    <3> QED BY <3>2, StageKinds
  <2> QED BY <2>1
<1>3. PICK p \in StagePlaces : frontEvent \in Answers(p)
  BY <1>2, EventsOfKinds
<1>4. frontEvent.at = p /\ Issuer(frontEvent) = control.high[p]
  BY <1>3, EventKinds DEF Issuer
<1>5. TicketOK(p, "end", 0) /\ Holding(setupMap, p) # {} /\ Get(setupMap, p) = Before(p)
  <2>1. Head(q) \in Answers(p)
    BY <1>3
  <2> QED BY <1>1, <2>1, AnswerHandled
<1>6. control.high[p] = DataStage <=> control.high[Before(p)] \in SetupsIn
  BY <1>5, FollowKinds DEF TicketOK
<1> QED BY <1>2, <1>3, <1>4, <1>5, <1>6 DEF TicketOK

\* What the handler may do: nothing more, ask for the first report, or go on with
\* the initialization.
DeviceGoesOn(i, eps) ==
  dev' = [init |-> i, buf |-> dev.buf, config |-> dev.config, eps |-> eps,
          waiters |-> dev.waiters]

CompletionDoes(setup) ==
  \/ /\ dev.init = 4 /\ hid.init = 1 /\ hid' = [hid EXCEPT !.init = 2]
     /\ todo' = InterruptIn \o <<PopEvent>> /\ dev' = dev /\ portPhase' = portPhase
  \/ /\ todo' = <<PopEvent>> \/ todo' = << >> \o <<PopEvent>>
     /\ hid' = hid /\ dev' = dev /\ portPhase' = portPhase
  \/ /\ dev.init = 1 /\ DeviceGoesOn(2, dev.eps)
     /\ todo' = GetDescriptor("GetConfig") \o <<PopEvent>>
     /\ hid' = hid /\ portPhase' = portPhase
  \/ /\ dev.init = 2 /\ DeviceGoesOn(3, EpConfigs(dev.config))
     /\ todo' = SetConfiguration \o <<PopEvent>>
     /\ hid' = hid /\ portPhase' = portPhase
  \/ /\ dev.init = 3 /\ DeviceGoesOn(4, dev.eps) /\ setup.request = "SetConfig"
     /\ portPhase = "InitializingDevice" => /\ todo' = <<ConfigureEndpoint>> \o <<PopEvent>>
                                            /\ portPhase' = "ConfiguringEndpoints"
     /\ hid' = hid

\* What the device does when a request of its own has been answered.
LEMMA NextIs ==
  ASSUME NEW request, NEW data
  PROVE  LET n == NextOfDevice(request, data)
         IN  \/ dev.init = 1 /\ n = <<[dev EXCEPT !.init = 2], GetDescriptor("GetConfig")>>
             \/ dev.init = 2 /\ n = <<[dev EXCEPT !.init = 3, !.eps = EpConfigs(dev.config)],
                                     SetConfiguration>>
             \/ dev.init = 3 /\ request = "SetConfig" /\ n = <<[dev EXCEPT !.init = 4], << >> >>
             \/ n = <<dev, << >> >>
BY DEF NextOfDevice

\* OnEvent, of a control transfer: what its completion does.
LEMMA CompletionCases ==
  ASSUME OnControlCompleted, NEW p, frontEvent.at = p, Holding(setupMap, p) # {},
         NEW setup, control.high[Get(setupMap, p)] = setup, RecordsOK, dev.init \in 1 .. 4
  PROVE  setupMap' = Delete(setupMap, p) /\ CompletionDoes(setup)
<1> DEFINE data == Issuer(frontEvent).type = "Data"
           n == NextOfDevice(setup.request, data)
<1>1. setupMap' = Delete(setupMap, p)
  BY DEF OnControlCompleted
<1>2. CASE dev.init = 4
  <2>1. \/ hid.init = 1 /\ hid' = [hid EXCEPT !.init = 2] /\ ThenPop(InterruptIn)
        \/ NothingToDo /\ hid' = hid
    BY <1>2 DEF OnControlCompleted
  <2>2. dev' = dev /\ portPhase' = portPhase
    BY <1>2 DEF OnControlCompleted
  <2> QED BY <1>1, <1>2, <2>1, <2>2 DEF CompletionDoes, ThenPop, NothingToDo
<1>3. CASE dev.init # 4
  <2>1. /\ dev' = n[1] /\ hid' = hid
        /\ IF n[1].init = 4 /\ portPhase = "InitializingDevice"
           THEN portPhase' = "ConfiguringEndpoints" /\ ThenPop(<<ConfigureEndpoint>>)
           ELSE ThenPop(n[2]) /\ portPhase' = portPhase
    BY <1>3 DEF OnControlCompleted
  <2>2. \/ dev.init = 1 /\ n = <<[dev EXCEPT !.init = 2], GetDescriptor("GetConfig")>>
        \/ dev.init = 2 /\ n = <<[dev EXCEPT !.init = 3, !.eps = EpConfigs(dev.config)],
                                SetConfiguration>>
        \/ dev.init = 3 /\ setup.request = "SetConfig" /\ n = <<[dev EXCEPT !.init = 4], << >> >>
        \/ n = <<dev, << >> >>
    BY NextIs
  <2> HIDE DEF n
  <2>3. dev = [init |-> dev.init, buf |-> dev.buf, config |-> dev.config, eps |-> dev.eps,
               waiters |-> dev.waiters]
    BY DEF RecordsOK
  <2>4. CASE dev.init = 1 /\ n = <<[dev EXCEPT !.init = 2], GetDescriptor("GetConfig")>>
    <3>1. dev' = [dev EXCEPT !.init = 2] /\ n[2] = GetDescriptor("GetConfig")
      BY <2>1, <2>4
    <3>2. DeviceGoesOn(2, dev.eps) /\ dev'.init = 2
      BY ONLY <2>3, <3>1 DEF DeviceGoesOn
    <3> QED BY <1>1, <2>1, <2>4, <3>1, <3>2 DEF CompletionDoes, ThenPop
  <2>5. CASE dev.init = 2 /\ n = <<[dev EXCEPT !.init = 3, !.eps = EpConfigs(dev.config)],
                                   SetConfiguration>>
    <3>1. /\ dev' = [dev EXCEPT !.init = 3, !.eps = EpConfigs(dev.config)]
          /\ n[2] = SetConfiguration
      BY <2>1, <2>5
    <3>2. DeviceGoesOn(3, EpConfigs(dev.config)) /\ dev'.init = 3
      BY ONLY <2>3, <3>1 DEF DeviceGoesOn
    <3> QED BY <1>1, <2>1, <2>5, <3>1, <3>2 DEF CompletionDoes, ThenPop
  <2>6. CASE dev.init = 3 /\ setup.request = "SetConfig" /\ n = <<[dev EXCEPT !.init = 4], << >> >>
    <3>1. dev' = [dev EXCEPT !.init = 4]
      BY <2>1, <2>6
    <3>2. DeviceGoesOn(4, dev.eps) /\ dev'.init = 4
      BY ONLY <2>3, <3>1 DEF DeviceGoesOn
    <3> QED BY <1>1, <2>1, <2>6, <3>1, <3>2 DEF CompletionDoes, ThenPop
  <2>7. CASE n = <<dev, << >> >>
    <3>1. dev' = dev /\ n[2] = << >>
      BY <2>1, <2>7
    <3> QED BY <1>1, <1>3, <2>1, <3>1 DEF CompletionDoes, ThenPop
  <2> QED BY <2>2, <2>4, <2>5, <2>6, <2>7
<1> QED BY <1>2, <1>3

\* OnEvent, of a control transfer.
LEMMA OnControlCompletedKeeps ==
  ASSUME RingsOK, TransfersInv, OnControlCompleted
  PROVE  RingsOK' /\ TransfersInv' /\ [CR!RingNext]_control /\ [IR!RingNext]_interrupt
<1>1. /\ Ready /\ todo = << >> /\ HasFront(eventRing) /\ Outside
      /\ frontEvent.type = "TransferEvent" /\ frontEvent.ok /\ Issuer(frontEvent).type # "Normal"
      /\ keyboard' = keyboard
  BY DEF OnControlCompleted, Handles
<1>2. PICK q \in Seq(AllEvents) :
           /\ q = Unhandled(eventRing, << >>) /\ q # << >> /\ Head(q) = frontEvent
           /\ ControlInv(q, "end", 0) /\ ReportInv(q, "end") /\ KeysInv(q) /\ RecordsOK /\ XhcOK
           /\ Tail(q) \in Seq(AllEvents) /\ frontEvent \in AllEvents /\ frontEvent \in ToSet(q)
           /\ Adds(q, Tail(q), frontEvent) /\ Fewer(Tail(q), q)
  BY <1>1, HandlerBegins
<1>3. /\ control' = control /\ interrupt' = interrupt /\ eventRing' = eventRing /\ xhc' = xhc
      /\ pushed' = pushed
  BY <1>1 DEF Outside
<1>4. /\ PlacesOK(control) /\ PlacesOK(interrupt)
      /\ Stays(control, control') /\ Stays(interrupt, interrupt')
  BY <1>3, RingsUntouched
<1>5. PICK p \in StagePlaces :
           /\ Head(q) \in Answers(p) /\ frontEvent.at = p /\ frontEvent \notin InterruptReports
           /\ Issuer(frontEvent) = control.high[p]
           /\ Holding(setupMap, frontEvent.at) # {}
           /\ control.high[Get(setupMap, frontEvent.at)] = control.high[Before(p)]
           /\ control.high[Before(p)] \in Setups
  BY <1>1, <1>2, CompletionIs
<1>6. PhaseOK /\ WhileInitializing(q, "end", 0) /\ WhileConfiguring(q, "end", 0)
  BY <1>2 DEF ControlInv
<1>7. setupMap' = Delete(setupMap, p) /\ CompletionDoes(control.high[Before(p)])
  <2>1. dev.init \in 1 .. 4 /\ Holding(setupMap, p) # {}
        /\ control.high[Get(setupMap, p)] = control.high[Before(p)]
    BY <1>5, <1>6 DEF PhaseOK
  <2>2. \A setup : control.high[Get(setupMap, p)] = setup
                     => setupMap' = Delete(setupMap, p) /\ CompletionDoes(setup)
    BY <1>2, <1>5, <2>1, CompletionCases
  <2> QED BY <2>1, <2>2
<1>8. SameReports(Tail(q), q)
  BY <1>2, <1>5, AddedReports
<1>9. ~Copying(control) /\ 0 \in Nat /\ "end" \in Quiet /\ "report" \in Quiet
  BY <1>1 DEF Ready, Copying, Quiet
<1>10. /\ <<PopEvent>> # << >> /\ Ending(<<PopEvent>>, 0) /\ <<PopEvent>> # Drivers(0)
  <2>1. Ending(<<PopEvent>>, 0)
    BY TodoBegins
  <2> QED BY <2>1, EndIs
<1>11. ASSUME hid' = hid, NEW pc1, pc1 # "report"
       PROVE  ReportInv(Tail(q), pc1)' /\ KeysInv(Tail(q))'
  <2>1. hid'.init \in {hid.init, 1} /\ (hid'.init = 1 => hid.init < 2)
        /\ (pc1 = "report" => "end" = "report")
    BY <1>11
  <2>2. ReportInv(Tail(q), pc1)'
    BY <1>2, <1>4, <1>8, <2>1, ReportStays
  <2>3. KeysInv(Tail(q))'
    BY <1>1, <1>2, <1>8, <1>11, KeysStay
  <2> QED BY <2>2, <2>3
<1>12. ASSUME NEW i, NEW eps, DeviceGoesOn(i, eps)
       PROVE  /\ dev'.init = i /\ dev'.config = dev.config /\ dev'.eps = eps
              /\ hid' = hid => RecordsOK'
  <2>1. /\ dev'.init = i /\ dev'.config = dev.config /\ dev'.eps = eps
        /\ dev' = [init |-> dev'.init, buf |-> dev'.buf, config |-> dev'.config,
                   eps |-> dev'.eps, waiters |-> dev'.waiters]
    BY ONLY <1>12 DEF DeviceGoesOn
  <2>2. hid' = hid => RecordsOK'
    BY ONLY <1>1, <1>2, <1>3, <2>1 DEF RecordsOK
  <2> QED BY <2>1, <2>2
<1>13. dev.init # 4 => portPhase = "InitializingDevice"
  BY <1>6 DEF PhaseOK, WhileConfiguring
<1>14. CASE /\ dev.init = 4 /\ hid.init = 1 /\ hid' = [hid EXCEPT !.init = 2]
            /\ todo' = InterruptIn \o <<PopEvent>> /\ dev' = dev /\ portPhase' = portPhase
  <2>1. /\ hid'.init = 2 /\ hid'.buf = hid.buf /\ hid'.previous = hid.previous
        /\ hid' = [init |-> hid'.init, buf |-> hid'.buf, previous |-> hid'.previous]
    <3>1. hid' = [init |-> 2, buf |-> hid.buf, previous |-> hid.previous]
      BY ONLY <1>2, <1>14 DEF RecordsOK
    <3> QED BY ONLY <3>1
  <2>2. RecordsOK'
    BY ONLY <1>1, <1>2, <1>3, <1>14, <2>1 DEF RecordsOK
  <2>3. portPhase = "Configured"
    BY <1>6, <1>14 DEF PhaseOK, WhileInitializing, WhileConfiguring
  <2>4. ElseKept
    BY <1>14, <2>1, <2>3 DEF ElseKept
  <2>5. ControlInv(Tail(q), "report", 0)'
    BY <1>2, <1>3, <1>4, <1>5, <1>7, <1>9, <2>3, <2>4, CompletionMove
  <2>6. ReportInv(Tail(q), "report")'
    BY <1>2, <1>3, <1>4, <1>14, <2>1, ReportAsked
  <2>7. KeysInv(Tail(q))'
    BY <1>1, <1>2, <1>8, <2>1, KeysStay
  <2>8. At(todo', "report", <<PopEvent>>)
    BY <1>14, TodoBegins
  <2> QED BY <1>1, <1>2, <1>10, <2>2, <2>5, <2>6, <2>7, <2>8, HandlerKeeps
<1>15. CASE /\ todo' = <<PopEvent>> \/ todo' = << >> \o <<PopEvent>>
            /\ hid' = hid /\ dev' = dev /\ portPhase' = portPhase
  <2>1. RecordsOK'
    BY <1>1, <1>2, <1>3, <1>15 DEF RecordsOK
  <2>2. ElseKept
    BY <1>6, <1>15 DEF ElseKept, PhaseOK
  <2>3. ControlInv(Tail(q), "end", 0)'
    BY <1>2, <1>3, <1>4, <1>5, <1>7, <1>9, <2>2, CompletionMove
  <2>4. ReportInv(Tail(q), "end")' /\ KeysInv(Tail(q))'
    BY <1>11, <1>15
  <2>5. At(todo', "end", <<PopEvent>>)
    BY <1>15, TodoBegins
  <2> QED BY <1>1, <1>2, <1>10, <2>1, <2>3, <2>4, <2>5, HandlerKeeps
<1>16. CASE /\ dev.init = 1 /\ DeviceGoesOn(2, dev.eps)
            /\ todo' = GetDescriptor("GetConfig") \o <<PopEvent>>
            /\ hid' = hid /\ portPhase' = portPhase
  <2>1. dev'.init = 2 /\ dev'.config = dev.config /\ RecordsOK'
    BY <1>12, <1>16
  <2>2. /\ dev'.init \in 1 .. 3 /\ (dev'.init = 3 => dev'.eps = EpConfigs(dev.config))
        /\ "setupIn" \in {"setupIn", "setupOut"} /\ portPhase = "InitializingDevice"
    BY <1>13, <1>16, <2>1
  <2>3. ControlInv(Tail(q), "setupIn", 0)'
    BY <1>2, <1>3, <1>4, <1>5, <1>7, <1>9, <1>16, <2>1, <2>2, NextRequestMove
  <2>4. ReportInv(Tail(q), "setupIn")' /\ KeysInv(Tail(q))'
    BY <1>11, <1>16
  <2>5. At(todo', "setupIn", <<PopEvent>>)
    BY <1>16, TodoBegins
  <2> QED BY <1>1, <1>2, <1>10, <2>1, <2>3, <2>4, <2>5, HandlerKeeps
<1>17. CASE /\ dev.init = 2 /\ DeviceGoesOn(3, EpConfigs(dev.config))
            /\ todo' = SetConfiguration \o <<PopEvent>>
            /\ hid' = hid /\ portPhase' = portPhase
  <2>1. /\ dev'.init = 3 /\ dev'.config = dev.config /\ dev'.eps = EpConfigs(dev.config)
        /\ RecordsOK'
    BY <1>12, <1>17
  <2>2. /\ dev'.init \in 1 .. 3 /\ (dev'.init = 3 => dev'.eps = EpConfigs(dev.config))
        /\ "setupOut" \in {"setupIn", "setupOut"} /\ portPhase = "InitializingDevice"
    BY <1>13, <1>17, <2>1
  <2>3. ControlInv(Tail(q), "setupOut", 0)'
    BY <1>2, <1>3, <1>4, <1>5, <1>7, <1>9, <1>17, <2>1, <2>2, NextRequestMove
  <2>4. ReportInv(Tail(q), "setupOut")' /\ KeysInv(Tail(q))'
    BY <1>11, <1>17
  <2>5. At(todo', "setupOut", <<PopEvent>>)
    BY <1>17, TodoBegins
  <2> QED BY <1>1, <1>2, <1>10, <2>1, <2>3, <2>4, <2>5, HandlerKeeps
<1>18. CASE /\ dev.init = 3 /\ DeviceGoesOn(4, dev.eps)
            /\ control.high[Before(p)].request = "SetConfig"
            /\ portPhase = "InitializingDevice" => /\ todo' = <<ConfigureEndpoint>> \o <<PopEvent>>
                                                   /\ portPhase' = "ConfiguringEndpoints"
            /\ hid' = hid
  <2>1. dev'.init = 4 /\ dev'.config = dev.config /\ dev'.eps = dev.eps /\ RecordsOK'
    BY <1>12, <1>18
  <2>2. /\ portPhase = "InitializingDevice" /\ portPhase' = "ConfiguringEndpoints"
        /\ todo' = <<ConfigureEndpoint>> \o <<PopEvent>>
    BY <1>13, <1>18
  <2>3. ControlInv(Tail(q), "command", 0)'
    BY <1>2, <1>3, <1>4, <1>5, <1>7, <1>9, <1>18, <2>1, <2>2, InitializedMove
  <2>4. ReportInv(Tail(q), "command")' /\ KeysInv(Tail(q))'
    BY <1>11, <1>18
  <2>5. At(todo', "command", <<PopEvent>>)
    BY <2>2, TodoBegins
  <2> QED BY <1>1, <1>2, <1>10, <2>1, <2>3, <2>4, <2>5, HandlerKeeps
<1> QED BY <1>7, <1>14, <1>15, <1>16, <1>17, <1>18 DEF CompletionDoes

----------------------------------------------------------------------------
(* Init.                                                                   *)

\* The rings at first are those of both instances.
LEMMA NewRings ==
  CR!NewRing = NewRing /\ IR!NewRing = NewRing /\ CR!NewEventRing = NewEventRing
<1> USE DEF CR!Places, CR!Zero, Places, Zero, CR!LinkPlace, LinkPlace, IR!Places, IR!Zero,
            IR!LinkPlace, CR!EventPlaces, EventPlaces
<1>1. CR!NewRing = NewRing
  BY DEF CR!NewRing, NewRing
<1>2. IR!NewRing = NewRing
  BY DEF IR!NewRing, NewRing
<1>3. CR!NewEventRing = NewEventRing
  BY DEF CR!NewEventRing, NewEventRing
<1> QED BY <1>1, <1>2, <1>3

\* The invariant holds at first.
LEMMA TransfersBegin ==
  ASSUME TransfersInit
  PROVE  RingsOK /\ TransfersInv
<1>1. /\ control = NewRing /\ interrupt = NewRing /\ eventRing = NewEventRing
      /\ todo = GetDescriptor("GetDevice")
      /\ pushed = [setup |-> 0, ioc |-> 0] /\ setupMap = EmptyMap(MapSize)
      /\ hid = [init |-> 0, buf |-> {}, previous |-> {}]
      /\ portPhase = "InitializingDevice"
      /\ xhc = [active |-> {}, halted |-> {}, request |-> "none", command |-> FALSE,
                failures |-> 0]
      /\ keyboard = [down |-> {}, changed |-> FALSE, rolled |-> FALSE, changes |-> 0,
                     pressed |-> [k \in Keys |-> 0], told |-> [k \in Keys |-> 0]]
      /\ \E c \in Configs : dev = [init |-> 1, buf |-> "zero", config |-> c, eps |-> << >>,
                                   waiters |-> EmptyMap(Waiters)]
  BY DEF TransfersInit
<1>2. RingsOK
  <2>1. CR!RingInv
    BY <1>1, NewRings, RingSizesHold, CR!RingInitially
  <2>2. IR!RingInv
    BY <1>1, NewRings, RingSizesHold, IR!RingInitially
  <2>3. CR!EventInv
    BY <1>1, NewRings, RingSizesHold, CR!EventInitially
  <2> QED BY <2>1, <2>2, <2>3 DEF RingsOK
<1>3. PlacesOK(control) /\ PlacesOK(interrupt)
  BY <1>2, RingFacts
<1>4. Unhandled(eventRing, << >>) = << >>
  <2>1. Pending(eventRing) \in Seq(AllEvents) /\ Len(Pending(eventRing)) = EventCount(eventRing)
    BY <1>2, EventsWaiting DEF RingsOK
  <2>2. EventCount(eventRing) = 0
    BY <1>1 DEF EventCount, NewEventRing
  <2> QED BY <2>1, <2>2 DEF Unhandled
<1>5. /\ \A p \in StagePlaces : ~OnItsWay(control, p)
      /\ Free(control) = 0 /\ Count(control) = 0 /\ ~Copying(control)
      /\ Taken(control) = LinkPlace - 1 /\ control.step = "ready"
      /\ LastTrb(control) = Zero /\ control.seen[2] = control.high[Taken(control)]
      /\ control.seen[2] = Zero
  <2>1. control.deq = 0 /\ control.write = 0 /\ control.cycle = 1 /\ control.ccs = 1
        /\ control.step = "ready" /\ control.seen[2] = Zero
        /\ \A p \in Places : control.high[p] = Zero
    BY <1>1 DEF NewRing
  <2>2. LinkPlace \in Nat /\ LinkPlace >= 5 /\ Places = 0 .. LinkPlace
    BY TransferPlaces
  <2>3. /\ \A p \in StagePlaces : ~OnItsWay(control, p)
        /\ Free(control) = 0 /\ Count(control) = 0 /\ ~Copying(control)
        /\ Taken(control) = LinkPlace - 1
    BY <2>1, <2>2 DEF OnItsWay, Free, Count, Copying, Taken, Before, StagePlaces
  <2>4. LinkPlace - 1 \in Places
    BY <2>2
  <2> QED BY <2>1, <2>3, <2>4 DEF LastTrb, Before
<1>6. /\ Count(interrupt) = 0 /\ ~Copying(interrupt) /\ interrupt.step = "ready"
  BY <1>1 DEF NewRing, Count, Copying
<1>7. /\ \A S : CountIn(<< >>, S) = 0
      /\ \A p \in StagePlaces : AnswersIn(<< >>, p) = 0 /\ ~Open(control, << >>, p)
      /\ ReportsIn(<< >>) = 0 /\ ToSet(<< >>) = {}
  <2>1. \A S : CountIn(<< >>, S) = 0
    BY CountEmpty
  <2>2. ToSet(<< >>) = {}
    BY DEF ToSet
  <2> QED BY <1>5, <2>1, <2>2 DEF AnswersIn, Open, ReportsIn
<1>8. RecordsOK /\ XhcOK
  <2>1. PICK c : dev = [init |-> 1, buf |-> "zero", config |-> c, eps |-> << >>,
                        waiters |-> EmptyMap(Waiters)]
    BY <1>1
  <2>2. dev = [init |-> dev.init, buf |-> dev.buf, config |-> dev.config, eps |-> dev.eps,
               waiters |-> dev.waiters]
    BY ONLY <2>1
  <2>3. hid = [init |-> hid.init, buf |-> hid.buf, previous |-> hid.previous]
    BY ONLY <1>1
  <2>4. /\ xhc = [active |-> xhc.active, halted |-> xhc.halted, request |-> xhc.request,
                  command |-> xhc.command, failures |-> xhc.failures]
        /\ xhc.active = {} /\ xhc.halted = {}
    BY ONLY <1>1
  <2>5. keyboard = [down |-> keyboard.down, changed |-> keyboard.changed,
                    rolled |-> keyboard.rolled, changes |-> keyboard.changes,
                    pressed |-> keyboard.pressed, told |-> keyboard.told]
    BY ONLY <1>1
  <2> QED BY <2>2, <2>3, <2>4, <2>5 DEF RecordsOK, XhcOK
<1>9. TodoOK("setupIn", << >>, 0)
  <2>1. Ending(<< >>, 0) /\ At(todo, "setupIn", << >>) /\ << >> # Drivers(0)
    BY <1>1, TodoBegins, EndIs
  <2> QED BY <1>5, <1>6, <2>1 DEF TodoOK
<1>10. PhaseOK /\ dev.init = 1 /\ hid.init = 0
  BY <1>1 DEF PhaseOK
<1>11. StagesLeft("setupIn") = 3 /\ Pushes(control, "setupIn", 0) = 3 /\ Puts("setupIn", 0) = 1
  <2>1. StagesLeft("setupIn") = 3
    BY DEF StagesLeft
  <2> QED BY <1>5, <2>1 DEF Pushes, Puts, Busy
<1>12. ControlInv(<< >>, "setupIn", 0)
  <2>1. PushedOK("setupIn")
    <3>1. pushed \in [setup : Places, ioc : Places]
      BY <1>1, TransferPlaces
    <3> QED BY <1>5, <3>1 DEF PushedOK
  <2>2. StagesOK
    <3>1. xhc.request = "none" /\ Zero \notin Setups
      BY <1>1, StageKinds
    <3> QED BY <1>5, <3>1 DEF StagesOK, AskedFor
  <2>3. TicketsOK(<< >>, "setupIn", 0) /\ AnswersOK(<< >>)
    BY <1>7 DEF TicketsOK, AnswersOK
  <2>4. MapOK("setupIn", 0)
    <3>1. Total = 1
      BY <1>1 DEF Total
    <3>2. DOMAIN setupMap = 1 .. MapSize /\ \A i \in 1 .. MapSize : setupMap[i] = None
      BY <1>1 DEF EmptyMap
    <3> QED BY <1>11, <3>1, <3>2 DEF MapOK
  <2>5. WhileInitializing(<< >>, "setupIn", 0)
    BY <1>7, <1>10 DEF WhileInitializing
  <2>6. WhileConfiguring(<< >>, "setupIn", 0)
    BY <1>1 DEF WhileConfiguring
  <2>7. RoomOK("setupIn", 0)
    BY <1>5, <1>11, TransferSizes, TransferPlaces DEF RoomOK
  <2> QED BY <1>10, <2>1, <2>2, <2>3, <2>4, <2>5, <2>6, <2>7 DEF ControlInv
<1>13. ReportInv(<< >>, "setupIn")
  BY <1>6, <1>7 DEF ReportInv
<1>14. KeysInv(<< >>)
  BY <1>1 DEF KeysInv, KeysOK
<1>15. InvAt(Unhandled(eventRing, << >>), "setupIn", << >>, 0)
  BY <1>4, <1>8, <1>9, <1>12, <1>13, <1>14 DEF InvAt
<1> QED
  <2>1. "setupIn" \in Busy \cup Quiet /\ 0 \in Nat
    BY DEF Busy
  <2> QED BY <1>2, <1>15, <2>1 DEF TransfersInv

----------------------------------------------------------------------------
(* Next.                                                                   *)

\* Every step of the driver keeps the invariant.
LEMMA DriverKeeps ==
  ASSUME RingsOK, TransfersInv, TransferDriver
  PROVE  RingsOK' /\ TransfersInv' /\ [CR!RingNext]_control /\ [IR!RingNext]_interrupt
<1>1. CASE BeginsPush \/ GoesOnPushing \/ PutsSetupStage \/ RingsDoorbell
  BY <1>1, BeginsPushKeeps, GoesOnPushingKeeps, PutsSetupStageKeeps, RingsDoorbellKeeps
<1>2. CASE SendsCommand \/ ConfiguresDriver \/ PopsEvent
  BY <1>2, SendsCommandKeeps, ConfiguresDriverKeeps, PopsEventKeeps
<1>3. CASE Handler
  BY <1>3, OnTransferFailedKeeps, OnReportKeeps, OnControlCompletedKeeps,
     CompleteConfigurationKeeps DEF Handler
<1> QED BY <1>1, <1>2, <1>3 DEF TransferDriver

\* Every step of the controller does.
LEMMA ControllerKeeps ==
  ASSUME RingsOK, TransfersInv, TransferController
  PROVE  RingsOK' /\ TransfersInv' /\ [CR!RingNext]_control /\ [IR!RingNext]_interrupt
<1>1. CASE GoesIdle \/ FollowsLink \/ TakesSetup \/ TakesData
  BY <1>1, GoesIdleKeeps, FollowsLinkKeeps, TakesSetupKeeps, TakesDataKeeps
<1>2. CASE TakesStatus \/ ExecutesCommand \/ TransferFails
  BY <1>2, TakesStatusKeeps, ExecutesCommandKeeps, TransferFailsKeeps
<1> QED BY <1>1, <1>2 DEF TransferController

\* So does a stuttering step.
LEMMA NothingKeeps ==
  ASSUME RingsOK, TransfersInv, UNCHANGED transfersVars
  PROVE  RingsOK' /\ TransfersInv' /\ [CR!RingNext]_control /\ [IR!RingNext]_interrupt
<1>1. /\ todo' = todo /\ setupMap' = setupMap /\ pushed' = pushed
      /\ control' = control /\ interrupt' = interrupt /\ eventRing' = eventRing
      /\ dev' = dev /\ hid' = hid /\ portPhase' = portPhase /\ xhc' = xhc
      /\ keyboard' = keyboard
  BY DEF transfersVars, driverVars
<1>2. PICK q \in Seq(AllEvents), pc \in Busy \cup Quiet, times \in Nat, end \in Ends :
        q = Unhandled(eventRing, end) /\ InvAt(q, pc, end, times)
  BY WhereItIs
<1>3. /\ TodoOK(pc, end, times) /\ ControlInv(q, pc, times) /\ ReportInv(q, pc)
  BY <1>2 DEF InvAt
<1>4. RecordsOK' /\ XhcOK' /\ KeysInv(q)' /\ SameReports(q, q) /\ ElseKept
  BY <1>1, <1>2, OthersKept
<1>5. /\ PlacesOK(control) /\ PlacesOK(interrupt) /\ RingsOK'
      /\ Stays(control, control') /\ Stays(interrupt, interrupt')
  BY <1>1, RingsUntouched
<1>6. ControlInv(q, pc, times)'
  <2>1. /\ pc = pc /\ (portPhase # "Configured" => pc \in {pc, "end"})
        /\ xhc'.request = xhc.request /\ ("control" \in xhc.halted => "control" \in xhc'.halted)
    BY <1>1
  <2> QED BY <1>1, <1>3, <1>4, <1>5, <2>1, FewerSame, ElsewhereMove
<1>7. ReportInv(q, pc)'
  <2>1. hid'.init \in {hid.init, 1} /\ (hid'.init = 1 => hid.init < 2)
        /\ (pc = "report" => pc = "report")
    BY <1>1
  <2> QED BY <1>3, <1>4, <1>5, <2>1, ReportStays
<1>8. TodoOK(pc, end, times)'
  BY <1>1, <1>3, TodoKept
<1> QED
  BY <1>1, <1>2, <1>4, <1>5, <1>6, <1>7, <1>8, ThereItIs DEF InvAt

\* Every step keeps the invariant, and is a step of each of the rings or none.
LEMMA TransfersKeep ==
  ASSUME RingsOK, TransfersInv, [TransfersNext]_transfersVars
  PROVE  RingsOK' /\ TransfersInv' /\ [CR!RingNext]_control /\ [IR!RingNext]_interrupt
BY DriverKeeps, ControllerKeeps, ReportsKeeps, TypesKeeps, NothingKeeps DEF TransfersNext

\* The invariant of the transfers of a device (usb/device.cpp, xhci/device.cpp): where
\* the driver is, what is in the rings, the map and the event ring fit each other.
THEOREM TransfersInvariant == TransfersSpec => [](RingsOK /\ TransfersInv)
<1>1. RingsOK /\ TransfersInv /\ [TransfersNext]_transfersVars => (RingsOK /\ TransfersInv)'
  BY TransfersKeep
<1>2. TransfersInit => RingsOK /\ TransfersInv
  BY TransfersBegin
<1> QED BY <1>1, <1>2, PTL DEF TransfersSpec

----------------------------------------------------------------------------
(* What follows.                                                           *)

\* An event that is waiting is one of the queue.
LEMMA PositionOfEvent ==
  ASSUME CR!EventInv, NEW i \in 1 .. EventCount(eventRing)
  PROVE  Pending(eventRing)[i] \in AllEvents /\ Pending(eventRing)[i] \in ToSet(Pending(eventRing))
<1>1. /\ Pending(eventRing) \in Seq(AllEvents)
      /\ Len(Pending(eventRing)) = EventCount(eventRing)
  BY EventsWaiting
<1>2. i \in DOMAIN Pending(eventRing)
  BY <1>1
<1> QED BY <1>1, <1>2 DEF ToSet

\* What an answer in the event ring leads to.
LEMMA AnswerIsOwn ==
  ASSUME NEW q \in Seq(AllEvents), NEW e \in ToSet(q), NEW p \in StagePlaces, e \in Answers(p),
         ControlInv(q, "end", 0)
  PROVE  /\ control.high[p] \in Interrupting
         /\ Holding(setupMap, p) # {} /\ Get(setupMap, p) = Before(p)
         /\ control.high[Before(p)] \in Setups /\ e.request = control.high[Before(p)].request
<1>1. TicketsOK(q, "end", 0) /\ AnswersOK(q) /\ MapOK("end", 0) /\ PhaseOK
  BY DEF ControlInv
<1>2. Open(control, q, p)
  BY CountType DEF Open, AnswersIn
<1>3. TicketOK(p, "end", 0)
  BY <1>1, <1>2 DEF TicketsOK
<1>4. Holding(setupMap, p) # {}
  BY <1>3 DEF TicketOK
<1>5. Get(setupMap, p) = Before(p)
  <2>1. MapSize \in Nat /\ DOMAIN setupMap = 1 .. MapSize
    BY <1>1, TotalFits DEF MapOK
  <2>2. PICK i \in 1 .. MapSize : /\ setupMap[i] # None /\ setupMap[i][1] = p
                                  /\ Get(setupMap, p) = setupMap[i][2]
    BY <1>4, <2>1, HeldIs
  <2>3. PICK p2 \in StagePlaces : setupMap[i] = <<p2, Before(p2)>>
    BY <1>1, <2>2 DEF MapOK
  <2> QED BY <2>2, <2>3
<1>6. e.request = control.high[Before(p)].request
  BY <1>1 DEF AnswersOK
<1> QED BY <1>3, <1>4, <1>5, <1>6 DEF TicketOK

\* The type invariant follows.
LEMMA TypesAreOK ==
  ASSUME RingsOK, TransfersInv
  PROVE  TransfersTypeOK
<1>1. PICK q \in Seq(AllEvents), pc \in Busy \cup Quiet, times \in Nat, end \in Ends :
        q = Unhandled(eventRing, end) /\ InvAt(q, pc, end, times)
  BY WhereItIs
<1> QED BY <1>1 DEF InvAt, ControlInv, PhaseOK, PushedOK, XhcOK, KeysInv, KeysOK, TransfersTypeOK

\* The stages arrive in their order.
LEMMA StagesArrive ==
  ASSUME RingsOK, TransfersInv, HasTrb(control), ~AtLink(control)
  PROVE  LET x == NextTrb(control).type
             last == control.seen[2]
         IN  CASE last.type = "Setup" -> x = IF last.data THEN "Data" ELSE "Status"
               [] last.type = "Data"  -> x = "Status"
               [] OTHER               -> x = "Setup"
<1>1. PICK q \in Seq(AllEvents), pc \in Busy \cup Quiet, times \in Nat, end \in Ends :
        q = Unhandled(eventRing, end) /\ InvAt(q, pc, end, times)
  BY WhereItIs
<1>2. StagesOK
  BY <1>1 DEF InvAt, ControlInv
<1>3. /\ OnItsWay(control, control.deq) /\ control.deq \in StagePlaces
      /\ NextTrb(control) = control.high[control.deq]
  <2>1. control.deq < LinkPlace /\ OnItsWay(control, control.deq) /\ control.deq \in StagePlaces
    BY ControlFinds, TransferPlaces DEF RingsOK, StagePlaces
  <2> QED BY <2>1 DEF NextTrb
<1>4. Follows(control.seen[2], NextTrb(control))
  <2>1. Before(control.deq) = Taken(control)
    BY DEF Taken
  <2> QED BY <1>2, <1>3, <2>1 DEF StagesOK
<1>5. CASE control.seen[2] \in SetupsIn /\ NextTrb(control) = DataStage
  BY <1>5, StageKinds DEF Setups
<1>6. CASE control.seen[2] \in SetupsOut /\ NextTrb(control) = StatusStage(TRUE)
  BY <1>6, StageKinds DEF Setups, Statuses
<1>7. CASE control.seen[2] = DataStage /\ NextTrb(control) = StatusStage(FALSE)
  BY <1>7, StageKinds DEF Statuses
<1>8. CASE control.seen[2] \in Statuses \cup {Zero} /\ NextTrb(control) \in Setups
  BY <1>8, StageKinds
<1> QED BY <1>4, <1>5, <1>6, <1>7, <1>8 DEF Follows

\* That the completions are those of the requests follows from the invariant.
LEMMA OwnCompletions ==
  ASSUME RingsOK, TransfersInv
  PROVE  CompletionsAreOwn
<1>1. PICK q \in Seq(AllEvents), pc \in Busy \cup Quiet, times \in Nat, end \in Ends :
        q = Unhandled(eventRing, end) /\ InvAt(q, pc, end, times)
  BY WhereItIs
<1>2. TodoOK(pc, end, times) /\ ControlInv(q, pc, times) /\ ReportInv(q, pc)
  BY <1>1 DEF InvAt
<1>3. ASSUME todo = << >>, NEW i \in 1 .. EventCount(eventRing),
             Pending(eventRing)[i].type = "TransferEvent", Pending(eventRing)[i].ok
      PROVE  LET e == Pending(eventRing)[i]
             IN  IF e.endpoint = "interrupt" THEN Issuer(e) = Normal
                 ELSE /\ Issuer(e).type \in {"Data", "Status"} /\ Issuer(e).ioc
                      /\ Holding(setupMap, e.at) # {}
                      /\ control.high[Get(setupMap, e.at)].type = "Setup"
                      /\ control.high[Get(setupMap, e.at)].request = e.request
  <2> DEFINE e == Pending(eventRing)[i]
  <2>1. q = Pending(eventRing) /\ ControlInv(q, "end", 0)
    BY <1>1, <1>2, <1>3, NothingLeft DEF Unhandled
  <2>2. e \in AllEvents /\ e \in ToSet(q) /\ e.type = "TransferEvent" /\ e.ok
    BY <1>3, <2>1, PositionOfEvent DEF RingsOK
  <2> HIDE DEF e
  <2>3. CASE e \in InterruptReports
    <3>1. e.endpoint = "interrupt" /\ interrupt.high[e.at] = Normal
      BY <1>2, <2>2, <2>3, EventKinds DEF ReportInv
    <3>2. Issuer(e) = Normal
      BY <3>1 DEF Issuer
    <3> QED BY <3>1, <3>2 DEF e
  <2>4. ASSUME NEW p \in StagePlaces, e \in Answers(p)
        PROVE  /\ e.endpoint # "interrupt"
               /\ Issuer(e).type \in {"Data", "Status"} /\ Issuer(e).ioc
               /\ Holding(setupMap, e.at) # {}
               /\ control.high[Get(setupMap, e.at)].type = "Setup"
               /\ control.high[Get(setupMap, e.at)].request = e.request
    <3>1. e.endpoint = "control" /\ e.at = p
      BY <2>4, EventKinds
    <3>2. Issuer(e) = control.high[p]
      BY <3>1 DEF Issuer
    <3>3. /\ control.high[p] \in Interrupting
          /\ Holding(setupMap, p) # {} /\ Get(setupMap, p) = Before(p)
          /\ control.high[Before(p)] \in Setups /\ e.request = control.high[Before(p)].request
      BY <2>1, <2>2, <2>4, AnswerIsOwn
    <3>4. \A x \in Interrupting : x.type \in {"Data", "Status"} /\ x.ioc
      BY StageKinds DEF Interrupting, Statuses
    <3>5. control.high[Before(p)].type = "Setup"
      BY <3>3, StageKinds
    <3> QED BY <3>1, <3>2, <3>3, <3>4, <3>5
  <2> QED BY <2>2, <2>3, <2>4, EventsOfKinds DEF e
<1>4. TransfersTypeOK
  BY TypesAreOK
<1>5. HasTrb(control) /\ ~AtLink(control) =>
       LET x == NextTrb(control).type
           last == control.seen[2]
       IN  CASE last.type = "Setup" -> x = IF last.data THEN "Data" ELSE "Status"
             [] last.type = "Data"  -> x = "Status"
             [] OTHER               -> x = "Setup"
  BY StagesArrive
<1> QED BY <1>3, <1>4, <1>5 DEF CompletionsAreOwn

\* Every completion finds the setup stage of its own request in the map (OnEvent,
\* xhci/device.cpp), and the ring still holds it: no later stage has been written over it.
THEOREM CompletionsAlwaysOwn == TransfersSpec => []CompletionsAreOwn
<1>1. RingsOK /\ TransfersInv => CompletionsAreOwn
  BY OwnCompletions
<1> QED BY <1>1, TransfersInvariant, PTL

\* That each press is told once follows from the invariant.
LEMMA ToldOnce ==
  ASSUME RingsOK, TransfersInv
  PROVE  EachPressToldOnce
<1>1. PICK q \in Seq(AllEvents), pc \in Busy \cup Quiet, times \in Nat, end \in Ends :
        q = Unhandled(eventRing, end) /\ InvAt(q, pc, end, times)
  BY WhereItIs
<1>2. TodoOK(pc, end, times) /\ KeysInv(q)
  BY <1>1 DEF InvAt
<1> DEFINE underWay == keyboard.changed \/ \E i \in 1 .. EventCount(eventRing) :
                    Pending(eventRing)[i].type = "TransferEvent"
                    /\ Pending(eventRing)[i].endpoint = "interrupt"
<1>3. SUFFICES ASSUME ~keyboard.rolled, NEW k \in Keys
               PROVE  IF underWay THEN keyboard.pressed[k] - keyboard.told[k] \in {0, 1}
                      ELSE keyboard.pressed[k] = keyboard.told[k]
  BY DEF EachPressToldOnce
<1>4. /\ keyboard.pressed[k] \in Nat /\ keyboard.told[k] \in Nat
      /\ keyboard.pressed[k] - keyboard.told[k] =
           IF k \in hid.buf \ hid.previous \/ k \in keyboard.down \ hid.buf THEN 1 ELSE 0
  BY <1>2, <1>3 DEF KeysInv, KeysOK
<1>5. ASSUME ~underWay
      PROVE  keyboard.pressed[k] = keyboard.told[k]
  <2>1. /\ Pending(eventRing) \in Seq(AllEvents)
        /\ Len(Pending(eventRing)) = EventCount(eventRing)
    BY EventsWaiting DEF RingsOK
  <2>2. \A e \in ToSet(Pending(eventRing)) : e \notin InterruptReports
    <3> SUFFICES ASSUME NEW e \in ToSet(Pending(eventRing)), e \in InterruptReports PROVE FALSE
      OBVIOUS
    <3>1. PICK i \in 1 .. EventCount(eventRing) : Pending(eventRing)[i] = e
      BY <2>1 DEF ToSet
    <3> QED BY <1>5, <3>1, EventKinds
  <2>3. ToSet(q) \subseteq ToSet(Pending(eventRing))
    <3>1. CASE end = << >>
      BY <1>1, <3>1 DEF Unhandled
    <3>2. CASE end # << >>
      <4>1. Pending(eventRing) # << >> /\ q = Tail(Pending(eventRing))
        BY <1>1, <1>2, <3>2 DEF TodoOK, Unhandled
      <4>2. Adds(Pending(eventRing), Tail(Pending(eventRing)), Head(Pending(eventRing)))
        BY <2>1, <4>1, TailAdds
      <4> QED BY <4>1, <4>2 DEF Adds
    <3> QED BY <3>1, <3>2
  <2>4. ReportsIn(q) = 0
    BY <2>2, <2>3, ReportsAre
  <2>5. keyboard.down = hid.buf /\ hid.previous = hid.buf
    BY <1>2, <1>3, <1>5, <2>4 DEF KeysInv
  <2> QED BY <1>4, <2>5
<1> QED BY <1>4, <1>5

\* As long as no report rolled over, the observers of the keyboard (classdriver/keyboard.cpp)
\* have been told of every press once, or lack just one that a report is under way for.
THEOREM EachPressAlwaysToldOnce == TransfersSpec => []EachPressToldOnce
<1>1. RingsOK /\ TransfersInv => EachPressToldOnce
  BY ToldOnce
<1> QED BY <1>1, TransfersInvariant, PTL

\* The driver and the controller use both transfer rings as module Rings says: no step
\* pushes to a full ring or while another Push has not ended, none takes what is not there.
THEOREM TransferRingsUsedWell ==
  TransfersSpec => CR!RingSpec /\ IR!RingSpec
<1>1. RingsOK /\ TransfersInv /\ [TransfersNext]_transfersVars
        => [CR!RingNext]_control /\ [IR!RingNext]_interrupt
  BY TransfersKeep
<1>2. TransfersInit => control = CR!NewRing /\ interrupt = IR!NewRing
  BY NewRings DEF TransfersInit
<1>3. TransfersSpec => [](RingsOK /\ TransfersInv)
  BY TransfersInvariant
<1> QED BY <1>1, <1>2, <1>3, PTL DEF TransfersSpec, CR!RingSpec, IR!RingSpec

\* The queue a ring is shown to be is the one the device's rings are said to be.
LEMMA ControlIsQueue == CR!TrbsSent!Spec => ControlRing!TrbsSent!Spec
<1> USE DEF ControlRing!Contents, CR!Contents, ControlRing!Count, CR!Count, ControlRing!Place, CR!Place,
            ControlRing!LinkPlace, CR!LinkPlace
<1>1. /\ ControlRing!Contents(control) = CR!Contents(control)
      /\ ControlRing!Contents(control') = CR!Contents(control')
  OBVIOUS
<1>2. ControlRing!Capacity = CR!Capacity /\ ControlRing!Zero = CR!Zero
  BY DEF ControlRing!Capacity, CR!Capacity, ControlRing!Zero, CR!Zero
<1> HIDE DEF ControlRing!Contents, CR!Contents
<1>3. CR!TrbsSent!Init => ControlRing!TrbsSent!Init
  BY <1>1, <1>2 DEF CR!TrbsSent!Init, ControlRing!TrbsSent!Init
<1>4. [CR!TrbsSent!Next]_<<CR!Contents(control), control.seen>>
        => [ControlRing!TrbsSent!Next]_<<ControlRing!Contents(control), control.seen>>
  BY <1>1, <1>2 DEF CR!TrbsSent!Next, ControlRing!TrbsSent!Next,
     CR!TrbsSent!Send, ControlRing!TrbsSent!Send, CR!TrbsSent!Receive, ControlRing!TrbsSent!Receive
<1> QED BY <1>3, <1>4, PTL DEF CR!TrbsSent!Spec, ControlRing!TrbsSent!Spec

LEMMA InterruptIsQueue == IR!TrbsSent!Spec => InterruptRing!TrbsSent!Spec
<1> USE DEF InterruptRing!Contents, IR!Contents, InterruptRing!Count, IR!Count, InterruptRing!Place, IR!Place,
            InterruptRing!LinkPlace, IR!LinkPlace
<1>1. /\ InterruptRing!Contents(interrupt) = IR!Contents(interrupt)
      /\ InterruptRing!Contents(interrupt') = IR!Contents(interrupt')
  OBVIOUS
<1>2. InterruptRing!Capacity = IR!Capacity /\ InterruptRing!Zero = IR!Zero
  BY DEF InterruptRing!Capacity, IR!Capacity, InterruptRing!Zero, IR!Zero
<1> HIDE DEF InterruptRing!Contents, IR!Contents
<1>3. IR!TrbsSent!Init => InterruptRing!TrbsSent!Init
  BY <1>1, <1>2 DEF IR!TrbsSent!Init, InterruptRing!TrbsSent!Init
<1>4. [IR!TrbsSent!Next]_<<IR!Contents(interrupt), interrupt.seen>>
        => [InterruptRing!TrbsSent!Next]_<<InterruptRing!Contents(interrupt), interrupt.seen>>
  BY <1>1, <1>2 DEF IR!TrbsSent!Next, InterruptRing!TrbsSent!Next,
     IR!TrbsSent!Send, InterruptRing!TrbsSent!Send, IR!TrbsSent!Receive, InterruptRing!TrbsSent!Receive
<1> QED BY <1>3, <1>4, PTL DEF IR!TrbsSent!Spec, InterruptRing!TrbsSent!Spec

\* Both transfer rings are queues: the controller takes every TRB the driver has pushed
\* once, in the order of the calls of Ring::Push (xhci/ring.cpp), across the links.
THEOREM RingsAlwaysQueues == TransfersSpec => RingsAreQueues
<1>1. CR!RingSpec => CR!TrbsSent!Spec
  BY CR!RingIsQueue, RingSizesHold, NoLinksPushed
<1>2. IR!RingSpec => IR!TrbsSent!Spec
  BY IR!RingIsQueue, RingSizesHold, NoLinksPushed
<1> QED
  BY <1>1, <1>2, ControlIsQueue, InterruptIsQueue, TransferRingsUsedWell, PTL DEF RingsAreQueues

============================================================================
