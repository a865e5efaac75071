---------------------------- MODULE UsbTransfers ----------------------------
(***************************************************************************)
(* The transfers of one USB device from its address to the keys of a       *)
(* keyboard: the control transfers of its set-up and the reports of its    *)
(* interrupt endpoint (src/usb/xhci/device.cpp, src/usb/device.cpp,        *)
(* src/usb/arraymap.hpp, src/usb/classdriver/), over the rings of module   *)
(* Rings, which driver and controller use at the same time.                *)
(*                                                                         *)
(* The driver's handler of an event comes down to things to do one after   *)
(* the other, and the controller may act between any two of them.  The     *)
(* other events of the controller are in module UsbPorts.                  *)
(***************************************************************************)
EXTENDS Rings, SequencesExt, FiniteSetsExt

CONSTANTS
  MapSize,      \* entries of setup_stage_map_: N of ArrayMap
  Waiters,      \* entries of event_waiters_
  Configs,      \* the configurations a device may have: sequences of descriptors
  Keys,         \* the keys of the keyboard
  KeySlots,     \* how many keys a report can hold
  MaxChanges,   \* bound: how often a key is pressed or released
  MaxFailedTransfers   \* bound: how many transfers fail

RollOver == "ErrorRollOver"   \* what a keyboard reports if too many keys are down

ASSUME TransferAssumption ==
  /\ MapSize \in Nat /\ Waiters \in Nat /\ KeySlots \in Nat
  /\ MaxChanges \in Nat /\ MaxFailedTransfers \in Nat
  /\ RollOver \notin Keys

VARIABLES
  control,    \* transfer ring of the default control endpoint
  interrupt,  \* transfer ring of the interrupt endpoint
  eventRing,  \* the event ring
  todo,       \* what the driver still has to do for the event it handles
  pushed,     \* setup_trb_position and the position of the TRB that interrupts
  setupMap,   \* setup_stage_map_
  dev,        \* usb::Device
  hid,        \* its class driver
  portPhase,  \* port_config_phase of its port
  xhc,        \* what the controller does at the two endpoints and the command ring
  keyboard    \* the keyboard itself, and what the kernel has been told

driverVars == <<pushed, setupMap, dev, hid, portPhase>>
transfersVars == <<control, interrupt, eventRing, todo, driverVars, xhc, keyboard>>

----------------------------------------------------------------------------
(* TRBs and events.                                                        *)

Requests == {"GetDevice", "GetConfig", "SetConfig", "SetProtocol"}

\* The requests with a data stage.
DataRequests == {"GetDevice", "GetConfig"}

\* data: the transfer type says that a data stage follows.
SetupStage(request, data) == [type |-> "Setup", request |-> request, data |-> data]
DataStage == [type |-> "Data", ioc |-> TRUE]
StatusStage(ioc) == [type |-> "Status", ioc |-> ioc]
Normal == [type |-> "Normal"]

ControlTrbs == {SetupStage(r, r \in DataRequests) : r \in Requests}
               \cup {DataStage} \cup {StatusStage(i) : i \in BOOLEAN}

\* at: the TRB the event points to.  request is not in the event: it is what the
\* device was asked for.
TransferCompletion(endpoint, place, ok, request) ==
  [type |-> "TransferEvent", endpoint |-> endpoint, at |-> place, ok |-> ok, request |-> request]
CommandCompletion == [type |-> "CommandCompletionEvent"]

\* The TRB an event points to, read again from the ring.
Issuer(e) == IF e.endpoint = "control" THEN control.high[e.at] ELSE interrupt.high[e.at]

----------------------------------------------------------------------------
(* ArrayMap: a table whose free entries hold None.                         *)

None == << >>
EmptyMap(n) == [i \in 1 .. n |-> None]

Holding(map, key) == {i \in DOMAIN map : map[i] # None /\ map[i][1] = key}
Get(map, key) == map[Min(Holding(map, key))][2]

\* In the first free entry; nowhere if there is none.
Put(map, key, value) ==
  LET free == {i \in DOMAIN map : map[i] = None}
  IN  IF free = {} THEN map ELSE [map EXCEPT ![Min(free)] = <<key, value>>]

Delete(map, key) ==
  IF Holding(map, key) = {} THEN map ELSE [map EXCEPT ![Min(Holding(map, key))] = None]

----------------------------------------------------------------------------
(* The configuration of a device: ConfigurationDescriptorReader.           *)

HidBootInterface(d) == /\ d.type = "Interface"
                       /\ d.class = 3 /\ d.sub = 1 /\ d.protocol \in {1, 2}

SupportedInterfaces(config) == {i \in 2 .. Len(config) : HidBootInterface(config[i])}

\* ep_configs_: the endpoints of the first interface there is a class driver for.
EpConfigs(config) ==
  LET i == Min(SupportedInterfaces(config))
      endpoints == SelectSeq(SubSeq(config, i + 1, Len(config)), LAMBDA d : d.type = "Endpoint")
  IN  IF SupportedInterfaces(config) = {} THEN << >>
      ELSE SubSeq(endpoints, 1, config[i].endpoints)

\* class_drivers_: the class driver is entered once for each endpoint number.
Numbers(eps) == {eps[i].number : i \in DOMAIN eps}

\* Nobody looks whether a transfer ring or setup_stage_map_ is full.  They are large
\* enough for the endpoint numbers there can be: 30 TRBs and 16 entries for 15 of them.
ASSUME TransferSizes ==
  /\ Capacity >= 4 /\ MapSize >= 1
  /\ \A c \in Configs :
       LET n == Cardinality(Numbers(EpConfigs(c)))
       IN  n \in Nat /\ n <= MapSize /\ 2 * n <= Capacity

----------------------------------------------------------------------------
(* What the driver does for an event.                                      *)

PushTo(ring, trb) == [do |-> "push", ring |-> ring, trb |-> trb]
PutSetup == [do |-> "put"]
Doorbell(ring) == [do |-> "doorbell", ring |-> ring]
ConfigureDrivers(times) == [do |-> "configure", times |-> times]
ConfigureEndpoint == [do |-> "command"]
PopEvent == [do |-> "pop"]

\* Mutant: the doorbell is rung before the TRBs are there.
ControlTransferRungFirst(request, data) ==
  <<Doorbell("control"), PushTo("control", SetupStage(request, data))>>
  \o (IF data THEN <<PushTo("control", DataStage), PushTo("control", StatusStage(FALSE))>>
              ELSE <<PushTo("control", StatusStage(TRUE))>>)
  \o <<PutSetup>>

\* ControlIn and ControlOut: the stage that ends the transfer interrupts, and its
\* position leads to that of the setup stage.
ControlTransfer(request, data) ==
  <<PushTo("control", SetupStage(request, data))>>
  \o (IF data THEN <<PushTo("control", DataStage), PushTo("control", StatusStage(FALSE))>>
              ELSE <<PushTo("control", StatusStage(TRUE))>>)
  \o <<PutSetup, Doorbell("control")>>

GetDescriptor(request) == ControlTransfer(request, TRUE)
SetConfiguration == ControlTransfer("SetConfig", FALSE)
SetProtocol == ControlTransfer("SetProtocol", FALSE)
InterruptIn == <<PushTo("interrupt", Normal), Doorbell("interrupt")>>

Ready == control.step = "ready" /\ interrupt.step = "ready"

Doing(what) == Ready /\ todo # << >> /\ Head(todo).do = what /\ todo' = Tail(todo)

BeginsPush ==
  LET x == Head(todo).trb
  IN  /\ Doing("push")
      /\ IF Head(todo).ring = "control"
         THEN /\ control' = BeginPush(control, x)
              /\ pushed' = CASE x.type = "Setup" -> [pushed EXCEPT !.setup = control.write]
                             [] x.type # "Setup" /\ x.ioc -> [pushed EXCEPT !.ioc = control.write]
                             [] OTHER -> pushed
              /\ UNCHANGED interrupt
         ELSE interrupt' = BeginPush(interrupt, x) /\ UNCHANGED <<control, pushed>>
      /\ UNCHANGED <<eventRing, setupMap, dev, hid, portPhase, xhc, keyboard>>

GoesOnPushing ==
  /\ \/ control.step # "ready" /\ control' = PushStep(control) /\ UNCHANGED interrupt
     \/ interrupt.step # "ready" /\ interrupt' = PushStep(interrupt) /\ UNCHANGED control
  /\ UNCHANGED <<eventRing, todo, driverVars, xhc, keyboard>>

\* Mutant: the entry is found by the position of the setup stage.
PutsSetupStageByItself ==
  /\ Doing("put")
  /\ setupMap' = Put(setupMap, pushed.setup, pushed.setup)
  /\ UNCHANGED <<control, interrupt, eventRing, pushed, dev, hid, portPhase, xhc, keyboard>>

PutsSetupStage ==
  /\ Doing("put")
  /\ setupMap' = Put(setupMap, pushed.ioc, pushed.setup)
  /\ UNCHANGED <<control, interrupt, eventRing, pushed, dev, hid, portPhase, xhc, keyboard>>

RingsDoorbell ==
  /\ Doing("doorbell")
  /\ xhc' = [xhc EXCEPT !.active = @ \cup {Head(todo).ring}]
  /\ UNCHANGED <<control, interrupt, eventRing, driverVars, keyboard>>

\* The command ring and its doorbell; one command is on its way at a time.
SendsCommand ==
  /\ Doing("command")
  /\ xhc' = [xhc EXCEPT !.command = TRUE]
  /\ UNCHANGED <<control, interrupt, eventRing, driverVars, keyboard>>

\* One turn of the loop over class_drivers_: each time, the class driver becomes a
\* waiter for the request it sends.
ConfiguresDriver ==
  /\ Ready /\ todo # << >> /\ Head(todo).do = "configure"
  /\ LET times == Head(todo).times
     IN  IF times = 0 THEN todo' = Tail(todo) /\ UNCHANGED <<dev, hid>>
         ELSE /\ hid' = [hid EXCEPT !.init = 1]
              /\ dev' = [dev EXCEPT !.waiters = Put(@, "SetProtocol", "hid")]
              /\ todo' = SetProtocol \o <<ConfigureDrivers(times - 1)>> \o Tail(todo)
  /\ UNCHANGED <<control, interrupt, eventRing, pushed, setupMap, portPhase, xhc, keyboard>>

PopsEvent ==
  /\ Doing("pop")
  /\ eventRing' = Popped(eventRing)
  /\ UNCHANGED <<control, interrupt, driverVars, xhc, keyboard>>

----------------------------------------------------------------------------
(* The handlers.                                                           *)

frontEvent == FrontOf(eventRing)
Handles(type) == Ready /\ todo = << >> /\ HasFront(eventRing) /\ frontEvent.type = type

\* The handler returns an error or has nothing more to do.
NothingToDo == todo' = <<PopEvent>>
ThenPop(things) == todo' = things \o <<PopEvent>>

Outside == UNCHANGED <<control, interrupt, eventRing, pushed, xhc>>

\* OnTransferEventReceived: neither success nor a short packet.
OnTransferFailed ==
  /\ Handles("TransferEvent") /\ ~frontEvent.ok
  /\ NothingToDo
  /\ Outside /\ UNCHANGED <<setupMap, dev, hid, portPhase, keyboard>>

\* Mutant: the report is remembered before it is looked at.
OnReportRememberedFirst ==
  /\ Handles("TransferEvent") /\ frontEvent.ok /\ Issuer(frontEvent).type = "Normal"
  /\ keyboard' = keyboard
  /\ hid' = [hid EXCEPT !.previous = hid.buf]
  /\ ThenPop(InterruptIn)
  /\ Outside /\ UNCHANGED <<setupMap, dev, portPhase>>

\* OnInterruptCompleted of the class driver: every key that is in the report and
\* was not in the one before is told to the observer; the next report is asked for.
OnReport ==
  /\ Handles("TransferEvent") /\ frontEvent.ok /\ Issuer(frontEvent).type = "Normal"
  /\ keyboard' = [keyboard EXCEPT !.told =
                    [k \in Keys |-> IF k \in hid.buf \ hid.previous THEN @[k] + 1 ELSE @[k]]]
  /\ hid' = [hid EXCEPT !.previous = hid.buf]
  /\ ThenPop(InterruptIn)
  /\ Outside /\ UNCHANGED <<setupMap, dev, portPhase>>

\* What Device::OnControlCompleted makes of the completion of a request whose data
\* is in the buffer if the issuer was a data stage: the new device and what is to
\* be done; << >> is both success without more and an error.
NextOfDevice(request, data) ==
  LET Received(descriptor) == request \in {"GetDevice", "GetConfig"} /\ data
                              /\ dev.buf = descriptor
  IN  CASE dev.init = 1 /\ Received("Device") ->
             <<[dev EXCEPT !.init = 2], GetDescriptor("GetConfig")>>
        [] dev.init = 2 /\ Received("Config") /\ EpConfigs(dev.config) # << >> ->
             <<[dev EXCEPT !.init = 3, !.eps = EpConfigs(dev.config)], SetConfiguration>>
        [] dev.init = 3 /\ request = "SetConfig" -> <<[dev EXCEPT !.init = 4], << >> >>
        [] OTHER -> <<dev, << >> >>

\* A completion leads to its setup stage; without one, there is an error and nothing
\* more (with MapSize as large as it need be, CompletionsAreOwn says that there is one).
\* A device that is initialized leaves it to the class driver that waits for this
\* request; one that has become so is configured.
OnControlCompleted ==
  LET setup == control.high[Get(setupMap, frontEvent.at)]
      data  == Issuer(frontEvent).type = "Data"
      next  == NextOfDevice(setup.request, data)
      known == Holding(setupMap, frontEvent.at) # {}
  IN  /\ Handles("TransferEvent") /\ frontEvent.ok /\ Issuer(frontEvent).type # "Normal"
      /\ setupMap' = Delete(setupMap, frontEvent.at)
      /\ IF ~known \/ dev.init = 4
         THEN /\ IF known /\ Holding(dev.waiters, setup.request) # {} /\ hid.init = 1
                 THEN hid' = [hid EXCEPT !.init = 2] /\ ThenPop(InterruptIn)
                 ELSE NothingToDo /\ UNCHANGED hid
              /\ UNCHANGED <<dev, portPhase>>
         ELSE /\ dev' = next[1]
              /\ IF next[1].init = 4 /\ portPhase = "InitializingDevice"
                 THEN portPhase' = "ConfiguringEndpoints" /\ ThenPop(<<ConfigureEndpoint>>)
                 ELSE ThenPop(next[2]) /\ UNCHANGED portPhase
              /\ UNCHANGED hid
      /\ Outside /\ UNCHANGED keyboard

\* CompleteConfiguration: the class driver sets the boot protocol for each of its
\* endpoint numbers.  That the port is configured is noted at the end, but nothing
\* reads it before.
CompleteConfiguration ==
  /\ Handles("CommandCompletionEvent") /\ portPhase = "ConfiguringEndpoints"
  /\ portPhase' = "Configured"
  /\ ThenPop(<<ConfigureDrivers(Cardinality(Numbers(dev.eps)))>>)
  /\ Outside /\ UNCHANGED <<setupMap, dev, hid, keyboard>>

Handler == \/ OnTransferFailed \/ OnReport \/ OnControlCompleted \/ CompleteConfiguration

TransferDriver == \/ BeginsPush \/ GoesOnPushing \/ PutsSetupStage \/ RingsDoorbell
                  \/ SendsCommand \/ ConfiguresDriver \/ PopsEvent \/ Handler

----------------------------------------------------------------------------
(* The controller and the device.                                          *)

Runs(endpoint) == endpoint \in xhc.active \ xhc.halted

\* It looks for TRBs from the time the doorbell has been rung until it finds none.
GoesIdle ==
  /\ \/ Runs("control") /\ ~HasTrb(control)
        /\ xhc' = [xhc EXCEPT !.active = @ \ {"control"}]
     \/ Runs("interrupt") /\ ~HasTrb(interrupt)
        /\ xhc' = [xhc EXCEPT !.active = @ \ {"interrupt"}]
  /\ UNCHANGED <<control, interrupt, eventRing, todo, driverVars, keyboard>>

FollowsLink ==
  /\ \/ Runs("control") /\ AtLink(control)
        /\ control' = FollowLink(control) /\ UNCHANGED interrupt
     \/ Runs("interrupt") /\ AtLink(interrupt)
        /\ interrupt' = FollowLink(interrupt) /\ UNCHANGED control
  /\ UNCHANGED <<eventRing, todo, driverVars, xhc, keyboard>>

AtTrb(type) == Runs("control") /\ HasTrb(control) /\ NextTrb(control).type = type

TakesSetup ==
  /\ AtTrb("Setup")
  /\ xhc' = [xhc EXCEPT !.request = NextTrb(control).request]
  /\ control' = Take(control)
  /\ UNCHANGED <<interrupt, eventRing, todo, driverVars, keyboard>>

Completes(endpoint, place, ok) ==
  /\ HasRoom(eventRing)
  /\ eventRing' = Posted(eventRing, TransferCompletion(endpoint, place, ok, xhc.request))

\* The device sends the descriptor, which is shorter than the buffer.
TakesData ==
  /\ AtTrb("Data")
  /\ Completes("control", control.deq, TRUE)
  /\ dev' = [dev EXCEPT !.buf = IF xhc.request = "GetDevice" THEN "Device" ELSE "Config"]
  /\ control' = Take(control)
  /\ UNCHANGED <<interrupt, todo, pushed, setupMap, hid, portPhase, xhc, keyboard>>

TakesStatus ==
  /\ AtTrb("Status")
  /\ IF NextTrb(control).ioc THEN Completes("control", control.deq, TRUE) ELSE UNCHANGED eventRing
  /\ control' = Take(control)
  /\ UNCHANGED <<interrupt, todo, driverVars, xhc, keyboard>>

ExecutesCommand ==
  /\ xhc.command /\ HasRoom(eventRing)
  /\ eventRing' = Posted(eventRing, CommandCompletion)
  /\ xhc' = [xhc EXCEPT !.command = FALSE]
  /\ UNCHANGED <<control, interrupt, todo, driverVars, keyboard>>

\* A transfer fails: an event, whatever the TRB asks for, and the endpoint halts.
TransferFails ==
  /\ xhc.failures < MaxFailedTransfers
  /\ \/ /\ Runs("control") /\ HasTrb(control) /\ ~AtLink(control)
        /\ Completes("control", control.deq, FALSE)
        /\ control' = Take(control)
        /\ xhc' = [xhc EXCEPT !.failures = @ + 1, !.halted = @ \cup {"control"}]
        /\ UNCHANGED interrupt
     \/ /\ Runs("interrupt") /\ HasTrb(interrupt) /\ ~AtLink(interrupt)
        /\ Completes("interrupt", interrupt.deq, FALSE)
        /\ interrupt' = Take(interrupt)
        /\ xhc' = [xhc EXCEPT !.failures = @ + 1, !.halted = @ \cup {"interrupt"}]
        /\ UNCHANGED control
  /\ UNCHANGED <<todo, driverVars, keyboard>>

\* The keyboard puts its keys into the buffer of the class driver.
Reports ==
  /\ Runs("interrupt") /\ HasTrb(interrupt) /\ ~AtLink(interrupt)
  /\ Completes("interrupt", interrupt.deq, TRUE)
  /\ interrupt' = Take(interrupt)
  /\ LET tooMany == Cardinality(keyboard.down) > KeySlots
     IN  /\ hid' = [hid EXCEPT !.buf = IF tooMany THEN {RollOver} ELSE keyboard.down]
         /\ keyboard' = [keyboard EXCEPT !.changed = FALSE, !.rolled = @ \/ tooMany]
  /\ UNCHANGED <<control, todo, pushed, setupMap, dev, portPhase, xhc>>

\* A key goes down or up; the keyboard reports every change.
Types(k) ==
  /\ keyboard.changes < MaxChanges /\ ~keyboard.changed
  /\ keyboard' = [keyboard EXCEPT
       !.changes = @ + 1, !.changed = TRUE,
       !.down = IF k \in @ THEN @ \ {k} ELSE @ \cup {k},
       !.pressed[k] = IF k \in keyboard.down THEN @ ELSE @ + 1]
  /\ UNCHANGED <<control, interrupt, eventRing, todo, driverVars, xhc>>

TransferController == \/ GoesIdle \/ FollowsLink \/ TakesSetup \/ TakesData \/ TakesStatus
                      \/ ExecutesCommand \/ TransferFails

----------------------------------------------------------------------------
\* The device has its address: InitializeDevice and StartInitialize have begun.
TransfersInit ==
  /\ control = NewRing /\ interrupt = NewRing /\ eventRing = NewEventRing
  /\ todo = GetDescriptor("GetDevice")
  /\ pushed = [setup |-> 0, ioc |-> 0] /\ setupMap = EmptyMap(MapSize)
  /\ \E c \in Configs :
       dev = [init |-> 1, buf |-> "zero", config |-> c, eps |-> << >>,
              waiters |-> EmptyMap(Waiters)]
  /\ hid = [init |-> 0, buf |-> {}, previous |-> {}]
  /\ portPhase = "InitializingDevice"
  /\ xhc = [active |-> {}, halted |-> {}, request |-> "none", command |-> FALSE, failures |-> 0]
  /\ keyboard = [down |-> {}, changed |-> FALSE, rolled |-> FALSE, changes |-> 0,
                 pressed |-> [k \in Keys |-> 0], told |-> [k \in Keys |-> 0]]

TransfersNext == TransferDriver \/ TransferController \/ Reports \/ \E k \in Keys : Types(k)

\* The main task handles every event, the controller goes on at each endpoint, and
\* a keyboard that has been asked reports a change.  Nobody has to type.
TransfersFairness ==
  /\ WF_transfersVars(TransferDriver)
  /\ WF_transfersVars(TakesSetup \/ TakesData \/ TakesStatus \/ FollowsLink \/ ExecutesCommand)
  /\ WF_transfersVars(keyboard.changed /\ Reports)

TransfersSpec == TransfersInit /\ [][TransfersNext]_transfersVars /\ TransfersFairness

----------------------------------------------------------------------------
(* What must hold.                                                         *)

TransfersTypeOK ==
  /\ dev.init \in 1 .. 4 /\ hid.init \in 0 .. 2
  /\ portPhase \in {"InitializingDevice", "ConfiguringEndpoints", "Configured"}
  /\ pushed \in [setup : Places, ioc : Places]
  /\ xhc.active \cup xhc.halted \subseteq {"control", "interrupt"}
  /\ hid.buf \cup hid.previous \subseteq Keys \cup {RollOver}

\* An event only points to a TRB, and the driver reads the TRB, and the setup stage
\* before it, again from memory it may have written since.  What it reads is what
\* the device was asked for; and the stages reach the controller as it expects
\* them.  The types are checked with it.
CompletionsAreOwn ==
  /\ TransfersTypeOK
  /\ Ready /\ todo = << >> =>
       \A i \in 1 .. EventCount(eventRing) :
         LET e == Pending(eventRing)[i]
         IN  e.type = "TransferEvent" /\ e.ok =>
               IF e.endpoint = "interrupt" THEN Issuer(e) = Normal
               ELSE /\ Issuer(e).type \in {"Data", "Status"} /\ Issuer(e).ioc
                    /\ Holding(setupMap, e.at) # {}
                    /\ control.high[Get(setupMap, e.at)].type = "Setup"
                    /\ control.high[Get(setupMap, e.at)].request = e.request
  /\ HasTrb(control) /\ ~AtLink(control) =>
       LET x == NextTrb(control).type
           last == control.seen[2]
       IN  CASE last.type = "Setup" -> x = IF last.data THEN "Data" ELSE "Status"
             [] last.type = "Data"  -> x = "Status"
             [] OTHER               -> x = "Setup"

\* The rings are queues although nobody looks whether a ring is full and the
\* halves of a TRB are written one after the other: the device's use of its rings
\* keeps the promise they rest on.
ControlRing == INSTANCE RingQueue
  WITH Trbs <- ControlTrbs, Events <- {}, ring <- control, eventRing <- eventRing
InterruptRing == INSTANCE RingQueue
  WITH Trbs <- {Normal}, Events <- {}, ring <- interrupt, eventRing <- eventRing

RingsAreQueues == ControlRing!TrbsSent!Spec /\ InterruptRing!TrbsSent!Spec

\* Every key that is pressed is told once, at the latest when the report that has
\* it has been handled: not again while it is held down, whatever other keys do,
\* nor because a report is repeated.  That ends when more keys are down than a
\* report holds: after such a report the keys still held are told again.
EachPressToldOnce ==
  LET underWay == keyboard.changed \/ \E i \in 1 .. EventCount(eventRing) :
                    Pending(eventRing)[i].type = "TransferEvent"
                    /\ Pending(eventRing)[i].endpoint = "interrupt"
  IN  ~keyboard.rolled => \A k \in Keys :
        IF underWay THEN keyboard.pressed[k] - keyboard.told[k] \in {0, 1}
        ELSE keyboard.pressed[k] = keyboard.told[k]

\* From the device descriptor to the key: whatever is pressed is told in the end,
\* if the device has a keyboard the kernel knows and no transfer fails.
KeysAreTold ==
  \A k \in Keys :
    keyboard.pressed[k] > keyboard.told[k] ~>
      \/ keyboard.pressed[k] = keyboard.told[k]
      \/ xhc.failures > 0 \/ keyboard.rolled \/ EpConfigs(dev.config) = << >>

============================================================================
