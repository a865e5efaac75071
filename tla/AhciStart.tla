----------------------------- MODULE AhciStart -----------------------------
(***************************************************************************)
(* How the AHCI task sets the controller up (AHCIController::Initialize in *)
(* src/ata/ahci.cpp, InitializeFirst, InitializeSecound and                *)
(* MakeSATAController in src/ata/port.cpp) and sends the disks their first *)
(* command, while they come up and, from then on, answer (AhciInterrupts). *)
(* task.step is where the task is, task.port its index in port_.           *)
(***************************************************************************)
EXTENDS AhciInterrupts, AhciCommand, Counting

\* The registers of a port that matter here; up is DET = 3 of PxSSTS, lists stands for
\* PxCLB and PxFB.
PortRegisters ==
  [ST : BOOLEAN, FRE : BOOLEAN, SUD : BOOLEAN, up : BOOLEAN, lists : BOOLEAN,
   PxIE : BOOLEAN, PxIS : SUBSET Types, CI : SUBSET (0 .. 31)]

AfterReset == [ST |-> FALSE, FRE |-> FALSE, SUD |-> FALSE, up |-> FALSE,
               lists |-> FALSE, PxIE |-> FALSE, PxIS |-> {}, CI |-> {}]

Steps == <<"start", "reset", "first", "second", "comreset", "detect", "wait port", "clear",
           "wait IS", "make", "loop", "ports", "types", "undefined">>

\* The task has got as far as that step.
SetUpTo(step) ==
  LET Place(s) == CHOOSE i \in DOMAIN Steps : Steps[i] = s
  IN  Place(task.step) >= Place(step)

----------------------------------------------------------------------------
(* The controller.                                                         *)

\* The firmware may have left the ports running.
FirmwareLeaves ==
  {[p \in Ports |-> [AfterReset EXCEPT !.ST = running, !.FRE = running,
                                       !.up = hba.device[p] # "none"]] : running \in BOOLEAN}

Unmoved == UNCHANGED <<hba, todo, isr, queues, type_, msgs, task, commands, dev_info,
                       dev_info_temp, dirty, disturbed>>

\* A controller that knows nothing but AHCI never leaves that mode.
ResetCompletes ==
  /\ ghc.HR
  /\ ghc' = [HR |-> FALSE, AE |-> hba.SAM, IE |-> FALSE]
  /\ reg' = [p \in Ports |-> AfterReset] /\ is' = {}
  /\ UNCHANGED raced /\ Unmoved

\* The task has looked what is at port p, and does not yet take interrupts.
Behind(p) ==
  \/ task.step \in {"clear", "wait IS"}
  \/ /\ task.step \in {"second", "comreset", "detect", "wait port"}
     /\ \E k \in DOMAIN port_ :
          port_[k] = p /\ (k < task.port \/ (k = task.port /\ task.step = "wait port"))

\* A device is connected once it has been spun up, and the port reports it.
Connects(p) ==
  /\ hba.device[p] # "none" /\ ~reg[p].up /\ (hba.SSS => reg[p].SUD)
  /\ ~ghc.HR /\ SetUpTo("first")
  /\ PortReports(p, "PCS", Behind(p))
  /\ UNCHANGED <<todo, dev_info_temp>>

----------------------------------------------------------------------------
(* AHCIController::Initialize.                                             *)

\* Nothing is in the queues yet, and the handler does not run.
SettingUp(from, to) ==
  /\ task.step = from /\ task' = to
  /\ UNCHANGED <<hba, todo, isr, que, msgs, commands, dev_info_temp, dev_info, dirty, raced>>

At(step) == [Loop EXCEPT !.step = step]
AtPort(step, k) == [At(step) EXCEPT !.port = k]

\* From one port to the next, and then on.
NextOf(step, then) ==
  IF task.port < Len(port_) THEN AtPort(step, task.port + 1) ELSE At(then)

Reset ==
  /\ SettingUp("start", At("reset"))
  /\ ghc' = [ghc EXCEPT !.AE = TRUE, !.HR = TRUE]
  /\ UNCHANGED <<is, reg, portQue, type_, disturbed>>

\* Mutant: nobody waits for the reset.
ResetDoneAtOnce ==
  /\ SettingUp("reset", At("first"))
  /\ ghc' = [ghc EXCEPT !.AE = @ \/ ~hba.SPM]
  /\ UNCHANGED <<is, reg, portQue, type_, disturbed>>

\* AHCI mode is set again only if the controller does not support port multipliers.
ResetDone ==
  /\ ~ghc.HR /\ SettingUp("reset", At("first"))
  /\ ghc' = [ghc EXCEPT !.AE = @ \/ ~hba.SPM]
  /\ UNCHANGED <<is, reg, portQue, type_, disturbed>>

p_ == port_[task.port]

\* InitializeFirst.  PortEnable leaves a port alone that runs; after the reset none does.
InitializeFirst ==
  /\ SettingUp("first", NextOf("first", "second"))
  /\ reg' = [reg EXCEPT ![p_].lists = TRUE, ![p_].PxIS = {},
                        ![p_].SUD = @ \/ hba.SSS, ![p_].FRE = TRUE]
  /\ disturbed' = (disturbed \/ reg[p_].ST)
  /\ UNCHANGED <<ghc, is, portQue, type_>>

\* Mutant: PortDisable does what it is called.
PortDisableStops(r) == [r EXCEPT !.ST = FALSE, !.FRE = TRUE]

\* It stops the port and has it run again.
PortDisable(r) == [r EXCEPT !.ST = TRUE, !.FRE = TRUE]

\* InitializeSecound up to the first wait.  PortEnable finds a port that runs.
InitializeSecound ==
  /\ SettingUp("second", [task EXCEPT !.step = "comreset"])
  /\ reg' = [reg EXCEPT ![p_] = [PortDisable(@) EXCEPT !.PxIS = reg[p_].PxIS \ {"PCS"},
                                                    !.PxIE = TRUE]]
  /\ UNCHANGED <<ghc, is, portQue, type_, disturbed>>

\* The connection is reset if the device is neither busy nor asking for data, which
\* of a device that is not connected the register does not say.
ComReset ==
  /\ SettingUp("comreset", [task EXCEPT !.step = "detect"])
  /\ \E up \in IF reg[p_].up THEN BOOLEAN ELSE {FALSE} :
       reg' = [reg EXCEPT ![p_] = [PortDisable(@) EXCEPT !.up = up]]
  /\ UNCHANGED <<ghc, is, portQue, type_, disturbed>>

\* After the second wait: is there a device, and has it said what it is?  Then the
\* interrupts of the port are cleared as by the handler.
Detect ==
  /\ SettingUp("detect", [task EXCEPT !.step = "wait port"])
  /\ \E t \in {"null"} \cup (IF reg[p_].up THEN {hba.device[p_]} ELSE {}) :
       type_' = [type_ EXCEPT ![p_] = t]
  /\ reg' = [reg EXCEPT ![p_].PxIS = {}]
  /\ UNCHANGED <<ghc, is, portQue, disturbed>>

Detected ==
  /\ SettingUp("wait port", NextOf("second", "clear"))
  /\ reg[p_].PxIS = {}
  /\ portQue' = [portQue EXCEPT ![p_] = << >>]
  /\ UNCHANGED <<ghc, is, reg, type_, disturbed>>

ClearAll ==
  /\ SettingUp("clear", At("wait IS"))
  /\ is' = StillAsk
  /\ UNCHANGED <<ghc, reg, portQue, type_, disturbed>>

EnableInterrupts ==
  /\ is = {} /\ SettingUp("wait IS", At("make"))
  /\ ghc' = [ghc EXCEPT !.IE = TRUE]
  /\ UNCHANGED <<is, reg, portQue, type_, disturbed>>

\* MakeSATAController: the constructor clears the buffer and has SendH2DFIS send
\* IDENTIFY.  The command table lies in two new frames that nobody clears: fields that
\* are not written, and the upper half of the buffer's address if the driver takes the
\* controller for a 32-bit one, are what was there.
MakeSATAController ==
  /\ ~HandlerRuns /\ task.step = "make"
  /\ task' = NextOf("make", "loop")
  /\ IF type_[p_] = "ATA"
     THEN /\ dev_info_temp' = Nobody
          /\ reg' = [reg EXCEPT ![p_].CI = @ \cup {FindFreeSlot(@, hba.NCS)}]
          /\ commands' = [commands EXCEPT ![p_] = @ + 1]
          /\ dirty' \in {dirty, dirty \cup {p_}}
          /\ todo' \in {[todo EXCEPT ![p_] = a] : a \in {Answers} \cup (IF p_ \in dirty' THEN {<< >>} ELSE {})}
     ELSE UNCHANGED <<dev_info_temp, reg, commands, dirty, todo>>
  /\ UNCHANGED <<hba, ghc, is, isr, queues, type_, msgs, dev_info, raced, disturbed>>

Task ==
  \/ Reset \/ ResetDone \/ InitializeFirst \/ InitializeSecound \/ ComReset \/ Detect \/ Detected
  \/ ClearAll \/ EnableInterrupts \/ MakeSATAController \/ EmptyQueues

----------------------------------------------------------------------------
Init ==
  /\ hba \in Controllers
  /\ ghc \in {[HR |-> FALSE, AE |-> ae, IE |-> FALSE] : ae \in {TRUE, hba.SAM}}
  /\ is = {} /\ reg \in FirmwareLeaves
  /\ todo = [p \in Ports |-> << >>]
  /\ isr = NoHandler
  /\ que = << >> /\ portQue = [p \in Ports |-> << >>]
  /\ type_ = [p \in Ports |-> "null"]
  /\ msgs = 0 /\ task = At("start")
  /\ commands = [p \in Ports |-> 0]
  /\ dev_info_temp = Nobody /\ dev_info = [p \in Ports |-> Nobody] /\ dirty = {}
  /\ raced = FALSE /\ disturbed = FALSE

Hardware == ResetCompletes \/ \E p \in Ports : Connects(p) \/ Report(p)

Next == Task \/ Enter \/ Handler \/ Hardware

\* The controller resets when told, the disks answer,
\* the handler is entered when it can be and runs, and the task gets the processor
\* again and again (module Scheduler).
Spec ==
  /\ Init /\ [][Next]_vars
  /\ SF_vars(Task) /\ WF_vars(Enter) /\ WF_vars(Handler) /\ WF_vars(ResetCompletes)
  /\ \A p \in 0 .. 31 : WF_vars(p \in Ports /\ Report(p))

----------------------------------------------------------------------------
(* What must hold.                                                         *)

TypeOK ==
  /\ hba \in Controllers /\ ghc \in [HR : BOOLEAN, AE : BOOLEAN, IE : BOOLEAN]
  /\ is \subseteq Ports /\ reg \in [Ports -> PortRegisters]
  /\ todo \in [Ports -> Seq(Types)]
  /\ isr.step \in {"off", "port", "bits", "write", "wait", "clear", "send", "enable"}
  /\ isr.port \in DOMAIN port_ /\ isr.bit \in DOMAIN BitOrder
  /\ que \in Seq(Ports) /\ portQue \in [Ports -> Seq(Types)]
  /\ type_ \in [Ports -> {"ATA", "ATAPI", "null"}] /\ msgs \in Nat
  /\ task.step \in Range(Steps)
  /\ commands \in [Ports -> Nat] /\ dev_info_temp \in Ports \cup {Nobody}
  /\ dev_info \in [Ports -> Ports \cup {Nobody}] /\ dirty \subseteq Ports
  /\ raced \in BOOLEAN /\ disturbed \in BOOLEAN

\* What the task has not yet gone through of the types of port p.
Left(p) == IF task.step = "types" /\ port_[Index] = p
           THEN SubSeq(portQue[p], task.type, Len(portQue[p])) ELSE portQue[p]

\* InterruptD2H takes the front of command_que without a test that there is one.
\* So no more DHRS may ever be on the way than there are commands.  The types are
\* checked with it.
CommandIsWaiting ==
  TypeOK /\ \A p \in Ports : CountIn(Left(p), {"DHRS"}) <= commands[p]

\* The index of the port in port_ is its number.
InPlace(p) == p < Len(port_) /\ port_[p + 1] = p

\* The two levels of queues and the task's messages agree: what is in the queue
\* of the controller is announced, so that the task has a message left, or is at
\* it, or the handler is about to send one, and not even a race changes that.  A
\* disk with types in its own queue is in the queue of the controller, unless the
\* handler is at it or there was a race.
QueuesAgree ==
  /\ que # << >> => msgs > 0 \/ TaskEmpties \/ HandlerRuns \/ task.step = "undefined"
  /\ ~raced => \A p \in Ports :
                 type_[p] = "ATA" /\ InPlace(p) /\ portQue[p] # << >> =>
                   p \in ToSet(que) \/ (HandlerRuns /\ port_[isr.port] = p)

\* A port is given its lists only while it stands still, and a command only when it
\* runs, has its lists, and may interrupt; and the controller is then in AHCI mode,
\* but for one with port multipliers that has another mode too, for which the test of
\* SPM in place of SAM leaves AE clear (ahci.cpp:70).
AhciIsProgrammed ==
  /\ ~disturbed
  /\ \A p \in Ports : commands[p] > 0 =>
       /\ reg[p].ST /\ reg[p].FRE /\ reg[p].lists /\ reg[p].PxIE
       /\ ghc.IE \/ isr.step # "off"
       /\ ghc.AE \/ (hba.SPM /\ ~hba.SAM)

\* A disk the driver has found is told who it is, and if it is the only one, it is told
\* right; more than one share the buffer and may be told of each other.  It is not so
\* after a race, with a port whose index in port_ is not its number (or any other, once
\* the task has gone behind the end of port_), or when the memory of its command table
\* was dirty.
DisksIdentified ==
  LET Found == {p \in Ports : type_[p] = "ATA"}
      Told(p) == dev_info[p] = p \/ (commands[p] = 0 /\ Found # {p})
  IN  <>raced \/ <>(task.step = "undefined")
      \/ <>[](SetUpTo("loop") /\ \A p \in Found : InPlace(p) => p \in dirty \/ Told(p))

============================================================================
