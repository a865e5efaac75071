--------------------------- MODULE AhciInterrupts ---------------------------
(***************************************************************************)
(* The way of a disk's answer through the AHCI driver: the registers of    *)
(* the controller, the interrupt handler (src/ata/ahci.cpp,                *)
(* src/ata/port.cpp), its two levels of queues, and the task that empties  *)
(* them and completes the command (src/ata/SATAController.cpp).  How the   *)
(* task sets the controller up before that is in AhciStart.                *)
(*                                                                         *)
(* The handler is a few steps, because the controller goes on while it     *)
(* runs; the steps of the task are what it does between two points where   *)
(* the handler can come in.                                                *)
(***************************************************************************)
EXTENDS Integers, FiniteSets, SequencesExt

CONSTANT Controllers   \* the controllers, with their disks, that the machine may have

\* PI: the implemented ports; device: what is at each of them.
ASSUME ControllersAssumption ==
  \A c \in Controllers : /\ c.PI # {} /\ c.PI \subseteq 0 .. 31 /\ c.NCS \in 0 .. 31
                         /\ {c.SSS, c.SPM, c.SAM} \subseteq BOOLEAN
                         /\ \A p \in c.PI : c.device[p] \in {"ATA", "ATAPI", "none"}

\* What IDENTIFY leads to: the data is there, the command is complete.
Answers == <<"PSS", "DHRS">>
Types == {"PSS", "DHRS", "PCS"}
BitOrder == <<"DHRS", "PSS", "PCS">>     \* bits 0, 1 and 6 of PxIS

VARIABLES
  hba,          \* the controller of this machine
  ghc,          \* its register GHC
  is,           \* its register IS: the ports that ask
  reg,          \* the registers of each port
  todo,         \* what each disk has still to report
  isr,          \* where the handler is: step, index in port_, and the bit of PxIS
  que,          \* AHCIController::interrupt_que_
  portQue,      \* PortController::interrupt_queue of each port
  type_,        \* PortController::type_
  msgs,         \* kInterruptAHCI messages the task has yet to receive
  task,         \* where the task is: step, and how far its two loops are
  commands,     \* SATAController::command_que of each port: how many
  dev_info_temp,\* whose identity the buffer holds that the commands share
  dev_info,     \* and whose a disk has been told
  dirty,        \* the ports whose command table was built in memory that held something
  raced,        \* history: a port reported while its registers were being cleared, or
                \* the handler ran while the task emptied the queues
  disturbed     \* history: a port was given its lists while it ran

hardware == <<hba, ghc, is, reg, todo>>
queues == <<que, portQue>>
disks == <<type_, commands, dev_info_temp, dev_info, dirty>>
vars == <<hardware, isr, queues, msgs, task, disks, raced, disturbed>>

Ports == hba.PI

\* The implemented ports, one after the other (a vector; here its indices begin at 1).
port_ == CHOOSE s \in [1 .. Cardinality(Ports) -> Ports] :
           \A i, j \in DOMAIN s : i < j => s[i] < s[j]

Nobody == -1
NoHandler == [step |-> "off", port |-> 1, bit |-> 1]
Loop == [step |-> "loop", port |-> 1, ports |-> 0, type |-> 1, types |-> 0]

\* At its end the handler lets other interrupts, and so other tasks, in.
HandlerRuns == isr.step \notin {"off", "enable"}
TaskEmpties == task.step \in {"ports", "types"}

----------------------------------------------------------------------------
(* The disks.                                                              *)

\* Interrupt type t comes up at port p.  A change of the connection is not seen again
\* by the wait of InitializeSecound that the port has got behind.
PortReports(p, t, late) ==
  /\ reg' = [reg EXCEPT ![p].PxIS = @ \cup {t}, ![p].CI = IF t = "DHRS" THEN {} ELSE @,
                        ![p].up = TRUE]
  /\ is' = IF reg[p].PxIE THEN is \cup {p} ELSE is
  /\ raced' = (raced \/ HandlerRuns \/ late)
  /\ UNCHANGED <<hba, ghc, isr, queues, type_, msgs, task, commands, dev_info, dirty, disturbed>>

\* A disk answers when its port runs and takes what it sends.  The data goes to the
\* buffer the command table names; there is no saying where, if that memory was dirty.
Report(p) ==
  /\ todo[p] # << >> /\ reg[p].ST /\ reg[p].FRE
  /\ todo' = [todo EXCEPT ![p] = Tail(@)]
  /\ dev_info_temp' \in IF Head(todo[p]) # "PSS" THEN {dev_info_temp}
                        ELSE {p} \cup (IF p \in dirty THEN {dev_info_temp} ELSE {})
  /\ PortReports(p, Head(todo[p]), FALSE)

----------------------------------------------------------------------------
(* The handler, IntHandlerAHCI.                                            *)

HandlerUnchanged == UNCHANGED <<hba, todo, disks, task, raced, disturbed>>

Enter ==
  /\ isr.step = "off" /\ is # {} /\ ghc.IE
  /\ ghc' = [ghc EXCEPT !.IE = FALSE]
  /\ isr' = [NoHandler EXCEPT !.step = "port"]
  /\ raced' = (raced \/ TaskEmpties)
  /\ UNCHANGED <<hba, is, reg, todo, queues, msgs, task, disks, disturbed>>

NextPort(k) == IF k < Len(port_) THEN [NoHandler EXCEPT !.step = "port", !.port = k + 1]
                                 ELSE [NoHandler EXCEPT !.step = "clear"]

\* Is it this port that asked?
LookAtPort ==
  /\ isr.step = "port"
  /\ isr' = IF port_[isr.port] \in is THEN [isr EXCEPT !.step = "bits"] ELSE NextPort(isr.port)
  /\ UNCHANGED <<ghc, is, reg, queues, msgs>> /\ HandlerUnchanged

\* PortController::Interrupt reads PxIS again for every bit and stacks the type.  A
\* change of the connection is cleared by way of PxSERR, at once.
LookAtBit ==
  LET p == port_[isr.port]
      type == BitOrder[isr.bit]
  IN  /\ isr.step = "bits"
      /\ portQue' = IF type \in reg[p].PxIS
                    THEN [portQue EXCEPT ![p] = Append(@, type)] ELSE portQue
      /\ reg' = IF type = "PCS" THEN [reg EXCEPT ![p].PxIS = @ \ {"PCS"}] ELSE reg
      /\ isr' = IF isr.bit < Len(BitOrder) THEN [isr EXCEPT !.bit = @ + 1]
                                           ELSE [isr EXCEPT !.step = "write"]
      /\ UNCHANGED <<ghc, is, que, msgs>> /\ HandlerUnchanged

\* PxIS |= clear_pxis writes ones to all bits that are set, the ones that were
\* not seen included; those of PxSERR do not mind.
AfterWrite(pxis) == pxis \cap {"PCS"}

WritePxIS ==
  /\ isr.step = "write"
  /\ reg' = [reg EXCEPT ![port_[isr.port]].PxIS = AfterWrite(@)]
  /\ isr' = [isr EXCEPT !.step = "wait"]
  /\ UNCHANGED <<ghc, is, queues, msgs>> /\ HandlerUnchanged

\* Mutant: the port is queued if no other is.
QueuePortIfEmpty ==
  LET p == port_[isr.port]
  IN  /\ isr.step = "wait" /\ reg[p].PxIS = {}
      /\ que' = IF type_[p] = "ATA" /\ que = << >> THEN <<p>> ELSE que
      /\ isr' = NextPort(isr.port)
      /\ UNCHANGED <<ghc, is, reg, portQue, msgs>> /\ HandlerUnchanged

\* while (PxIS) hlt ends at once, or never; then the port is queued, by its number.
QueuePort ==
  LET p == port_[isr.port]
  IN  /\ isr.step = "wait" /\ reg[p].PxIS = {}
      /\ que' = IF type_[p] = "ATA" THEN Append(que, p) ELSE que
      /\ isr' = NextPort(isr.port)
      /\ UNCHANGED <<ghc, is, reg, portQue, msgs>> /\ HandlerUnchanged

\* IS |= IS: the ports that still ask stay.
StillAsk == {p \in Ports : reg[p].PxIS # {} /\ reg[p].PxIE}

ClearIS ==
  /\ isr.step = "clear"
  /\ is' = StillAsk
  /\ isr' = [isr EXCEPT !.step = "send"]
  /\ UNCHANGED <<ghc, reg, queues, msgs>> /\ HandlerUnchanged

\* while (IS) ends at once, or never; then the task is sent kInterruptAHCI.
Send ==
  /\ isr.step = "send" /\ is = {}
  /\ msgs' = msgs + 1
  /\ isr' = [isr EXCEPT !.step = "enable"]
  /\ UNCHANGED <<ghc, is, reg, queues>> /\ HandlerUnchanged

\* SetIntteruptFlag(true).
Enable ==
  /\ isr.step = "enable"
  /\ ghc' = [ghc EXCEPT !.IE = TRUE]
  /\ isr' = NoHandler
  /\ UNCHANGED <<is, reg, queues, msgs>> /\ HandlerUnchanged

Handler == LookAtPort \/ LookAtBit \/ WritePxIS \/ QueuePort \/ ClearIS \/ Send \/ Enable

----------------------------------------------------------------------------
(* The task, once the controller is set up.                                *)

TaskUnchanged == UNCHANGED <<hardware, isr, type_, dev_info_temp, dirty, raced, disturbed>>

\* Mutant: a message stands for one port.
ReceiveForOne ==
  /\ ~HandlerRuns /\ task.step = "loop" /\ msgs > 0
  /\ msgs' = msgs - 1
  /\ task' = [Loop EXCEPT !.step = "ports", !.ports = IF que = << >> THEN 0 ELSE 1]
  /\ UNCHANGED <<queues, commands, dev_info>> /\ TaskUnchanged

\* A message: AHCIController::InterruptMessage begins to go through the queue.
\* What is appended while it does so is not visited.
Receive ==
  /\ ~HandlerRuns /\ task.step = "loop" /\ msgs > 0
  /\ msgs' = msgs - 1
  /\ task' = [Loop EXCEPT !.step = "ports", !.ports = Len(que)]
  /\ UNCHANGED <<queues, commands, dev_info>> /\ TaskUnchanged

\* port_[info.port]: the number that was queued is taken for the index.
Index == que[task.port] + 1

\* Its loop comes to the next port, and begins to go through that one's queue, unless
\* it has no SATAController.  Behind the end of port_ anything may happen.
TakePort ==
  /\ ~HandlerRuns /\ task.step = "ports" /\ task.port <= task.ports
  /\ task' = IF Index \notin DOMAIN port_ THEN [task EXCEPT !.step = "undefined"]
             ELSE IF type_[port_[Index]] # "ATA" THEN [task EXCEPT !.port = @ + 1]
             ELSE [task EXCEPT !.step = "types", !.type = 1,
                               !.types = Len(portQue[port_[Index]])]
  /\ UNCHANGED <<queues, msgs, commands, dev_info>> /\ TaskUnchanged

\* SATAController::InterruptMessage: DHRS completes the oldest command.  All commands
\* have had the same buffer for their data.
HandleType ==
  LET p == port_[Index]
  IN  /\ ~HandlerRuns /\ task.step = "types" /\ task.type <= task.types
      /\ IF portQue[p][task.type] = "DHRS"
         THEN /\ commands' = [commands EXCEPT ![p] = @ - 1]
              /\ dev_info' = [dev_info EXCEPT ![p] = dev_info_temp]
         ELSE UNCHANGED <<commands, dev_info>>
      /\ task' = [task EXCEPT !.type = @ + 1]
      /\ UNCHANGED <<queues, msgs>> /\ TaskUnchanged

\* Mutant: the queue of the port is left as it is.
KeepPortQueue ==
  /\ ~HandlerRuns /\ task.step = "types" /\ task.type > task.types
  /\ task' = [task EXCEPT !.step = "ports", !.port = @ + 1]
  /\ UNCHANGED <<queues, msgs, commands, dev_info>> /\ TaskUnchanged

ClearPortQueue ==
  /\ ~HandlerRuns /\ task.step = "types" /\ task.type > task.types
  /\ portQue' = [portQue EXCEPT ![port_[Index]] = << >>]
  /\ task' = [task EXCEPT !.step = "ports", !.port = @ + 1]
  /\ UNCHANGED <<que, msgs, commands, dev_info>> /\ TaskUnchanged

ClearQueue ==
  /\ ~HandlerRuns /\ task.step = "ports" /\ task.port > task.ports
  /\ que' = << >>
  /\ task' = Loop
  /\ UNCHANGED <<portQue, msgs, commands, dev_info>> /\ TaskUnchanged

EmptyQueues == Receive \/ TakePort \/ HandleType \/ ClearPortQueue \/ ClearQueue

============================================================================
