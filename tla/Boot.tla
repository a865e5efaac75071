-------------------------------- MODULE Boot --------------------------------
(***************************************************************************)
(* The boot (KernelMainNewStack in src/main.cpp up to its message loop):   *)
(* the memory is set up (Frames), the PCI bus scanned (PciScan), the ACPI  *)
(* tables read (Acpi), the local APIC timer calibrated against the power   *)
(* management timer, and the xHCI controller started (XhcStart).           *)
(***************************************************************************)
EXTENDS Frames, Acpi, XhcStart

CONSTANTS
  Scan(_),      \* ScanAllBus: the functions found in a machine, in order
  PmPeriod,     \* the power management timer counts modulo this
  Pm100ms,      \* its counts in 100 milliseconds
  MaxRead,      \* its counts from one read to the next, at most
  LapicRate,    \* counts of the local APIC timer in one of these
  kCountMax,
  kTimerFreq,
  MaxDevices    \* bound: devices that are plugged in

\* A period of the power management timer is longer than the wait, and than two reads;
\* the local APIC timer does not come to its end in the time that is waited for.
ASSUME ClockAssumption ==
  /\ {PmPeriod, Pm100ms, MaxRead, LapicRate, kCountMax, kTimerFreq} \subseteq Nat \ {0}
  /\ Pm100ms + MaxRead < PmPeriod /\ 2 * MaxRead <= PmPeriod
  /\ LapicRate * Pm100ms <= kCountMax

\* The scan finds nothing but functions of the machine.  What the driver does not look
\* at: its controller has the MSI capability, which is not where Intel's has its ports.
ASSUME MachinesAssumption ==
  /\ MaxDevices \in 0 .. kDeviceSize
  /\ \A m \in Machines :
       /\ m.functions \subseteq PciFunction /\ m.tables \in AcpiTables
       /\ m.scratchpads \in Nat /\ m.legacy \in BOOLEAN
       /\ m.pool_base \in Nat \ {0} /\ m.pool_base % 64 = 0
       /\ Scan(m.functions) \in Seq(m.functions)
       /\ \A f \in m.functions : Match(f, PciXhci) =>
            LET cap == Find_CapAddress(f, kCapabilityMSI)
            IN  /\ cap # 0 /\ m.conf[cap] \in MSI_Header
                /\ {cap + k : k \in {0, 4, 8, 12, 16, 20}} \subseteq DOMAIN m.conf \ {208, 216}

VARIABLES
  timer,          \* the power management timer, and WaitMilliseconds: start and end
  current_count,  \* of the local APIC timer, until it interrupts: it stops at 0
  initial_count

clockVars == <<timer, current_count, initial_count>>
bootVars == <<vars, xhcVars, clockVars>>

NoTimer == [count |-> 0, start |-> 0, end |-> 0]

----------------------------------------------------------------------------
(* Memory, buses and tables.                                               *)

\* InitializeMemoryManager; the kernel exits if there is no memory for the heap.
InitializeMemory ==
  /\ at = "memory"
  /\ \/ /\ ReadDescriptor \/ InitializeHeap \/ Search
        /\ UNCHANGED at
     \/ /\ pc \in {"idle", "exit"} /\ at' = (IF pc = "idle" THEN "pci" ELSE "exit")
        /\ UNCHANGED vars
  /\ UNCHANGED <<machine, devices, msi, mmio_base, xhc, pool, clockVars>>

InitializePCI ==
  /\ Goes("pci", "tables")
  /\ devices' = Scan(machine.functions)
  /\ UNCHANGED <<vars, machine, msi, mmio_base, xhc, pool, clockVars>>

ReadTables ==
  /\ Goes("tables", IF AcpiInitializes(machine.tables) THEN "calibrate" ELSE "exit")
  /\ Keeps /\ UNCHANGED <<vars, xhc, pool, clockVars>>

----------------------------------------------------------------------------
(* apic::timer::Initialize, and in it acpi::WaitMilliseconds(100).         *)

Calibrating == Keeps /\ UNCHANGED <<vars, xhc, pool>>

\* Mutant: the overflow of end is not noticed.
StartWaitPlain ==
  /\ Goes("calibrate", "wait_end")
  /\ \E c \in 0 .. PmPeriod - 1 :
       timer' = [count |-> c, start |-> c, end |-> (c + Pm100ms) % PmPeriod]
  /\ initial_count' = kCountMax /\ current_count' = kCountMax
  /\ Calibrating

\* The local APIC timer is started at its maximum, and the wait begins.  end has as
\* many bits as the timer, 24 or 32.
StartWait ==
  /\ \E c \in 0 .. PmPeriod - 1 :
       LET end == (c + Pm100ms) % PmPeriod
       IN  /\ timer' = [count |-> c, start |-> c, end |-> end]
           /\ Goes("calibrate", IF end < c THEN "wait_overflow" ELSE "wait_end")
  /\ initial_count' = kCountMax /\ current_count' = kCountMax
  /\ Calibrating

\* One turn of a loop that reads the timer; over: the counts that end it.
ReadTimer(from, to, over) ==
  /\ at = from
  /\ \E k \in 1 .. MaxRead :
       LET c == (timer.count + k) % PmPeriod
       IN  /\ timer' = [timer EXCEPT !.count = c]
           /\ current_count' = IF current_count > LapicRate * k
                               THEN current_count - LapicRate * k ELSE 0
           /\ at' = IF c \in over THEN to ELSE from
  /\ UNCHANGED initial_count /\ Calibrating

WaitOverflow == ReadTimer("wait_overflow", "wait_end", 0 .. timer.start - 1)
WaitEnd == ReadTimer("wait_end", "periodic", timer.end .. PmPeriod - 1)

LAPICTimerElapsed == kCountMax - current_count

\* From now on the timer interrupts kTimerFreq times a second.
StartPeriodic ==
  /\ Goes("periodic", "find")
  /\ initial_count' = (LAPICTimerElapsed * 10) \div kTimerFreq
  /\ timer' = NoTimer /\ current_count' = 0
  /\ Calibrating

----------------------------------------------------------------------------
BootInit ==
  /\ Init
  /\ machine \in Machines /\ at = "memory"
  /\ devices = <<>> /\ msi = <<>> /\ mmio_base = [high |-> 0, low |-> 0]
  /\ xhc \in FirmwareLeaves(machine.legacy) /\ pool = NewPool(machine.pool_base)
  /\ timer = NoTimer /\ current_count = 0 /\ initial_count = 0

\* What the main task does.
MainTask ==
  \/ InitializeMemory \/ InitializePCI \/ ReadTables
  \/ StartWait \/ WaitOverflow \/ WaitEnd \/ StartPeriodic
  \/ Driver /\ UNCHANGED <<vars, clockVars>>

\* Once the kernel runs, its tasks ask for frames and give them back, and the devices
\* that are plugged in are given memory.
KernelRuns ==
  \/ /\ at = "running"
     /\ Search \/ (\E n \in Requests : Allocate(n)) \/ (\E b \in blocks : Free(b))
     /\ UNCHANGED <<xhcVars, clockVars>>
  \/ \E slot \in 1 .. MaxDevices : AllocDevice(slot) /\ UNCHANGED <<vars, clockVars>>

Hardware == (Controller \/ FirmwareYields \/ FirmwareDrives) /\ UNCHANGED <<vars, clockVars>>

BootNext == MainTask \/ KernelRuns \/ Hardware

\* The main task runs, the firmware and the controller do at last what they are asked
\* for, and reads of the timer do not miss its last counts in every round.
BootSpec ==
  /\ BootInit /\ [][BootNext]_bootVars
  /\ WF_bootVars(MainTask)
  /\ SF_bootVars(WaitEnd /\ at' = "periodic")
  /\ WF_bootVars(FirmwareYields /\ UNCHANGED <<vars, clockVars>>)
  /\ WF_bootVars(Controller /\ UNCHANGED <<vars, clockVars>>)

----------------------------------------------------------------------------
(* What must hold.                                                         *)

\* The wait of 100 milliseconds is neither shorter than that nor longer by more than
\* two reads, but for an end so close to the top of the timer that reads can miss it: it
\* is what the period of the ticks is computed from.
TicksAreRight ==
  at = "periodic" =>
    /\ LAPICTimerElapsed >= LapicRate * Pm100ms
    /\ LAPICTimerElapsed < LapicRate * (Pm100ms + 2 * MaxRead) \/ timer.end > PmPeriod - MaxRead

\* The buses the kernel looks at: bus 0, or those of the host bridges, and the ones
\* behind a bridge on these.
Buses ==
  LET f == machine.functions
      hosts == {x.function : x \in {y \in f : y.bus = 0 /\ y.device = 0}}
      roots == IF \E x \in f : x.bus = 0 /\ x.device = 0 /\ x.function = 0 /\ ~x.multi
               THEN {0} ELSE hosts
  IN  roots \cup {x.secondary : x \in {y \in f : /\ y.bus \in roots /\ y.function = 0
                                                 /\ Match(y, PciBridge)}}

\* The boot ends.  It ends with a running controller, where there is one as function 0
\* of a device, or in exit for one of three reasons: no memory for the heap, no
\* valid tables, no memory for the controller.
XhcRuns ==
  <>[](\/ /\ at = "exit"
          /\ \/ pc = "exit"
             \/ \E s \in {"FACP", "APIC"} : \A i \in DOMAIN machine.tables.entry :
                  ~IsValid(machine.tables.entry[i], s)
             \/ ~RsdpIsValid(machine.tables.rsdp)
             \/ ~IsValid(machine.tables.xsdt, "XSDT") \/ ~IsValid(machine.tables.dsdt, "DSDT")
             \/ machine.scratchpads \notin 0 .. (kMemoryPoolSize \div 4096) - 3
       \/ /\ at = "running"
          /\ (\E f \in machine.functions : f.bus \in Buses /\ f.function = 0 /\ Match(f, PciXhci))
               => xhc.cmd.run_stop /\ ~xhc.sts.host_controller_halted)

============================================================================
