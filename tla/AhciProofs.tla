----------------------------- MODULE AhciProofs -----------------------------
(***************************************************************************)
(* Proofs about the AHCI driver: what the table of a command tells the     *)
(* controller, for every number of sectors; and, for every controller and  *)
(* all its ports, that the driver has it programmed when it sends a        *)
(* command, that its two levels of queues agree, and that no answer finds  *)
(* the queue of commands empty.                                            *)
(***************************************************************************)
EXTENDS AhciStart, QueueLemmas

----------------------------------------------------------------------------
(* The command table.                                                      *)

\* The entries before the last stand for 16 sectors each, the last for 1 to 16.
LEMMA Entries ==
  ASSUME NEW count \in Nat \ {0}
  PROVE  /\ prdtl(count) \in Nat \ {0}
         /\ count - 16 * (prdtl(count) - 1) \in 1 .. 16
BY SMT DEF prdtl

\* Such a length is less than DBC can hold.
LEMMA FitsDBC ==
  ASSUME NEW x \in Nat, NEW limit \in Nat, x < limit
  PROVE  x % limit = x
BY SMT

\* What PRDT says of the length of an entry.
LEMMA Lengths ==
  ASSUME NEW count \in Nat \ {0}, NEW dba \in Nat, NEW i \in 1 .. prdtl(count)
  PROVE  /\ i < prdtl(count) => Length(PRDT(count, dba)[i]) = 8192
         /\ i = prdtl(count) =>
              Length(PRDT(count, dba)[i]) = (count - 16 * (prdtl(count) - 1)) * 512
         /\ PRDT(count, dba)[i].DBA = dba + (i - 1) * 8192
<1> DEFINE left == count - 16 * (prdtl(count) - 1)
<1>1. prdtl(count) \in Nat \ {0} /\ left \in 1 .. 16
  BY Entries, SMT
<1> HIDE DEF left
<1>2. (left * 512 - 1) % 4194304 = left * 512 - 1
  <2>1. left * 512 - 1 \in Nat /\ left * 512 - 1 < 4194304
    BY <1>1, SMT
  <2> QED BY <2>1, FitsDBC, SMT
<1> USE DEF left
<1>3. PRDT(count, dba)[i] =
        [DBA |-> dba + (i - 1) * 8 * 1024,
         DBC |-> IF i < prdtl(count) THEN 8 * 1024 - 1 ELSE (left * 512 - 1) % 4194304,
         I   |-> i = prdtl(count)]
  BY SMT DEF PRDT, SectorBytes, MaxDBC
<1>4. i \in Nat
  BY <1>1, SMT
<1> HIDE DEF left
<1>5. i < prdtl(count) => Length(PRDT(count, dba)[i]) = 8192
  BY <1>1, <1>3, <1>4, SMT DEF Length
<1>6. i = prdtl(count) => Length(PRDT(count, dba)[i]) = left * 512
  BY <1>1, <1>2, <1>3, <1>4, SMT DEF Length
<1>7. PRDT(count, dba)[i].DBA = dba + (i - 1) * 8192
  BY <1>3, <1>4, SMT
<1> QED BY <1>5, <1>6, <1>7, SMT DEF left

\* For every number of sectors the table of a command covers the buffer without a gap
\* and not a byte beyond it (src/ata/registers.cpp:25-44).
THEOREM TableCoversBuffer ==
  ASSUME NEW count \in Nat \ {0}, NEW dba \in Nat
  PROVE  Covers(PRDT(count, dba), dba, count * SectorBytes)
<1> DEFINE n == prdtl(count)
           t == PRDT(count, dba)
<1>1. n \in Nat \ {0} /\ count - 16 * (n - 1) \in 1 .. 16
  BY Entries, SMT
<1>2. Len(t) = n
  BY <1>1, SMT DEF PRDT
<1>3. \A i \in 1 .. n : /\ i < n => Length(t[i]) = 8192
                        /\ i = n => Length(t[i]) = (count - 16 * (n - 1)) * 512
                        /\ t[i].DBA = dba + (i - 1) * 8192
  BY Lengths, SMT
<1> HIDE DEF t, n
<1>4. t # << >> /\ t[1].DBA = dba
  <2>1. t # << >>
    BY <1>1, <1>2, SMT
  <2>2. 1 \in 1 .. n
    BY <1>1, SMT
  <2>3. t[1].DBA = dba + (1 - 1) * 8192
    BY <1>3, <2>2, SMT
  <2> QED BY <2>1, <2>3, SMT
<1>5. ASSUME NEW i \in 1 .. n - 1
      PROVE  t[i + 1].DBA = EndOf(t[i])
  <2>1. i \in 1 .. n /\ i + 1 \in 1 .. n /\ i < n /\ i \in Nat
    BY <1>1, SMT
  <2>2. Length(t[i]) = 8192 /\ t[i].DBA = dba + (i - 1) * 8192
    BY <1>3, <2>1, SMT
  <2>3. t[i + 1].DBA = dba + ((i + 1) - 1) * 8192
    BY <1>3, <2>1, SMT
  <2> QED BY <2>1, <2>2, <2>3, SMT DEF EndOf
<1>6. EndOf(t[n]) = dba + count * SectorBytes
  <2>1. n \in 1 .. n
    BY <1>1, SMT
  <2>2. Length(t[n]) = (count - 16 * (n - 1)) * 512 /\ t[n].DBA = dba + (n - 1) * 8192
    BY <1>3, <2>1, SMT
  <2> QED BY <1>1, <2>2, SMT DEF EndOf, SectorBytes
<1>7. Covers(t, dba, count * SectorBytes)
  BY <1>2, <1>4, <1>5, <1>6, SMT DEF Covers
<1> QED BY <1>7, SMT DEF t

\* A table of up to 8064 sectors fits into the two frames that are asked for it, and not
\* one of more (src/ata/SATAController.cpp:63): nothing looks at the number.
THEOREM TableFitsFrames ==
  ASSUME NEW count \in Nat \ {0}
  PROVE  CommandTableBytes(count) <= TableBytes <=> count <= 8064
BY SMT DEF CommandTableBytes, TableBytes, prdtl

----------------------------------------------------------------------------
(* The inductive invariant.                                                *)

IsrSteps == {"off", "port", "bits", "write", "wait", "clear", "send", "enable"}
TaskSteps == {"start", "reset", "first", "second", "comreset", "detect", "wait port", "clear",
              "wait IS", "make", "loop", "ports", "types", "undefined"}

\* The types as the steps need them: TypeOK and what is in the records.
Types_ ==
  /\ hba \in Controllers /\ ghc \in [HR : BOOLEAN, AE : BOOLEAN, IE : BOOLEAN]
  /\ is \subseteq Ports /\ reg \in [Ports -> PortRegisters]
  /\ todo \in [Ports -> Seq(Types)]
  /\ isr \in [step : IsrSteps, port : DOMAIN port_, bit : 1 .. 3]
  /\ que \in Seq(Ports) /\ portQue \in [Ports -> Seq(Types)]
  /\ type_ \in [Ports -> {"ATA", "ATAPI", "null"}] /\ msgs \in Nat
  /\ task \in [step : TaskSteps, port : Nat, ports : Nat, type : Nat, types : Nat]
  /\ commands \in [Ports -> Nat] /\ dev_info_temp \in Ports \cup {Nobody}
  /\ dev_info \in [Ports -> Ports \cup {Nobody}] /\ dirty \subseteq Ports
  /\ raced \in BOOLEAN /\ disturbed \in BOOLEAN

EachPort == {"first", "second", "comreset", "detect", "wait port", "make"}
InSecound == {"second", "comreset", "detect", "wait port"}
SettingUpSteps == {"start", "reset", "clear", "wait IS"} \cup (EachPort \ {"make"})

\* The loops of the task stay within their vectors.
TaskPlace ==
  /\ task.step \in EachPort => task.port \in DOMAIN port_
  /\ TaskEmpties => task.port >= 1 /\ task.ports <= Len(que) /\ task.port <= task.ports + 1
  /\ task.step = "types" =>
       /\ task.port <= task.ports /\ Index \in DOMAIN port_ /\ type_[port_[Index]] = "ATA"
       /\ task.type >= 1 /\ task.type <= task.types + 1
       /\ task.types <= Len(portQue[port_[Index]])

\* Until the interrupts are enabled nothing is sent, queued, or handled.
Quiet ==
  /\ task.step \in SettingUpSteps =>
       /\ isr.step = "off" /\ ~ghc.IE /\ que = << >>
       /\ \A p \in Ports : portQue[p] = << >> /\ todo[p] = << >> /\ commands[p] = 0
  /\ task.step \notin SettingUpSteps => ghc.IE \/ isr.step # "off"
  /\ ghc.HR => task.step = "reset"

\* How far the registers of the ports have been programmed.
Programmed ==
  /\ task.step = "reset" /\ ~ghc.HR =>
       (ghc.AE <=> hba.SAM) /\ \A p \in Ports : ~reg[p].ST
  /\ task.step \notin {"start", "reset"} => ghc.AE \/ (hba.SPM /\ ~hba.SAM)
  /\ task.step = "first" => \A p \in Ports : ~reg[p].ST
  /\ task.step \notin {"start", "reset"} => \A j \in DOMAIN port_ :
       task.step # "first" \/ j < task.port => reg[port_[j]].lists /\ reg[port_[j]].FRE
  /\ task.step \notin {"start", "reset", "first"} => \A j \in DOMAIN port_ :
       \/ task.step \notin InSecound
       \/ j < task.port
       \/ j = task.port /\ task.step # "second"
       => reg[port_[j]].ST /\ reg[port_[j]].PxIE
  /\ \A p \in Ports : commands[p] > 0 =>
       reg[p].ST /\ reg[p].FRE /\ reg[p].lists /\ reg[p].PxIE
  /\ ~disturbed

\* The handler has queued the DHRS it has found in PxIS of port p, but not cleared it.
Seen(p) == /\ port_[isr.port] = p
           /\ isr.step = "write" \/ (isr.step = "bits" /\ isr.bit > 1)

\* The DHRS of port p on their way, from the disk to the task.
Answering(p) == CountIn(todo[p], {"DHRS"})
                + (IF "DHRS" \in reg[p].PxIS /\ ~Seen(p) THEN 1 ELSE 0)
                + CountIn(Left(p), {"DHRS"})

AnswersCounted == \A p \in Ports : Answering(p) <= commands[p]

\* The handler is at the queue of port p.
Queueing(p) == isr.step \in {"bits", "write", "wait"} /\ port_[isr.port] = p

\* Nothing is left in the queue of the disk that is at place j of the controller's.
Done(j) == type_[que[j]] = "ATA" /\ InPlace(que[j]) => portQue[que[j]] = << >>

\* What is announced, and what of it the task has been through.
Announced ==
  /\ que # << >> => msgs > 0 \/ TaskEmpties \/ HandlerRuns \/ task.step = "undefined"
  /\ ~raced => \A p \in Ports :
       type_[p] = "ATA" /\ InPlace(p) /\ portQue[p] # << >> => p \in ToSet(que) \/ Queueing(p)
  /\ ~raced /\ TaskEmpties =>
       /\ ~HandlerRuns /\ task.ports = Len(que)
       /\ \A j \in 1 .. task.port - 1 : Done(j)

\* A device that is connected is there, a port has the type of its device if it has one,
\* and only disks have been sent a command to answer.
Present == \A p \in Ports : /\ hba.device[p] = "none" => reg[p].up = FALSE
                            /\ type_[p] \in {"null", hba.device[p]} \ {"none"}
                            /\ todo[p] # << >> => type_[p] = "ATA"

AhciInv ==
  Types_ /\ TaskPlace /\ Quiet /\ Programmed /\ Present /\ AnswersCounted /\ Announced


----------------------------------------------------------------------------
(* The vector of ports, the registers, the queues.                         *)

\* port_ names ports, and there is one.
LEMMA PortsFacts ==
  ASSUME hba \in Controllers
  PROVE  /\ Ports \in SUBSET (0 .. 31)
         /\ port_ \in Seq(Ports) /\ Len(port_) \in Nat \ {0}
         /\ DOMAIN port_ = 1 .. Len(port_) /\ 1 \in DOMAIN port_
         /\ \A i \in DOMAIN port_ : port_[i] \in Ports
<1>1. Ports \in SUBSET (0 .. 31) /\ Ports # {}
  BY ControllersAssumption DEF Ports
<1>2. Ports \in SUBSET Nat /\ 31 \in Nat /\ \A x \in Ports : x <= 31
  BY <1>1
<1>3. IsFiniteSet(Ports) /\ Cardinality(Ports) \in Nat
  BY <1>2, FS_BoundedSetOfNaturals, FS_CardinalityType
<1>4. Cardinality(Ports) # 0
  BY <1>1, <1>3, FS_EmptySet
<1>5. \E s \in [1 .. Cardinality(Ports) -> Ports] : \A i, j \in DOMAIN s : i < j => s[i] < s[j]
  BY <1>2, IncreasingExists
<1>6. port_ \in [1 .. Cardinality(Ports) -> Ports]
  BY <1>5 DEF port_
<1> DEFINE n == Cardinality(Ports)
<1>7. n \in Nat \ {0} /\ port_ \in [1 .. n -> Ports]
  BY <1>3, <1>4, <1>6
<1> HIDE DEF n
<1>8. port_ \in Seq(Ports) /\ Len(port_) = n /\ DOMAIN port_ = 1 .. n
  BY <1>7
<1>9. \A i \in DOMAIN port_ : port_[i] \in Ports
  BY <1>7
<1> QED BY <1>1, <1>7, <1>8, <1>9

\* The controller of the machine stays, and its ports with it.
LEMMA SameController ==
  ASSUME hba' = hba
  PROVE  Ports' = Ports /\ port_' = port_
BY DEF Ports, port_

\* Left is of the type of the queues, and all of the queue between two messages.
LEMMA LeftType ==
  ASSUME Types_, TaskPlace, NEW p \in Ports
  PROVE  /\ Left(p) \in Seq(Types) /\ CountIn(Left(p), {"DHRS"}) \in Nat
         /\ task.step # "types" => Left(p) = portQue[p]
<1>1. portQue[p] \in Seq(Types)
  BY DEF Types_
<1>2. Left(p) \in Seq(Types)
  <2>1. CASE task.step = "types" /\ port_[Index] = p
    <3>1. /\ task.type \in Nat /\ 1 <= task.type /\ task.types \in Nat
          /\ task.type <= task.types + 1 /\ task.types <= Len(portQue[p])
      BY <2>1 DEF Types_, TaskPlace
    <3>2. Len(portQue[p]) \in Nat
      BY <1>1, LenProperties
    <3>3. task.type <= Len(portQue[p]) + 1
      BY <3>1, <3>2
    <3>4. SubSeq(portQue[p], task.type, Len(portQue[p])) \in Seq(Types)
      BY <1>1, <3>1, <3>3, StretchMoves
    <3> QED BY <2>1, <3>4 DEF Left
  <2>2. CASE ~(task.step = "types" /\ port_[Index] = p)
    BY <1>1, <2>2 DEF Left
  <2> QED BY <2>1, <2>2
<1>3. CountIn(Left(p), {"DHRS"}) \in Nat
  BY <1>2, CountType
<1>4. task.step # "types" => Left(p) = portQue[p]
  BY DEF Left
<1> QED BY <1>2, <1>3, <1>4

\* The three parts of what is on its way to the task.
LEMMA AnsweringType ==
  ASSUME Types_, TaskPlace, NEW p \in Ports
  PROVE  /\ CountIn(todo[p], {"DHRS"}) \in Nat /\ CountIn(Left(p), {"DHRS"}) \in Nat
         /\ Answering(p) \in Nat /\ commands[p] \in Nat
         /\ CountIn(Left(p), {"DHRS"}) <= Answering(p)
<1>1. todo[p] \in Seq(Types) /\ commands[p] \in Nat
  BY DEF Types_
<1>2. CountIn(todo[p], {"DHRS"}) \in Nat
  BY <1>1, CountType
<1>3. CountIn(Left(p), {"DHRS"}) \in Nat
  BY LeftType
<1> DEFINE b == IF "DHRS" \in reg[p].PxIS /\ ~Seen(p) THEN 1 ELSE 0
<1>4. b \in {0, 1} /\ Answering(p) = CountIn(todo[p], {"DHRS"}) + b + CountIn(Left(p), {"DHRS"})
  BY DEF Answering
<1> HIDE DEF b
<1> QED BY <1>1, <1>2, <1>3, <1>4

\* The registers of one port are written.
LEMMA PortWritten ==
  ASSUME reg \in [Ports -> PortRegisters], NEW p \in Ports, NEW r \in PortRegisters,
         reg' = [reg EXCEPT ![p] = r], Ports' = Ports
  PROVE  /\ reg' \in [Ports' -> PortRegisters] /\ reg'[p] = r
         /\ \A q \in Ports : q # p => reg'[q] = reg[q]
BY SMT


\* What the driver has programmed at port q is still so.
Kept(q) == /\ reg'[q].ST = reg[q].ST /\ reg'[q].FRE = reg[q].FRE
           /\ reg'[q].lists = reg[q].lists /\ reg'[q].PxIE = reg[q].PxIE

\* The registers after the steps that write them, one lemma for each way to write them.
LEMMA RegReports ==
  ASSUME reg \in [Ports -> PortRegisters], Ports' = Ports, NEW p \in Ports, NEW t \in Types,
         reg' = [reg EXCEPT ![p].PxIS = @ \cup {t}, ![p].CI = IF t = "DHRS" THEN {} ELSE @,
                            ![p].up = TRUE]
  PROVE  /\ reg' \in [Ports' -> PortRegisters] /\ \A q \in Ports : Kept(q)
         /\ \A q \in Ports : reg'[q].PxIS = IF q = p THEN reg[q].PxIS \cup {t} ELSE reg[q].PxIS
         /\ \A q \in Ports : q # p => reg'[q].up = reg[q].up
<1> DEFINE CI == IF t = "DHRS" THEN {} ELSE reg[p].CI
           r == [reg[p] EXCEPT !.PxIS = reg[p].PxIS \cup {t}, !.CI = CI, !.up = TRUE]
<1>1. CI \in SUBSET (0 .. 31)
  BY DEF PortRegisters
<1>2. reg' = [reg EXCEPT ![p] = r]
  BY Zenon
<1> HIDE DEF CI
<1>3. /\ r \in PortRegisters /\ r.ST = reg[p].ST /\ r.FRE = reg[p].FRE
      /\ r.lists = reg[p].lists /\ r.PxIE = reg[p].PxIE /\ r.PxIS = reg[p].PxIS \cup {t}
  BY <1>1 DEF PortRegisters
<1> HIDE DEF r
<1> QED BY ZenonT(40), <1>2, <1>3 DEF Kept

LEMMA RegPxIS ==
  ASSUME reg \in [Ports -> PortRegisters], Ports' = Ports, NEW p \in Ports,
         NEW S \in SUBSET Types, reg' = [reg EXCEPT ![p].PxIS = S]
  PROVE  /\ reg' \in [Ports' -> PortRegisters] /\ \A q \in Ports : Kept(q)
         /\ \A q \in Ports : reg'[q].PxIS = IF q = p THEN S ELSE reg[q].PxIS
         /\ \A q \in Ports : reg'[q].up = reg[q].up
BY DEF PortRegisters, Kept

LEMMA RegFirst ==
  ASSUME reg \in [Ports -> PortRegisters], Ports' = Ports, NEW p \in Ports, NEW b \in BOOLEAN,
         reg' = [reg EXCEPT ![p].lists = TRUE, ![p].PxIS = {}, ![p].SUD = @ \/ b,
                            ![p].FRE = TRUE]
  PROVE  /\ reg' \in [Ports' -> PortRegisters] /\ \A q \in Ports : q # p => reg'[q] = reg[q]
         /\ reg'[p].ST = reg[p].ST /\ reg'[p].FRE = TRUE /\ reg'[p].lists = TRUE
         /\ reg'[p].PxIS = {} /\ reg'[p].up = reg[p].up
<1> DEFINE SUD == reg[p].SUD \/ b
           r == [reg[p] EXCEPT !.lists = TRUE, !.PxIS = {}, !.SUD = SUD, !.FRE = TRUE]
<1>1. SUD \in BOOLEAN
  OBVIOUS
<1>2. reg' = [reg EXCEPT ![p] = r]
  BY Zenon
<1> HIDE DEF SUD
<1>3. /\ r \in PortRegisters /\ r.ST = reg[p].ST /\ r.FRE = TRUE /\ r.lists = TRUE /\ r.PxIS = {}
      /\ r.up = reg[p].up
  BY <1>1 DEF PortRegisters
<1> HIDE DEF r
<1>4. /\ reg' \in [Ports' -> PortRegisters] /\ reg'[p] = r
      /\ \A q \in Ports : q # p => reg'[q] = reg[q]
  BY <1>2, <1>3, PortWritten
<1> QED BY <1>3, <1>4, Zenon

LEMMA RegSecound ==
  ASSUME reg \in [Ports -> PortRegisters], Ports' = Ports, NEW p \in Ports,
         reg' = [reg EXCEPT ![p] = [PortDisable(@) EXCEPT !.PxIS = reg[p].PxIS \ {"PCS"},
                                                      !.PxIE = TRUE]]
  PROVE  /\ reg' \in [Ports' -> PortRegisters] /\ \A q \in Ports : q # p => reg'[q] = reg[q]
         /\ reg'[p].ST = TRUE /\ reg'[p].FRE = TRUE /\ reg'[p].lists = reg[p].lists
         /\ reg'[p].PxIE = TRUE /\ reg'[p].PxIS = reg[p].PxIS \ {"PCS"}
         /\ reg'[p].up = reg[p].up
<1> DEFINE d == PortDisable(reg[p])
           IS == reg[p].PxIS \ {"PCS"}
           r == [d EXCEPT !.PxIS = IS, !.PxIE = TRUE]
<1>1. /\ d \in PortRegisters /\ d.ST = TRUE /\ d.FRE = TRUE /\ d.lists = reg[p].lists
      /\ d.up = reg[p].up
  BY DEF PortRegisters, PortDisable
<1>2. reg' = [reg EXCEPT ![p] = r]
  BY Zenon
<1>3. IS \in SUBSET Types
  BY DEF PortRegisters
<1> HIDE DEF d, IS
<1>4. /\ r \in PortRegisters /\ r.ST = TRUE /\ r.FRE = TRUE /\ r.lists = d.lists
      /\ r.PxIE = TRUE /\ r.PxIS = IS /\ r.up = d.up
  BY <1>1, <1>3 DEF PortRegisters
<1> HIDE DEF r
<1> QED BY <1>1, <1>2, <1>4 DEF IS

LEMMA RegComReset ==
  ASSUME reg \in [Ports -> PortRegisters], Ports' = Ports, NEW p \in Ports, NEW up \in BOOLEAN,
         reg' = [reg EXCEPT ![p] = [PortDisable(@) EXCEPT !.up = up]]
  PROVE  /\ reg' \in [Ports' -> PortRegisters] /\ \A q \in Ports : q # p => reg'[q] = reg[q]
         /\ reg'[p].ST = TRUE /\ reg'[p].FRE = TRUE /\ reg'[p].lists = reg[p].lists
         /\ reg'[p].PxIE = reg[p].PxIE /\ reg'[p].PxIS = reg[p].PxIS
         /\ reg'[p].up = up
<1> DEFINE d == PortDisable(reg[p])
           r == [d EXCEPT !.up = up]
<1>1. /\ d \in PortRegisters /\ d.ST = TRUE /\ d.FRE = TRUE /\ d.lists = reg[p].lists
      /\ d.PxIE = reg[p].PxIE /\ d.PxIS = reg[p].PxIS
  BY DEF PortRegisters, PortDisable
<1>2. reg' = [reg EXCEPT ![p] = r]
  BY Zenon
<1> HIDE DEF d
<1>3. /\ r \in PortRegisters /\ r.ST = TRUE /\ r.FRE = TRUE /\ r.lists = d.lists
      /\ r.PxIE = d.PxIE /\ r.PxIS = d.PxIS /\ r.up = up
  BY <1>1 DEF PortRegisters
<1> HIDE DEF r
<1> QED BY <1>1, <1>2, <1>3

LEMMA RegCI ==
  ASSUME reg \in [Ports -> PortRegisters], Ports' = Ports, NEW p \in Ports,
         NEW slot \in 0 .. 31, reg' = [reg EXCEPT ![p].CI = @ \cup {slot}]
  PROVE  /\ reg' \in [Ports' -> PortRegisters] /\ \A q \in Ports : Kept(q)
         /\ \A q \in Ports : reg'[q].PxIS = reg[q].PxIS /\ reg'[q].up = reg[q].up
BY DEF PortRegisters, Kept

\* A slot for a command is one the controller can have.
LEMMA SlotType ==
  ASSUME NEW busy, NEW NCS \in 0 .. 31
  PROVE  FindFreeSlot(busy, NCS) \in 0 .. 31
<1> DEFINE free == {i \in 0 .. NCS - 1 : i \notin busy}
<1>1. CASE free = {}
  BY <1>1 DEF FindFreeSlot
<1>2. CASE free # {}
  <2>1. free \in SUBSET Nat
    OBVIOUS
  <2>2. \E i \in free : \A j \in free : i <= j
    <3> HIDE DEF free
    <3> QED BY <1>2, <2>1, LeastExists
  <2>3. FindFreeSlot(busy, NCS) \in free
    BY <1>2, <2>2 DEF FindFreeSlot
  <2> QED BY <2>3
<1> QED BY <1>1, <1>2

----------------------------------------------------------------------------
(* The steps that set the controller up.                                   *)

\* Places of the task.
LEMMA Places ==
  ASSUME NEW step \in TaskSteps, NEW k \in Nat
  PROVE  LET T == [step : TaskSteps, port : Nat, ports : Nat, type : Nat, types : Nat]
         IN  /\ At(step) \in T /\ At(step).step = step /\ At(step).port = 1
             /\ AtPort(step, k) \in T /\ AtPort(step, k).step = step
             /\ AtPort(step, k).port = k
             /\ task \in T => LET t == [task EXCEPT !.step = step]
                              IN  t \in T /\ t.step = step /\ t.port = task.port
BY DEF At, AtPort, Loop

\* From one port to the next: which places NextOf names.
LEMMA NextPlaces ==
  ASSUME Types_, TaskPlace, NEW step \in TaskSteps, NEW then \in TaskSteps,
         task.port \in DOMAIN port_
  PROVE  LET t == NextOf(step, then)
         IN  /\ t \in [step : TaskSteps, port : Nat, ports : Nat, type : Nat, types : Nat]
             /\ \/ t.step = step /\ t.port = task.port + 1 /\ t.port \in DOMAIN port_
                \/ t.step = then /\ t.port = 1 /\ task.port = Len(port_)
<1>1. DOMAIN port_ = 1 .. Len(port_) /\ Len(port_) \in Nat /\ task.port \in Nat
  BY PortsFacts DEF Types_
<1>2. CASE task.port < Len(port_)
  <2>1. task.port + 1 \in DOMAIN port_ /\ task.port + 1 \in Nat
    BY <1>1, <1>2
  <2> DEFINE k == task.port + 1
  <2>2. NextOf(step, then) = AtPort(step, k)
    BY <1>2 DEF NextOf
  <2>3. k \in DOMAIN port_ /\ k \in Nat
    BY <2>1
  <2> HIDE DEF k
  <2>4. /\ AtPort(step, k) \in [step : TaskSteps, port : Nat, ports : Nat, type : Nat, types : Nat]
        /\ AtPort(step, k).step = step /\ AtPort(step, k).port = k
    BY ZenonT(40), <2>3, Places
  <2> QED BY <2>2, <2>3, <2>4 DEF k
<1>3. CASE ~(task.port < Len(port_))
  <2>1. task.port = Len(port_)
    BY <1>1, <1>3
  <2> QED BY <1>3, <2>1, Places DEF NextOf
<1> QED BY <1>2, <1>3

\* While the controller is set up nothing is on its way, and no step of that time puts
\* anything there; what is left to show is how far the registers are.
LEMMA StillSettingUp ==
  ASSUME AhciInv, task.step \in SettingUpSteps,
         UNCHANGED <<hba, todo, isr, que, portQue, msgs, commands, dev_info, dev_info_temp,
                     dirty>>, raced' \in BOOLEAN,
         task' \in [step : TaskSteps, port : Nat, ports : Nat, type : Nat, types : Nat],
         task'.step \in SettingUpSteps \cup {"make"},
         task'.step \in EachPort => task'.port \in DOMAIN port_,
         ghc' \in [HR : BOOLEAN, AE : BOOLEAN, IE : BOOLEAN], is' \subseteq Ports,
         reg' \in [Ports -> PortRegisters],
         \A p \in Ports : "DHRS" \in reg'[p].PxIS => "DHRS" \in reg[p].PxIS,
         \A p \in Ports : /\ reg'[p].up \in {FALSE, reg[p].up} \/ hba.device[p] # "none"
                          /\ type_'[p] \in {type_[p], "null", hba.device[p]} \ {"none"},
         type_' \in [Ports -> {"ATA", "ATAPI", "null"}], disturbed' \in BOOLEAN
  PROVE  /\ Types_' /\ TaskPlace' /\ Present' /\ AnswersCounted' /\ Announced'
         /\ Ports' = Ports /\ port_' = port_
         /\ isr'.step = "off" /\ que' = << >>
         /\ \A p \in Ports : portQue'[p] = << >> /\ todo'[p] = << >> /\ commands'[p] = 0
<1>1. Ports' = Ports /\ port_' = port_
  BY SameController
<1>2. /\ isr.step = "off" /\ que = << >>
      /\ \A p \in Ports : portQue[p] = << >> /\ todo[p] = << >> /\ commands[p] = 0
  BY DEF AhciInv, Quiet
<1>3. task.step \notin {"ports", "types"} /\ task'.step \notin {"ports", "types"}
  BY DEF SettingUpSteps, EachPort
<1>4. Types_'
  BY <1>1 DEF AhciInv, Types_
<1>5. TaskPlace'
  BY <1>1, <1>3 DEF TaskPlace, TaskEmpties
<1>6. AnswersCounted'
  <2> SUFFICES ASSUME NEW p \in Ports PROVE Answering(p)' <= commands'[p]
    BY <1>1 DEF AnswersCounted
  <2>1. Left(p) = portQue[p] /\ Left(p)' = portQue'[p]
    BY <1>3 DEF Left
  <2>2. /\ CountIn(todo[p], {"DHRS"}) = 0 /\ CountIn(Left(p), {"DHRS"}) = 0
        /\ CountIn(todo[p], {"DHRS"})' = 0 /\ CountIn(Left(p), {"DHRS"})' = 0
    BY <1>2, <2>1, CountEmpty
  <2>3. Answering(p) <= 0
    BY <1>2 DEF AhciInv, AnswersCounted
  <2>4. ~Seen(p)
    BY <1>2 DEF Seen
  <2>5. "DHRS" \notin reg[p].PxIS
    BY <2>2, <2>3, <2>4 DEF Answering
  <2>6. "DHRS" \notin reg'[p].PxIS
    BY <2>5
  <2>7. Answering(p)' = 0
    BY <2>2, <2>6 DEF Answering
  <2> QED BY <1>2, <2>7
<1>7. Announced'
  BY <1>1, <1>2, <1>3 DEF Announced, TaskEmpties
<1>8. Present'
  BY <1>1, <1>2 DEF Present, AhciInv
<1> QED BY <1>1, <1>2, <1>4, <1>5, <1>6, <1>7, <1>8

\* The same for a step of the task.
LEMMA SettingUpKeeps ==
  ASSUME AhciInv, task.step \in SettingUpSteps,
         UNCHANGED <<hba, todo, isr, que, portQue, msgs, commands, dev_info, dev_info_temp,
                     dirty, raced>>,
         task' \in [step : TaskSteps, port : Nat, ports : Nat, type : Nat, types : Nat],
         task'.step \in SettingUpSteps \cup {"make"},
         task'.step \in EachPort => task'.port \in DOMAIN port_,
         ghc' \in [HR : BOOLEAN, AE : BOOLEAN, IE : BOOLEAN], is' \subseteq Ports,
         reg' \in [Ports -> PortRegisters],
         \A p \in Ports : "DHRS" \in reg'[p].PxIS => "DHRS" \in reg[p].PxIS,
         \A p \in Ports : /\ reg'[p].up = FALSE \/ reg'[p].up = reg[p].up
                          /\ type_'[p] \in {type_[p], "null", hba.device[p]} \ {"none"},
         type_' \in [Ports -> {"ATA", "ATAPI", "null"}], disturbed' \in BOOLEAN
  PROVE  /\ Types_' /\ TaskPlace' /\ Present' /\ AnswersCounted' /\ Announced'
         /\ Ports' = Ports /\ port_' = port_
         /\ isr'.step = "off" /\ que' = << >>
         /\ \A p \in Ports : portQue'[p] = << >> /\ todo'[p] = << >> /\ commands'[p] = 0
<1>1. raced' \in BOOLEAN /\ UNCHANGED <<hba, todo, isr, que, portQue, msgs, commands, dev_info,
                                      dev_info_temp, dirty>>
  BY DEF AhciInv, Types_
<1>2. \A p \in Ports : /\ reg'[p].up \in {FALSE, reg[p].up} \/ hba.device[p] # "none"
                      /\ type_'[p] \in {type_[p], "null", hba.device[p]} \ {"none"}
  OBVIOUS
<1> QED BY <1>1, <1>2, StillSettingUp

\* What the steps of the set-up have in common.
LEMMA SettingUpFacts ==
  ASSUME AhciInv, NEW from \in SettingUpSteps, NEW to, SettingUp(from, to)
  PROVE  /\ task.step = from /\ task' = to
         /\ UNCHANGED <<hba, todo, isr, que, msgs, commands, dev_info, dev_info_temp, dirty,
                        raced>>
         /\ Types_ /\ TaskPlace /\ Quiet /\ Programmed /\ Present /\ ~ghc.IE /\ ~disturbed
         /\ Ports' = Ports /\ port_' = port_
         /\ \A p \in Ports : portQue[p] = << >>
         /\ from \in EachPort =>
              task.port \in DOMAIN port_ /\ p_ \in Ports /\ task.port \in Nat
<1>1. Ports' = Ports /\ port_' = port_
  BY SameController DEF SettingUp
<1>2. /\ task.step = from /\ task' = to
      /\ UNCHANGED <<hba, todo, isr, que, msgs, commands, dev_info, dev_info_temp, dirty, raced>>
      /\ Types_ /\ TaskPlace /\ Quiet /\ Programmed /\ Present /\ ~disturbed
  BY DEF SettingUp, AhciInv, Programmed
<1>3. ~ghc.IE /\ \A p \in Ports : portQue[p] = << >>
  BY <1>2 DEF Quiet
<1>4. ASSUME from \in EachPort
      PROVE  task.port \in DOMAIN port_ /\ p_ \in Ports /\ task.port \in Nat
  BY <1>2, <1>4, PortsFacts DEF TaskPlace, Types_, p_
<1> QED BY <1>1, <1>2, <1>3, <1>4


\* The controller is told to reset.
LEMMA ResetKeeps ==
  ASSUME AhciInv, Reset
  PROVE  AhciInv'
<1>1. "start" \in SettingUpSteps
  BY DEF SettingUpSteps, EachPort
<1>2. SettingUp("start", At("reset"))
  BY DEF Reset
<1>3. /\ task.step = "start" /\ task' = At("reset")
      /\ Types_ /\ TaskPlace /\ Quiet /\ Programmed /\ Present /\ ~ghc.IE /\ ~disturbed
      /\ Ports' = Ports /\ port_' = port_ /\ \A p \in Ports : portQue[p] = << >>
      /\ UNCHANGED <<hba, todo, isr, que, msgs, commands, dev_info, dev_info_temp, dirty, raced>>
      /\ "start" \in EachPort =>
           task.port \in DOMAIN port_ /\ p_ \in Ports /\ task.port \in Nat
  BY <1>1, <1>2, SettingUpFacts
<1>4. /\ task' \in [step : TaskSteps, port : Nat, ports : Nat, type : Nat, types : Nat]
      /\ task'.step = "reset" /\ task'.port = 1
      /\ task'.step \in SettingUpSteps \cup {"make"}
      /\ task'.step \in EachPort => task'.port \in DOMAIN port_
  <2>1. "reset" \in TaskSteps /\ "reset" \in SettingUpSteps \cup {"make"}
    BY DEF TaskSteps, SettingUpSteps, EachPort
  <2>2. 1 \in DOMAIN port_
    BY <1>3, PortsFacts DEF Types_
  <2> QED BY <1>3, <2>1, <2>2, Places
<1>5. /\ ghc' \in [HR : BOOLEAN, AE : BOOLEAN, IE : BOOLEAN] /\ is' \subseteq Ports
      /\ reg' \in [Ports -> PortRegisters] /\ portQue' = portQue
      /\ type_' \in [Ports -> {"ATA", "ATAPI", "null"}]
      /\ disturbed' \in BOOLEAN /\ ~disturbed'
      /\ \A q \in Ports : /\ reg'[q].up = FALSE \/ reg'[q].up = reg[q].up
                         /\ type_'[q] \in {type_[q], "null", hba.device[q]} \ {"none"}
      /\ ghc'.HR /\ ~ghc'.IE /\ reg' = reg
  BY <1>3 DEF Reset, Types_, Present
<1>6. \A p \in Ports : "DHRS" \in reg'[p].PxIS => "DHRS" \in reg[p].PxIS
  BY <1>5
<1>7. /\ Types_' /\ TaskPlace' /\ Present' /\ AnswersCounted' /\ Announced'
      /\ isr'.step = "off" /\ que' = << >>
      /\ \A p \in Ports : portQue'[p] = << >> /\ todo'[p] = << >> /\ commands'[p] = 0
  BY <1>1, <1>3, <1>4, <1>5, <1>6, SettingUpKeeps
<1>8. Quiet'
  BY <1>3, <1>4, <1>5, <1>7 DEF Quiet, SettingUpSteps, EachPort
<1>9. Programmed'
  <2>1. \A p \in Ports' : ~(commands'[p] > 0)
    <3>1. Ports' = Ports /\ \A p \in Ports : commands'[p] = 0
      BY <1>3, <1>7, Zenon
    <3> QED BY ONLY <3>1, SMT
  <2> QED BY ONLY <2>1, <1>4, <1>5 DEF Programmed
<1> QED BY <1>7, <1>8, <1>9 DEF AhciInv

\* The reset is complete.
LEMMA ResetDoneKeeps ==
  ASSUME AhciInv, ResetDone
  PROVE  AhciInv'
<1>1. "reset" \in SettingUpSteps
  BY DEF SettingUpSteps, EachPort
<1>2. SettingUp("reset", At("first"))
  BY DEF ResetDone
<1>3. /\ task.step = "reset" /\ task' = At("first")
      /\ Types_ /\ TaskPlace /\ Quiet /\ Programmed /\ Present /\ ~ghc.IE /\ ~disturbed
      /\ Ports' = Ports /\ port_' = port_ /\ \A p \in Ports : portQue[p] = << >>
      /\ UNCHANGED <<hba, todo, isr, que, msgs, commands, dev_info, dev_info_temp, dirty, raced>>
      /\ "reset" \in EachPort =>
           task.port \in DOMAIN port_ /\ p_ \in Ports /\ task.port \in Nat
  BY <1>1, <1>2, SettingUpFacts
<1>4. /\ task' \in [step : TaskSteps, port : Nat, ports : Nat, type : Nat, types : Nat]
      /\ task'.step = "first" /\ task'.port = 1
      /\ task'.step \in SettingUpSteps \cup {"make"}
      /\ task'.step \in EachPort => task'.port \in DOMAIN port_
  <2>1. "first" \in TaskSteps /\ "first" \in SettingUpSteps \cup {"make"}
    BY DEF TaskSteps, SettingUpSteps, EachPort
  <2>2. 1 \in DOMAIN port_
    BY <1>3, PortsFacts DEF Types_
  <2> QED BY <1>3, <2>1, <2>2, Places
<1>5. /\ ghc' \in [HR : BOOLEAN, AE : BOOLEAN, IE : BOOLEAN] /\ is' \subseteq Ports
      /\ reg' \in [Ports -> PortRegisters] /\ portQue' = portQue
      /\ type_' \in [Ports -> {"ATA", "ATAPI", "null"}]
      /\ disturbed' \in BOOLEAN /\ ~disturbed'
      /\ \A q \in Ports : /\ reg'[q].up = FALSE \/ reg'[q].up = reg[q].up
                         /\ type_'[q] \in {type_[q], "null", hba.device[q]} \ {"none"}
      /\ ghc'.HR = ghc.HR /\ ~ghc.HR /\ ~ghc'.IE /\ reg' = reg
      /\ ghc'.AE = (ghc.AE \/ ~hba.SPM)
  BY <1>3 DEF ResetDone, Types_, Present
<1>6. \A p \in Ports : "DHRS" \in reg'[p].PxIS => "DHRS" \in reg[p].PxIS
  BY <1>5
<1>7. /\ Types_' /\ TaskPlace' /\ Present' /\ AnswersCounted' /\ Announced'
      /\ isr'.step = "off" /\ que' = << >>
      /\ \A p \in Ports : portQue'[p] = << >> /\ todo'[p] = << >> /\ commands'[p] = 0
  BY <1>1, <1>3, <1>4, <1>5, <1>6, SettingUpKeeps
<1>8. Quiet'
  BY <1>3, <1>4, <1>5, <1>7 DEF Quiet, SettingUpSteps, EachPort
<1>9. Programmed'
  <2>1. \A p \in Ports' : ~(commands'[p] > 0)
    <3>1. Ports' = Ports /\ \A p \in Ports : commands'[p] = 0
      BY <1>3, <1>7, Zenon
    <3> QED BY ONLY <3>1, SMT
  <2>2. ghc'.AE \/ (hba.SPM /\ ~hba.SAM)
    BY <1>3, <1>5 DEF Programmed
  <2>3. \A p \in Ports : ~reg'[p].ST
    BY <1>3, <1>5 DEF Programmed
  <2>4. \A j \in DOMAIN port_' : ~(j < task'.port)
    BY <1>3, <1>4, PortsFacts DEF Types_
  <2> QED BY ONLY <2>1, <2>2, <2>3, <2>4, <1>3, <1>4, <1>5 DEF Programmed
<1> QED BY <1>7, <1>8, <1>9 DEF AhciInv

\* A port is given its lists.
LEMMA InitializeFirstKeeps ==
  ASSUME AhciInv, InitializeFirst
  PROVE  AhciInv'
<1>1. "first" \in SettingUpSteps
  BY DEF SettingUpSteps, EachPort
<1>2. SettingUp("first", NextOf("first", "second"))
  BY DEF InitializeFirst
<1>3. /\ task.step = "first" /\ task' = NextOf("first", "second")
      /\ Types_ /\ TaskPlace /\ Quiet /\ Programmed /\ Present /\ ~ghc.IE /\ ~disturbed
      /\ Ports' = Ports /\ port_' = port_ /\ \A p \in Ports : portQue[p] = << >>
      /\ UNCHANGED <<hba, todo, isr, que, msgs, commands, dev_info, dev_info_temp, dirty, raced>>
      /\ "first" \in EachPort =>
           task.port \in DOMAIN port_ /\ p_ \in Ports /\ task.port \in Nat
  BY <1>1, <1>2, SettingUpFacts
<1>4. /\ task' \in [step : TaskSteps, port : Nat, ports : Nat, type : Nat, types : Nat]
      /\ \/ task'.step = "first" /\ task'.port = task.port + 1
         \/ task'.step = "second" /\ task'.port = 1 /\ task.port = Len(port_)
      /\ task'.step \in SettingUpSteps \cup {"make"}
      /\ task'.step \in EachPort => task'.port \in DOMAIN port_
  <2>1. /\ {"first", "second"} \subseteq TaskSteps /\ "first" \in EachPort
        /\ {"first", "second"} \subseteq SettingUpSteps
    BY DEF TaskSteps, SettingUpSteps, EachPort
  <2>2. 1 \in DOMAIN port_ /\ task.port \in DOMAIN port_
    BY <1>3, PortsFacts DEF Types_, EachPort
  <2>3. /\ task' \in [step : TaskSteps, port : Nat, ports : Nat, type : Nat, types : Nat]
        /\ \/ task'.step = "first" /\ task'.port = task.port + 1 /\ task'.port \in DOMAIN port_
           \/ task'.step = "second" /\ task'.port = 1 /\ task.port = Len(port_)
    BY <1>3, <2>1, <2>2, NextPlaces
  <2> QED BY <2>1, <2>2, <2>3
<1>p. p_ \in Ports /\ task.port \in DOMAIN port_ /\ task.port \in Nat /\ reg \in [Ports -> PortRegisters]
      /\ p_ = port_[task.port] /\ Ports' = Ports
      /\ DOMAIN port_ = 1 .. Len(port_) /\ Len(port_) \in Nat
      /\ \A j \in DOMAIN port_ : port_[j] \in Ports
  BY <1>3, PortsFacts DEF EachPort, p_, Types_
<1>5. /\ ghc' \in [HR : BOOLEAN, AE : BOOLEAN, IE : BOOLEAN] /\ is' \subseteq Ports
      /\ reg' \in [Ports -> PortRegisters] /\ portQue' = portQue
      /\ type_' \in [Ports -> {"ATA", "ATAPI", "null"}]
      /\ disturbed' \in BOOLEAN /\ ~disturbed'
      /\ \A q \in Ports : /\ reg'[q].up = FALSE \/ reg'[q].up = reg[q].up
                         /\ type_'[q] \in {type_[q], "null", hba.device[q]} \ {"none"}
      /\ ghc' = ghc /\ \A q \in Ports : q # p_ => reg'[q] = reg[q]
      /\ \A q \in Ports : reg'[q].ST = reg[q].ST /\ ~reg[q].ST
      /\ reg'[p_].FRE = TRUE /\ reg'[p_].lists = TRUE /\ reg'[p_].PxIS = {}
  <2>1. /\ reg' \in [Ports' -> PortRegisters] /\ \A q \in Ports : q # p_ => reg'[q] = reg[q]
        /\ reg'[p_].ST = reg[p_].ST /\ reg'[p_].FRE = TRUE /\ reg'[p_].lists = TRUE
        /\ reg'[p_].PxIS = {} /\ reg'[p_].up = reg[p_].up
    <3>1. hba.SSS \in BOOLEAN
      BY <1>3, ControllersAssumption DEF Types_
    <3> QED BY <1>p, <3>1, RegFirst DEF InitializeFirst
  <2>2. \A q \in Ports : ~reg[q].ST
    BY <1>3 DEF Programmed
  <2>3. /\ ghc' = ghc /\ is' = is /\ portQue' = portQue /\ type_' = type_
        /\ disturbed' = (disturbed \/ reg[p_].ST)
    BY DEF InitializeFirst
  <2>4. disturbed' \in BOOLEAN /\ ~disturbed'
    BY <1>3, <1>p, <2>2, <2>3
  <2>5. /\ ghc' \in [HR : BOOLEAN, AE : BOOLEAN, IE : BOOLEAN] /\ is' \subseteq Ports
        /\ type_' \in [Ports -> {"ATA", "ATAPI", "null"}]
        /\ \A q \in Ports : type_'[q] \in {type_[q], "null", hba.device[q]} \ {"none"}
    BY <1>3, <2>3 DEF Types_, Present
  <2> QED BY <1>p, <2>1, <2>2, <2>3, <2>4, <2>5
<1>6. \A p \in Ports : "DHRS" \in reg'[p].PxIS => "DHRS" \in reg[p].PxIS
  BY <1>5
<1>7. /\ Types_' /\ TaskPlace' /\ Present' /\ AnswersCounted' /\ Announced'
      /\ isr'.step = "off" /\ que' = << >>
      /\ \A p \in Ports : portQue'[p] = << >> /\ todo'[p] = << >> /\ commands'[p] = 0
  BY <1>1, <1>3, <1>4, <1>5, <1>6, SettingUpKeeps
<1>8. Quiet'
  BY <1>3, <1>4, <1>5, <1>7 DEF Quiet, SettingUpSteps, EachPort
<1>9. Programmed'
  <2>1. \A p \in Ports' : ~(commands'[p] > 0)
    <3>1. Ports' = Ports /\ \A p \in Ports : commands'[p] = 0
      BY <1>3, <1>7, Zenon
    <3> QED BY ONLY <3>1, SMT
  <2>2. ghc'.AE \/ (hba.SPM /\ ~hba.SAM)
    BY <1>3, <1>5 DEF Programmed
  <2>3. \A p \in Ports : ~reg'[p].ST
    BY <1>5
  <2>4. ASSUME NEW j \in DOMAIN port_, task'.step # "first" \/ j < task'.port
        PROVE  reg'[port_[j]].lists /\ reg'[port_[j]].FRE
    <3>1. j < task.port \/ j = task.port
      BY <1>4, <1>p, <2>4
    <3>2. CASE port_[j] = p_
      BY <1>5, <3>2
    <3>3. CASE port_[j] # p_
      <4>1. j < task.port
        BY <1>p, <3>1, <3>3
      <4>2. reg[port_[j]].lists /\ reg[port_[j]].FRE
        BY <1>3, <4>1 DEF Programmed
      <4> QED BY <1>5, <1>p, <3>3, <4>2
    <3> QED BY <3>2, <3>3
  <2>5. task'.step = "second" => \A j \in DOMAIN port_ : ~(j < task'.port)
    BY <1>4, <1>p
  <2> QED BY ONLY <2>1, <2>2, <2>3, <2>4, <2>5, <1>3, <1>4, <1>5 DEF Programmed, InSecound
<1> QED BY <1>7, <1>8, <1>9 DEF AhciInv

\* A port is stopped, started and allowed to interrupt.
LEMMA InitializeSecoundKeeps ==
  ASSUME AhciInv, InitializeSecound
  PROVE  AhciInv'
<1>1. "second" \in SettingUpSteps
  BY DEF SettingUpSteps, EachPort
<1>2. SettingUp("second", [task EXCEPT !.step = "comreset"])
  BY DEF InitializeSecound
<1>3. /\ task.step = "second" /\ task' = [task EXCEPT !.step = "comreset"]
      /\ Types_ /\ TaskPlace /\ Quiet /\ Programmed /\ Present /\ ~ghc.IE /\ ~disturbed
      /\ Ports' = Ports /\ port_' = port_ /\ \A p \in Ports : portQue[p] = << >>
      /\ UNCHANGED <<hba, todo, isr, que, msgs, commands, dev_info, dev_info_temp, dirty, raced>>
      /\ "second" \in EachPort =>
           task.port \in DOMAIN port_ /\ p_ \in Ports /\ task.port \in Nat
  BY <1>1, <1>2, SettingUpFacts
<1>4. /\ task' \in [step : TaskSteps, port : Nat, ports : Nat, type : Nat, types : Nat]
      /\ task'.step = "comreset" /\ task'.port = task.port
      /\ task'.step \in SettingUpSteps \cup {"make"}
      /\ task'.step \in EachPort => task'.port \in DOMAIN port_
  <2>1. "comreset" \in TaskSteps /\ "comreset" \in SettingUpSteps
    BY DEF TaskSteps, SettingUpSteps, EachPort
  <2>2. task.port \in DOMAIN port_
    BY <1>3 DEF EachPort
  <2> QED BY <1>3, <2>1, <2>2, Places DEF Types_
<1>p. p_ \in Ports /\ task.port \in DOMAIN port_ /\ task.port \in Nat /\ reg \in [Ports -> PortRegisters]
      /\ p_ = port_[task.port] /\ Ports' = Ports
      /\ DOMAIN port_ = 1 .. Len(port_) /\ Len(port_) \in Nat
      /\ \A j \in DOMAIN port_ : port_[j] \in Ports
  BY <1>3, PortsFacts DEF EachPort, p_, Types_
<1>5. /\ ghc' \in [HR : BOOLEAN, AE : BOOLEAN, IE : BOOLEAN] /\ is' \subseteq Ports
      /\ reg' \in [Ports -> PortRegisters] /\ portQue' = portQue
      /\ type_' \in [Ports -> {"ATA", "ATAPI", "null"}]
      /\ disturbed' \in BOOLEAN /\ ~disturbed'
      /\ \A q \in Ports : /\ reg'[q].up = FALSE \/ reg'[q].up = reg[q].up
                         /\ type_'[q] \in {type_[q], "null", hba.device[q]} \ {"none"}
      /\ ghc' = ghc /\ \A q \in Ports : q # p_ => reg'[q] = reg[q]
      /\ reg'[p_].ST = TRUE /\ reg'[p_].FRE = TRUE /\ reg'[p_].PxIE = TRUE
      /\ reg'[p_].lists = reg[p_].lists /\ reg'[p_].PxIS = reg[p_].PxIS \ {"PCS"}
  <2>1. /\ reg' \in [Ports' -> PortRegisters] /\ \A q \in Ports : q # p_ => reg'[q] = reg[q]
        /\ reg'[p_].ST = TRUE /\ reg'[p_].FRE = TRUE /\ reg'[p_].lists = reg[p_].lists
        /\ reg'[p_].PxIE = TRUE /\ reg'[p_].PxIS = reg[p_].PxIS \ {"PCS"}
        /\ reg'[p_].up = reg[p_].up
    BY <1>p, RegSecound DEF InitializeSecound
  <2>3. /\ ghc' = ghc /\ is' = is /\ portQue' = portQue /\ disturbed' = disturbed
        /\ ghc' \in [HR : BOOLEAN, AE : BOOLEAN, IE : BOOLEAN] /\ is' \subseteq Ports
        /\ disturbed' \in BOOLEAN
    BY <1>3 DEF InitializeSecound, Types_
  <2>4. /\ type_' \in [Ports -> {"ATA", "ATAPI", "null"}]
        /\ \A q \in Ports : type_'[q] \in {type_[q], "null", hba.device[q]} \ {"none"}
    BY <1>3 DEF InitializeSecound, Types_, Present
  <2> QED BY <1>3, <1>p, <2>1, <2>3, <2>4
<1>6. \A p \in Ports : "DHRS" \in reg'[p].PxIS => "DHRS" \in reg[p].PxIS
  BY <1>5
<1>7. /\ Types_' /\ TaskPlace' /\ Present' /\ AnswersCounted' /\ Announced'
      /\ isr'.step = "off" /\ que' = << >>
      /\ \A p \in Ports : portQue'[p] = << >> /\ todo'[p] = << >> /\ commands'[p] = 0
  BY <1>1, <1>3, <1>4, <1>5, <1>6, SettingUpKeeps
<1>8. Quiet'
  BY <1>3, <1>4, <1>5, <1>7 DEF Quiet, SettingUpSteps, EachPort
<1>9. Programmed'
  <2>1. \A p \in Ports' : ~(commands'[p] > 0)
    <3>1. Ports' = Ports /\ \A p \in Ports : commands'[p] = 0
      BY <1>3, <1>7, Zenon
    <3> QED BY ONLY <3>1, SMT
  <2>2. ghc'.AE \/ (hba.SPM /\ ~hba.SAM)
    BY <1>3, <1>5 DEF Programmed
  <2>3. ASSUME NEW j \in DOMAIN port_
        PROVE  reg'[port_[j]].lists /\ reg'[port_[j]].FRE
    <3>1. reg[port_[j]].lists /\ reg[port_[j]].FRE
      BY <1>3 DEF Programmed
    <3> QED BY <1>5, <1>p, <3>1
  <2>4. ASSUME NEW j \in DOMAIN port_, j < task.port \/ j = task.port
        PROVE  reg'[port_[j]].ST /\ reg'[port_[j]].PxIE
    <3>1. j < task.port => reg[port_[j]].ST /\ reg[port_[j]].PxIE
      BY <1>3 DEF Programmed, InSecound
    <3> QED BY <1>5, <1>p, <2>4, <3>1
  <2> QED BY ONLY <2>1, <2>2, <2>3, <2>4, <1>3, <1>4, <1>5, <1>p DEF Programmed, InSecound
<1> QED BY <1>7, <1>8, <1>9 DEF AhciInv

\* The connection of a port is reset, and the port with it.
LEMMA ComResetKeeps ==
  ASSUME AhciInv, ComReset
  PROVE  AhciInv'
<1>1. "comreset" \in SettingUpSteps
  BY DEF SettingUpSteps, EachPort
<1>2. SettingUp("comreset", [task EXCEPT !.step = "detect"])
  BY DEF ComReset
<1>3. /\ task.step = "comreset" /\ task' = [task EXCEPT !.step = "detect"]
      /\ Types_ /\ TaskPlace /\ Quiet /\ Programmed /\ Present /\ ~ghc.IE /\ ~disturbed
      /\ Ports' = Ports /\ port_' = port_ /\ \A p \in Ports : portQue[p] = << >>
      /\ UNCHANGED <<hba, todo, isr, que, msgs, commands, dev_info, dev_info_temp, dirty, raced>>
      /\ "comreset" \in EachPort =>
           task.port \in DOMAIN port_ /\ p_ \in Ports /\ task.port \in Nat
  BY <1>1, <1>2, SettingUpFacts
<1>4. /\ task' \in [step : TaskSteps, port : Nat, ports : Nat, type : Nat, types : Nat]
      /\ task'.step = "detect" /\ task'.port = task.port
      /\ task'.step \in SettingUpSteps \cup {"make"}
      /\ task'.step \in EachPort => task'.port \in DOMAIN port_
  <2>1. "detect" \in TaskSteps /\ "detect" \in SettingUpSteps
    BY DEF TaskSteps, SettingUpSteps, EachPort
  <2>2. task.port \in DOMAIN port_
    BY <1>3 DEF EachPort
  <2> QED BY <1>3, <2>1, <2>2, Places DEF Types_
<1>p. p_ \in Ports /\ task.port \in DOMAIN port_ /\ task.port \in Nat /\ reg \in [Ports -> PortRegisters]
      /\ p_ = port_[task.port] /\ Ports' = Ports
      /\ DOMAIN port_ = 1 .. Len(port_) /\ Len(port_) \in Nat
      /\ \A j \in DOMAIN port_ : port_[j] \in Ports
  BY <1>3, PortsFacts DEF EachPort, p_, Types_
<1>5. /\ ghc' \in [HR : BOOLEAN, AE : BOOLEAN, IE : BOOLEAN] /\ is' \subseteq Ports
      /\ reg' \in [Ports -> PortRegisters] /\ portQue' = portQue
      /\ type_' \in [Ports -> {"ATA", "ATAPI", "null"}]
      /\ disturbed' \in BOOLEAN /\ ~disturbed'
      /\ \A q \in Ports : /\ reg'[q].up = FALSE \/ reg'[q].up = reg[q].up
                         /\ type_'[q] \in {type_[q], "null", hba.device[q]} \ {"none"}
      /\ ghc' = ghc /\ \A q \in Ports : q # p_ => reg'[q] = reg[q]
      /\ reg'[p_].ST = TRUE /\ reg'[p_].FRE = TRUE /\ reg'[p_].PxIE = reg[p_].PxIE
      /\ reg'[p_].lists = reg[p_].lists /\ reg'[p_].PxIS = reg[p_].PxIS
  <2>1. /\ reg' \in [Ports' -> PortRegisters] /\ \A q \in Ports : q # p_ => reg'[q] = reg[q]
        /\ reg'[p_].ST = TRUE /\ reg'[p_].FRE = TRUE /\ reg'[p_].lists = reg[p_].lists
        /\ reg'[p_].PxIE = reg[p_].PxIE /\ reg'[p_].PxIS = reg[p_].PxIS
        /\ reg'[p_].up = FALSE \/ reg'[p_].up = reg[p_].up
    <3>1. PICK up \in IF reg[p_].up THEN BOOLEAN ELSE {FALSE} : reg' = [reg EXCEPT ![p_] = [PortDisable(@) EXCEPT !.up = up]]
      BY DEF ComReset
    <3>2. up \in BOOLEAN /\ (up = FALSE \/ up = reg[p_].up)
      BY <1>p DEF PortRegisters
    <3> QED BY <1>p, <3>1, <3>2, RegComReset
  <2>3. /\ ghc' = ghc /\ is' = is /\ portQue' = portQue /\ disturbed' = disturbed
        /\ ghc' \in [HR : BOOLEAN, AE : BOOLEAN, IE : BOOLEAN] /\ is' \subseteq Ports
        /\ disturbed' \in BOOLEAN
    BY <1>3 DEF ComReset, Types_
  <2>4. /\ type_' \in [Ports -> {"ATA", "ATAPI", "null"}]
        /\ \A q \in Ports : type_'[q] \in {type_[q], "null", hba.device[q]} \ {"none"}
    BY <1>3 DEF ComReset, Types_, Present
  <2> QED BY <1>3, <1>p, <2>1, <2>3, <2>4
<1>6. \A p \in Ports : "DHRS" \in reg'[p].PxIS => "DHRS" \in reg[p].PxIS
  BY <1>5
<1>7. /\ Types_' /\ TaskPlace' /\ Present' /\ AnswersCounted' /\ Announced'
      /\ isr'.step = "off" /\ que' = << >>
      /\ \A p \in Ports : portQue'[p] = << >> /\ todo'[p] = << >> /\ commands'[p] = 0
  BY <1>1, <1>3, <1>4, <1>5, <1>6, SettingUpKeeps
<1>8. Quiet'
  BY <1>3, <1>4, <1>5, <1>7 DEF Quiet, SettingUpSteps, EachPort
<1>9. Programmed'
  <2>1. \A p \in Ports' : ~(commands'[p] > 0)
    <3>1. Ports' = Ports /\ \A p \in Ports : commands'[p] = 0
      BY <1>3, <1>7, Zenon
    <3> QED BY ONLY <3>1, SMT
  <2>2. ghc'.AE \/ (hba.SPM /\ ~hba.SAM)
    BY <1>3, <1>5 DEF Programmed
  <2>3. ASSUME NEW j \in DOMAIN port_
        PROVE  reg'[port_[j]].lists /\ reg'[port_[j]].FRE
    <3>1. reg[port_[j]].lists /\ reg[port_[j]].FRE
      BY <1>3 DEF Programmed
    <3> QED BY <1>5, <1>p, <3>1
  <2>4. ASSUME NEW j \in DOMAIN port_, j < task.port \/ j = task.port
        PROVE  reg'[port_[j]].ST /\ reg'[port_[j]].PxIE
    <3>1. reg[port_[j]].ST /\ reg[port_[j]].PxIE
      BY <1>3, <2>4 DEF Programmed, InSecound
    <3> QED BY <1>5, <1>p, <3>1
  <2> QED BY ONLY <2>1, <2>2, <2>3, <2>4, <1>3, <1>4, <1>5, <1>p DEF Programmed, InSecound
<1> QED BY <1>7, <1>8, <1>9 DEF AhciInv

\* The driver looks what is at a port, and clears its interrupts.
LEMMA DetectKeeps ==
  ASSUME AhciInv, Detect
  PROVE  AhciInv'
<1>1. "detect" \in SettingUpSteps
  BY DEF SettingUpSteps, EachPort
<1>2. SettingUp("detect", [task EXCEPT !.step = "wait port"])
  BY DEF Detect
<1>3. /\ task.step = "detect" /\ task' = [task EXCEPT !.step = "wait port"]
      /\ Types_ /\ TaskPlace /\ Quiet /\ Programmed /\ Present /\ ~ghc.IE /\ ~disturbed
      /\ Ports' = Ports /\ port_' = port_ /\ \A p \in Ports : portQue[p] = << >>
      /\ UNCHANGED <<hba, todo, isr, que, msgs, commands, dev_info, dev_info_temp, dirty, raced>>
      /\ "detect" \in EachPort =>
           task.port \in DOMAIN port_ /\ p_ \in Ports /\ task.port \in Nat
  BY <1>1, <1>2, SettingUpFacts
<1>4. /\ task' \in [step : TaskSteps, port : Nat, ports : Nat, type : Nat, types : Nat]
      /\ task'.step = "wait port" /\ task'.port = task.port
      /\ task'.step \in SettingUpSteps \cup {"make"}
      /\ task'.step \in EachPort => task'.port \in DOMAIN port_
  <2>1. "wait port" \in TaskSteps /\ "wait port" \in SettingUpSteps
    BY DEF TaskSteps, SettingUpSteps, EachPort
  <2>2. task.port \in DOMAIN port_
    BY <1>3 DEF EachPort
  <2> QED BY <1>3, <2>1, <2>2, Places DEF Types_
<1>p. p_ \in Ports /\ task.port \in DOMAIN port_ /\ task.port \in Nat /\ reg \in [Ports -> PortRegisters]
      /\ p_ = port_[task.port] /\ Ports' = Ports
      /\ DOMAIN port_ = 1 .. Len(port_) /\ Len(port_) \in Nat
      /\ \A j \in DOMAIN port_ : port_[j] \in Ports
  BY <1>3, PortsFacts DEF EachPort, p_, Types_
<1>5. /\ ghc' \in [HR : BOOLEAN, AE : BOOLEAN, IE : BOOLEAN] /\ is' \subseteq Ports
      /\ reg' \in [Ports -> PortRegisters] /\ portQue' = portQue
      /\ type_' \in [Ports -> {"ATA", "ATAPI", "null"}]
      /\ disturbed' \in BOOLEAN /\ ~disturbed'
      /\ \A q \in Ports : /\ reg'[q].up = FALSE \/ reg'[q].up = reg[q].up
                         /\ type_'[q] \in {type_[q], "null", hba.device[q]} \ {"none"}
      /\ ghc' = ghc /\ \A q \in Ports : Kept(q)
      /\ \A q \in Ports : reg'[q].PxIS = IF q = p_ THEN {} ELSE reg[q].PxIS
  <2>1. /\ reg' \in [Ports' -> PortRegisters] /\ \A q \in Ports : Kept(q)
        /\ \A q \in Ports : reg'[q].PxIS = IF q = p_ THEN {} ELSE reg[q].PxIS
        /\ \A q \in Ports : reg'[q].up = reg[q].up
    <3> DEFINE none == {}
    <3>1. reg' = [reg EXCEPT ![p_].PxIS = none]
      BY DEF Detect
    <3>2. none \in SUBSET Types
      OBVIOUS
    <3> HIDE DEF none
    <3>3. /\ reg' \in [Ports' -> PortRegisters] /\ \A q \in Ports : Kept(q)
          /\ \A q \in Ports : reg'[q].PxIS = IF q = p_ THEN none ELSE reg[q].PxIS
          /\ \A q \in Ports : reg'[q].up = reg[q].up
      <4>1. reg \in [Ports -> PortRegisters] /\ Ports' = Ports /\ p_ \in Ports
        BY <1>p
      <4> QED BY <3>1, <3>2, <4>1, RegPxIS, Zenon
    <3> QED BY <3>3 DEF none
  <2>3. /\ ghc' = ghc /\ is' = is /\ portQue' = portQue /\ disturbed' = disturbed
        /\ ghc' \in [HR : BOOLEAN, AE : BOOLEAN, IE : BOOLEAN] /\ is' \subseteq Ports
        /\ disturbed' \in BOOLEAN
    BY <1>3 DEF Detect, Types_
  <2>4. /\ type_' \in [Ports -> {"ATA", "ATAPI", "null"}]
        /\ \A q \in Ports : type_'[q] \in {type_[q], "null", hba.device[q]} \ {"none"}
    <3>1. hba.device[p_] \in {"ATA", "ATAPI", "none"}
      BY <1>3, <1>p, ControllersAssumption DEF Types_, Ports
    <3>2. PICK t \in {"null"} \cup (IF reg[p_].up THEN {hba.device[p_]} ELSE {}) :
            type_' = [type_ EXCEPT ![p_] = t]
      BY DEF Detect
    <3>3. hba.device[p_] = "none" => reg[p_].up = FALSE
      BY <1>3, <1>p DEF Present
    <3>4. t \in {"ATA", "ATAPI", "null"} /\ t \in {"null", hba.device[p_]} \ {"none"}
      BY <3>1, <3>2, <3>3
    <3>5. \A q \in Ports : type_[q] # "none"
      BY <1>3 DEF Present
    <3> QED BY <1>3, <1>p, <3>2, <3>4, <3>5 DEF Types_
  <2> QED BY <1>3, <1>p, <2>1, <2>3, <2>4
<1>6. \A p \in Ports : "DHRS" \in reg'[p].PxIS => "DHRS" \in reg[p].PxIS
  BY <1>5
<1>7. /\ Types_' /\ TaskPlace' /\ Present' /\ AnswersCounted' /\ Announced'
      /\ isr'.step = "off" /\ que' = << >>
      /\ \A p \in Ports : portQue'[p] = << >> /\ todo'[p] = << >> /\ commands'[p] = 0
  BY <1>1, <1>3, <1>4, <1>5, <1>6, SettingUpKeeps
<1>8. Quiet'
  BY <1>3, <1>4, <1>5, <1>7 DEF Quiet, SettingUpSteps, EachPort
<1>9. Programmed'
  <2>1. \A p \in Ports' : ~(commands'[p] > 0)
    <3>1. Ports' = Ports /\ \A p \in Ports : commands'[p] = 0
      BY <1>3, <1>7, Zenon
    <3> QED BY ONLY <3>1, SMT
  <2>2. ghc'.AE \/ (hba.SPM /\ ~hba.SAM)
    BY <1>3, <1>5 DEF Programmed
  <2>3. ASSUME NEW j \in DOMAIN port_
        PROVE  reg'[port_[j]].lists /\ reg'[port_[j]].FRE
    <3>1. reg[port_[j]].lists /\ reg[port_[j]].FRE
      BY <1>3 DEF Programmed
    <3> QED BY <1>5, <1>p, <3>1 DEF Kept
  <2>4. ASSUME NEW j \in DOMAIN port_, j < task.port \/ j = task.port
        PROVE  reg'[port_[j]].ST /\ reg'[port_[j]].PxIE
    <3>1. reg[port_[j]].ST /\ reg[port_[j]].PxIE
      BY <1>3, <2>4 DEF Programmed, InSecound
    <3> QED BY <1>5, <1>p, <3>1 DEF Kept
  <2> QED BY ONLY <2>1, <2>2, <2>3, <2>4, <1>3, <1>4, <1>5, <1>p DEF Programmed, InSecound
<1> QED BY <1>7, <1>8, <1>9 DEF AhciInv

\* A port is ready, and the next follows.
LEMMA DetectedKeeps ==
  ASSUME AhciInv, Detected
  PROVE  AhciInv'
<1>1. "wait port" \in SettingUpSteps
  BY DEF SettingUpSteps, EachPort
<1>2. SettingUp("wait port", NextOf("second", "clear"))
  BY DEF Detected
<1>3. /\ task.step = "wait port" /\ task' = NextOf("second", "clear")
      /\ Types_ /\ TaskPlace /\ Quiet /\ Programmed /\ Present /\ ~ghc.IE /\ ~disturbed
      /\ Ports' = Ports /\ port_' = port_ /\ \A p \in Ports : portQue[p] = << >>
      /\ UNCHANGED <<hba, todo, isr, que, msgs, commands, dev_info, dev_info_temp, dirty, raced>>
      /\ "wait port" \in EachPort =>
           task.port \in DOMAIN port_ /\ p_ \in Ports /\ task.port \in Nat
  BY <1>1, <1>2, SettingUpFacts
<1>4. /\ task' \in [step : TaskSteps, port : Nat, ports : Nat, type : Nat, types : Nat]
      /\ \/ task'.step = "second" /\ task'.port = task.port + 1
         \/ task'.step = "clear" /\ task'.port = 1 /\ task.port = Len(port_)
      /\ task'.step \in SettingUpSteps \cup {"make"}
      /\ task'.step \in EachPort => task'.port \in DOMAIN port_
  <2>1. /\ {"second", "clear"} \subseteq TaskSteps /\ "second" \in EachPort
        /\ {"second", "clear"} \subseteq SettingUpSteps
    BY DEF TaskSteps, SettingUpSteps, EachPort
  <2>2. 1 \in DOMAIN port_ /\ task.port \in DOMAIN port_
    BY <1>3, PortsFacts DEF Types_, EachPort
  <2>3. /\ task' \in [step : TaskSteps, port : Nat, ports : Nat, type : Nat, types : Nat]
        /\ \/ task'.step = "second" /\ task'.port = task.port + 1 /\ task'.port \in DOMAIN port_
           \/ task'.step = "clear" /\ task'.port = 1 /\ task.port = Len(port_)
    <3>1. "second" \in TaskSteps /\ "clear" \in TaskSteps
      BY <2>1
    <3> QED BY <1>3, <2>2, <3>1, NextPlaces
  <2> QED BY <2>1, <2>2, <2>3
<1>p. p_ \in Ports /\ task.port \in DOMAIN port_ /\ task.port \in Nat /\ reg \in [Ports -> PortRegisters]
      /\ p_ = port_[task.port] /\ Ports' = Ports
      /\ DOMAIN port_ = 1 .. Len(port_) /\ Len(port_) \in Nat
      /\ \A j \in DOMAIN port_ : port_[j] \in Ports
  BY <1>3, PortsFacts DEF EachPort, p_, Types_
<1>5. /\ ghc' \in [HR : BOOLEAN, AE : BOOLEAN, IE : BOOLEAN] /\ is' \subseteq Ports
      /\ reg' \in [Ports -> PortRegisters] /\ portQue' = portQue
      /\ type_' \in [Ports -> {"ATA", "ATAPI", "null"}]
      /\ disturbed' \in BOOLEAN /\ ~disturbed'
      /\ \A q \in Ports : /\ reg'[q].up = FALSE \/ reg'[q].up = reg[q].up
                         /\ type_'[q] \in {type_[q], "null", hba.device[q]} \ {"none"}
      /\ ghc' = ghc /\ reg' = reg
  <2>1. /\ ghc' = ghc /\ is' = is /\ reg' = reg /\ type_' = type_ /\ disturbed' = disturbed
        /\ ghc' \in [HR : BOOLEAN, AE : BOOLEAN, IE : BOOLEAN] /\ is' \subseteq Ports
        /\ disturbed' \in BOOLEAN /\ reg' \in [Ports -> PortRegisters]
        /\ type_' \in [Ports -> {"ATA", "ATAPI", "null"}]
        /\ \A q \in Ports : type_'[q] \in {type_[q], "null", hba.device[q]} \ {"none"}
    BY <1>3 DEF Detected, Types_, Present
  <2>2. portQue' = portQue
    <3>1. portQue' = [portQue EXCEPT ![p_] = << >>] /\ portQue \in [Ports -> Seq(Types)]
      BY <1>3 DEF Detected, Types_
    <3>2. portQue[p_] = << >>
      BY <1>3, <1>p
    <3> QED BY <1>p, <3>1, <3>2
  <2> QED BY <1>3, <2>1, <2>2
<1>6. \A p \in Ports : "DHRS" \in reg'[p].PxIS => "DHRS" \in reg[p].PxIS
  BY <1>5
<1>7. /\ Types_' /\ TaskPlace' /\ Present' /\ AnswersCounted' /\ Announced'
      /\ isr'.step = "off" /\ que' = << >>
      /\ \A p \in Ports : portQue'[p] = << >> /\ todo'[p] = << >> /\ commands'[p] = 0
  BY <1>1, <1>3, <1>4, <1>5, <1>6, SettingUpKeeps
<1>8. Quiet'
  BY <1>3, <1>4, <1>5, <1>7 DEF Quiet, SettingUpSteps, EachPort
<1>9. Programmed'
  <2>1. \A p \in Ports' : ~(commands'[p] > 0)
    <3>1. Ports' = Ports /\ \A p \in Ports : commands'[p] = 0
      BY <1>3, <1>7, Zenon
    <3> QED BY ONLY <3>1, SMT
  <2>2. ghc'.AE \/ (hba.SPM /\ ~hba.SAM)
    BY <1>3, <1>5 DEF Programmed
  <2>3. ASSUME NEW j \in DOMAIN port_
        PROVE  reg'[port_[j]].lists /\ reg'[port_[j]].FRE
    <3>1. reg[port_[j]].lists /\ reg[port_[j]].FRE
      BY <1>3 DEF Programmed
    <3> QED BY <1>5, <1>p, <3>1
  <2>4. ASSUME NEW j \in DOMAIN port_, j < task.port \/ j = task.port
        PROVE  reg'[port_[j]].ST /\ reg'[port_[j]].PxIE
    <3>1. reg[port_[j]].ST /\ reg[port_[j]].PxIE
      BY <1>3, <2>4 DEF Programmed, InSecound
    <3> QED BY <1>5, <1>p, <3>1
  <2>5. task'.step = "second" => \A j \in DOMAIN port_ : j < task'.port => j < task.port \/ j = task.port
    BY <1>4, <1>p
  <2>6. task'.step = "clear" => \A j \in DOMAIN port_ : j < task.port \/ j = task.port
    BY <1>4, <1>p
  <2>7. task'.step \in {"second", "clear"}
    BY <1>4
  <2>8. ASSUME NEW j \in DOMAIN port_,
               task'.step \notin InSecound \/ j < task'.port
                 \/ (j = task'.port /\ task'.step # "second")
        PROVE  reg'[port_[j]].ST /\ reg'[port_[j]].PxIE
    BY <2>4, <2>5, <2>6, <2>7, <2>8 DEF InSecound
  <2>9. hba' = hba /\ Ports' = Ports /\ port_' = port_ /\ ~disturbed'
    BY <1>3, <1>5
  <2> QED BY ONLY <2>1, <2>2, <2>3, <2>7, <2>8, <2>9 DEF Programmed
<1> QED BY <1>7, <1>8, <1>9 DEF AhciInv

\* The ports that ask are cleared.
LEMMA ClearAllKeeps ==
  ASSUME AhciInv, ClearAll
  PROVE  AhciInv'
<1>1. "clear" \in SettingUpSteps
  BY DEF SettingUpSteps, EachPort
<1>2. SettingUp("clear", At("wait IS"))
  BY DEF ClearAll
<1>3. /\ task.step = "clear" /\ task' = At("wait IS")
      /\ Types_ /\ TaskPlace /\ Quiet /\ Programmed /\ Present /\ ~ghc.IE /\ ~disturbed
      /\ Ports' = Ports /\ port_' = port_ /\ \A p \in Ports : portQue[p] = << >>
      /\ UNCHANGED <<hba, todo, isr, que, msgs, commands, dev_info, dev_info_temp, dirty, raced>>
      /\ "clear" \in EachPort =>
           task.port \in DOMAIN port_ /\ p_ \in Ports /\ task.port \in Nat
  BY <1>1, <1>2, SettingUpFacts
<1>4. /\ task' \in [step : TaskSteps, port : Nat, ports : Nat, type : Nat, types : Nat]
      /\ task'.step = "wait IS" /\ task'.port = 1
      /\ task'.step \in SettingUpSteps \cup {"make"}
      /\ task'.step \in EachPort => task'.port \in DOMAIN port_
  <2>1. "wait IS" \in TaskSteps /\ "wait IS" \in SettingUpSteps \cup {"make"}
    BY DEF TaskSteps, SettingUpSteps, EachPort
  <2>2. 1 \in DOMAIN port_
    BY <1>3, PortsFacts DEF Types_
  <2> QED BY <1>3, <2>1, <2>2, Places
<1>5. /\ ghc' \in [HR : BOOLEAN, AE : BOOLEAN, IE : BOOLEAN] /\ is' \subseteq Ports
      /\ reg' \in [Ports -> PortRegisters] /\ portQue' = portQue
      /\ type_' \in [Ports -> {"ATA", "ATAPI", "null"}]
      /\ disturbed' \in BOOLEAN /\ ~disturbed'
      /\ \A q \in Ports : /\ reg'[q].up = FALSE \/ reg'[q].up = reg[q].up
                         /\ type_'[q] \in {type_[q], "null", hba.device[q]} \ {"none"}
      /\ ghc' = ghc /\ reg' = reg
  <2>1. /\ ghc' = ghc /\ is' = StillAsk /\ reg' = reg /\ portQue' = portQue
        /\ type_' = type_ /\ disturbed' = disturbed
    BY DEF ClearAll
  <2>2. StillAsk \subseteq Ports
    BY DEF StillAsk
  <2> QED BY <1>3, <2>1, <2>2 DEF Types_, Present
<1>6. \A p \in Ports : "DHRS" \in reg'[p].PxIS => "DHRS" \in reg[p].PxIS
  BY <1>5
<1>7. /\ Types_' /\ TaskPlace' /\ Present' /\ AnswersCounted' /\ Announced'
      /\ isr'.step = "off" /\ que' = << >>
      /\ \A p \in Ports : portQue'[p] = << >> /\ todo'[p] = << >> /\ commands'[p] = 0
  BY <1>1, <1>3, <1>4, <1>5, <1>6, SettingUpKeeps
<1>8. Quiet'
  BY <1>3, <1>4, <1>5, <1>7 DEF Quiet, SettingUpSteps, EachPort
<1>9. Programmed'
  <2>1. \A p \in Ports' : ~(commands'[p] > 0)
    <3>1. Ports' = Ports /\ \A p \in Ports : commands'[p] = 0
      BY <1>3, <1>7, Zenon
    <3> QED BY ONLY <3>1, SMT
  <2>2. ghc'.AE \/ (hba.SPM /\ ~hba.SAM)
    BY <1>3, <1>5 DEF Programmed
  <2>3. ASSUME NEW j \in DOMAIN port_
        PROVE  /\ reg'[port_[j]].lists /\ reg'[port_[j]].FRE
               /\ reg'[port_[j]].ST /\ reg'[port_[j]].PxIE
    <3>1. /\ reg[port_[j]].lists /\ reg[port_[j]].FRE
          /\ reg[port_[j]].ST /\ reg[port_[j]].PxIE
      BY <1>3 DEF Programmed, InSecound
    <3> QED BY <1>5, <3>1
  <2> QED BY ONLY <2>1, <2>2, <2>3, <1>3, <1>4, <1>5 DEF Programmed
<1> QED BY <1>7, <1>8, <1>9 DEF AhciInv

\* The controller is allowed to interrupt.
LEMMA EnableInterruptsKeeps ==
  ASSUME AhciInv, EnableInterrupts
  PROVE  AhciInv'
<1>1. "wait IS" \in SettingUpSteps
  BY DEF SettingUpSteps, EachPort
<1>2. SettingUp("wait IS", At("make"))
  BY DEF EnableInterrupts
<1>3. /\ task.step = "wait IS" /\ task' = At("make")
      /\ Types_ /\ TaskPlace /\ Quiet /\ Programmed /\ Present /\ ~ghc.IE /\ ~disturbed
      /\ Ports' = Ports /\ port_' = port_ /\ \A p \in Ports : portQue[p] = << >>
      /\ UNCHANGED <<hba, todo, isr, que, msgs, commands, dev_info, dev_info_temp, dirty, raced>>
      /\ "wait IS" \in EachPort =>
           task.port \in DOMAIN port_ /\ p_ \in Ports /\ task.port \in Nat
  BY <1>1, <1>2, SettingUpFacts
<1>4. /\ task' \in [step : TaskSteps, port : Nat, ports : Nat, type : Nat, types : Nat]
      /\ task'.step = "make" /\ task'.port = 1
      /\ task'.step \in SettingUpSteps \cup {"make"}
      /\ task'.step \in EachPort => task'.port \in DOMAIN port_
  <2>1. "make" \in TaskSteps /\ "make" \in SettingUpSteps \cup {"make"}
    BY DEF TaskSteps, SettingUpSteps, EachPort
  <2>2. 1 \in DOMAIN port_
    BY <1>3, PortsFacts DEF Types_
  <2> QED BY <1>3, <2>1, <2>2, Places
<1>5. /\ ghc' \in [HR : BOOLEAN, AE : BOOLEAN, IE : BOOLEAN] /\ is' \subseteq Ports
      /\ reg' \in [Ports -> PortRegisters] /\ portQue' = portQue
      /\ type_' \in [Ports -> {"ATA", "ATAPI", "null"}]
      /\ disturbed' \in BOOLEAN /\ ~disturbed'
      /\ \A q \in Ports : /\ reg'[q].up = FALSE \/ reg'[q].up = reg[q].up
                         /\ type_'[q] \in {type_[q], "null", hba.device[q]} \ {"none"}
      /\ ghc'.HR = ghc.HR /\ ghc'.IE /\ ghc'.AE = ghc.AE /\ reg' = reg
  BY <1>3 DEF EnableInterrupts, Types_, Present
<1>6. \A p \in Ports : "DHRS" \in reg'[p].PxIS => "DHRS" \in reg[p].PxIS
  BY <1>5
<1>7. /\ Types_' /\ TaskPlace' /\ Present' /\ AnswersCounted' /\ Announced'
      /\ isr'.step = "off" /\ que' = << >>
      /\ \A p \in Ports : portQue'[p] = << >> /\ todo'[p] = << >> /\ commands'[p] = 0
  BY <1>1, <1>3, <1>4, <1>5, <1>6, SettingUpKeeps
<1>8. Quiet'
  <2>1. "make" \notin SettingUpSteps /\ ~ghc.HR
    BY <1>3 DEF SettingUpSteps, EachPort, Quiet
  <2> QED BY <1>4, <1>5, <2>1 DEF Quiet
<1>9. Programmed'
  <2>1. \A p \in Ports' : ~(commands'[p] > 0)
    <3>1. Ports' = Ports /\ \A p \in Ports : commands'[p] = 0
      BY <1>3, <1>7, Zenon
    <3> QED BY ONLY <3>1, SMT
  <2>2. ghc'.AE \/ (hba.SPM /\ ~hba.SAM)
    BY <1>3, <1>5 DEF Programmed
  <2>3. ASSUME NEW j \in DOMAIN port_
        PROVE  /\ reg'[port_[j]].lists /\ reg'[port_[j]].FRE
               /\ reg'[port_[j]].ST /\ reg'[port_[j]].PxIE
    <3>1. /\ reg[port_[j]].lists /\ reg[port_[j]].FRE
          /\ reg[port_[j]].ST /\ reg[port_[j]].PxIE
      BY <1>3 DEF Programmed, InSecound
    <3> QED BY <1>5, <3>1
  <2> QED BY ONLY <2>1, <2>2, <2>3, <1>3, <1>4, <1>5 DEF Programmed
<1> QED BY <1>7, <1>8, <1>9 DEF AhciInv

\* The reset is done: the registers are as they are after it.
LEMMA ResetCompletesKeeps ==
  ASSUME AhciInv, ResetCompletes
  PROVE  AhciInv'
<1>1. "reset" \in SettingUpSteps /\ "reset" \notin EachPort
  BY DEF SettingUpSteps, EachPort
<1>2. /\ ghc.HR /\ ghc' = [HR |-> FALSE, AE |-> hba.SAM, IE |-> FALSE]
      /\ reg' = [p \in Ports |-> AfterReset] /\ is' = {}
      /\ UNCHANGED <<hba, todo, isr, que, portQue, msgs, commands, dev_info, dev_info_temp,
                     dirty, raced>>
      /\ task' = task /\ type_' = type_ /\ disturbed' = disturbed
  BY DEF ResetCompletes, Unmoved, queues
<1>3. Types_ /\ Quiet /\ Programmed /\ Present /\ task.step = "reset" /\ Ports' = Ports
  BY <1>2, SameController DEF AhciInv, Quiet
<1>4. hba.SAM \in BOOLEAN
  BY <1>3, ControllersAssumption DEF Types_
<1>5. AfterReset \in PortRegisters
  BY DEF AfterReset, PortRegisters
<1>6. /\ reg' \in [Ports -> PortRegisters] /\ ghc' \in [HR : BOOLEAN, AE : BOOLEAN, IE : BOOLEAN]
      /\ \A p \in Ports : reg'[p].PxIS = {} /\ reg'[p].up = FALSE /\ ~reg'[p].ST
      /\ ~ghc'.HR /\ ghc'.AE = hba.SAM /\ ~ghc'.IE
  BY <1>2, <1>4, <1>5 DEF AfterReset
<1>7. /\ Types_' /\ TaskPlace' /\ Present' /\ AnswersCounted' /\ Announced'
      /\ isr'.step = "off" /\ que' = << >>
      /\ \A p \in Ports : portQue'[p] = << >> /\ todo'[p] = << >> /\ commands'[p] = 0
  <2>1. /\ type_' \in [Ports -> {"ATA", "ATAPI", "null"}] /\ disturbed' \in BOOLEAN
        /\ task' \in [step : TaskSteps, port : Nat, ports : Nat, type : Nat, types : Nat]
        /\ \A p \in Ports : /\ reg'[p].up = FALSE \/ reg'[p].up = reg[p].up
                            /\ type_'[p] \in {type_[p], "null", hba.device[p]} \ {"none"}
        /\ task'.step \in SettingUpSteps /\ task'.step \notin EachPort
        /\ task.step \in SettingUpSteps /\ is' \subseteq Ports
    BY <1>1, <1>2, <1>3, <1>6 DEF Types_, Present
  <2>2. \A p \in Ports : "DHRS" \in reg'[p].PxIS => "DHRS" \in reg[p].PxIS
    BY <1>6
  <2> QED BY <1>2, <1>6, <2>1, <2>2, SettingUpKeeps
<1>8. Quiet'
  BY <1>1, <1>2, <1>3, <1>6, <1>7 DEF Quiet
<1>9. Programmed'
  <2>1. \A p \in Ports' : ~(commands'[p] > 0)
    <3>1. Ports' = Ports /\ \A p \in Ports : commands'[p] = 0
      BY <1>3, <1>7, Zenon
    <3> QED BY ONLY <3>1, SMT
  <2>2. ~disturbed'
    BY <1>2, <1>3 DEF Programmed
  <2>3. hba' = hba /\ task'.step = "reset"
    BY <1>2, <1>3
  <2> QED BY ONLY <2>1, <2>2, <2>3, <1>3, <1>6 DEF Programmed
<1> QED BY <1>7, <1>8, <1>9 DEF AhciInv

----------------------------------------------------------------------------
(* The steps of the disks and of the handler.                              *)

\* What is left to the task stays as long as neither it nor the queues move.
LEMMA LeftStays ==
  ASSUME port_' = port_, task' = task, portQue' = portQue,
         task.step = "types" => que'[task.port] = que[task.port]
  PROVE  \A p \in Ports : Left(p)' = Left(p)
BY DEF Left, Index

\* The answers on their way become no more, and the commands stay.
LEMMA AnswersStay ==
  ASSUME AhciInv, Ports' = Ports, commands' = commands, todo' = todo,
         \A p \in Ports : Left(p)' = Left(p),
         \A p \in Ports : "DHRS" \in reg'[p].PxIS /\ ~Seen(p)' => "DHRS" \in reg[p].PxIS /\ ~Seen(p)
  PROVE  AnswersCounted'
<1> SUFFICES ASSUME NEW p \in Ports PROVE Answering(p)' <= commands'[p]
  BY DEF AnswersCounted
<1> DEFINE a == CountIn(todo[p], {"DHRS"})
           b == CountIn(Left(p), {"DHRS"})
           c == IF "DHRS" \in reg[p].PxIS /\ ~Seen(p) THEN 1 ELSE 0
           d == IF "DHRS" \in reg'[p].PxIS /\ ~Seen(p)' THEN 1 ELSE 0
<1>1. a \in Nat /\ b \in Nat /\ commands[p] \in Nat /\ Answering(p) <= commands[p]
  BY AnsweringType DEF AhciInv, AnswersCounted
<1>2. c \in {0, 1} /\ d \in {0, 1} /\ d <= c
  OBVIOUS
<1>3. Answering(p) = a + c + b
  BY DEF Answering
<1>4. Answering(p)' = CountIn(todo[p], {"DHRS"})' + d + CountIn(Left(p), {"DHRS"})'
  BY DEF Answering
<1>5. CountIn(todo[p], {"DHRS"})' = a /\ CountIn(Left(p), {"DHRS"})' = b
  BY DEF CountIn, Positions
<1> HIDE DEF a, b, c, d
<1> QED BY <1>1, <1>2, <1>3, <1>4, <1>5

\* What is programmed stays so, as long as the task does not get further.
LEMMA ProgrammedStays ==
  ASSUME Types_, Programmed, UNCHANGED <<hba, task, commands, disturbed>>,
         ghc'.HR = ghc.HR, ghc'.AE = ghc.AE, \A p \in Ports : Kept(p)
  PROVE  Programmed'
<1>1. Ports' = Ports /\ port_' = port_
  BY SameController
<1>2. ASSUME NEW p \in Ports
      PROVE  /\ reg'[p].ST = reg[p].ST /\ reg'[p].FRE = reg[p].FRE
             /\ reg'[p].lists = reg[p].lists /\ reg'[p].PxIE = reg[p].PxIE
  BY DEF Kept
<1>3. \A j \in DOMAIN port_ : port_[j] \in Ports
  BY PortsFacts DEF Types_
<1>4. task.step = "reset" /\ ~ghc'.HR =>
        (ghc'.AE <=> hba.SAM) /\ \A p \in Ports : ~reg'[p].ST
  BY <1>2 DEF Programmed
<1>5. task.step \notin {"start", "reset"} => ghc'.AE \/ (hba.SPM /\ ~hba.SAM)
  BY DEF Programmed
<1>6. task.step = "first" => \A p \in Ports : ~reg'[p].ST
  BY <1>2 DEF Programmed
<1>7. task.step \notin {"start", "reset"} => \A j \in DOMAIN port_ :
        task.step # "first" \/ j < task.port => reg'[port_[j]].lists /\ reg'[port_[j]].FRE
  BY <1>2, <1>3 DEF Programmed
<1>8. task.step \notin {"start", "reset", "first"} => \A j \in DOMAIN port_ :
        \/ task.step \notin InSecound
        \/ j < task.port
        \/ j = task.port /\ task.step # "second"
        => reg'[port_[j]].ST /\ reg'[port_[j]].PxIE
  BY <1>2, <1>3 DEF Programmed
<1>9. \A p \in Ports : commands[p] > 0 =>
        reg'[p].ST /\ reg'[p].FRE /\ reg'[p].lists /\ reg'[p].PxIE
  BY <1>2 DEF Programmed
<1>10. ~disturbed
  BY DEF Programmed
<1>11. UNCHANGED <<hba, task, commands, disturbed>>
  OBVIOUS
<1> QED
  BY ONLY <1>1, <1>4, <1>5, <1>6, <1>7, <1>8, <1>9, <1>10, <1>11 DEF Programmed

\* What the disks and the handler leave alone when the controller is set up, and what they
\* can only extend.
LEMMA RunningKeeps ==
  ASSUME AhciInv, task.step \notin SettingUpSteps,
         UNCHANGED <<hba, type_, commands, dev_info, dirty, task, disturbed>>,
         dev_info_temp' \in Ports \cup {Nobody}, raced' \in BOOLEAN,
         todo' \in [Ports -> Seq(Types)], \A p \in Ports : todo'[p] # << >> => todo[p] # << >>,
         ghc' \in [HR : BOOLEAN, AE : BOOLEAN, IE : BOOLEAN],
         ghc'.HR = ghc.HR, ghc'.AE = ghc.AE, ghc'.IE = TRUE \/ isr'.step # "off",
         isr' \in [step : IsrSteps, port : DOMAIN port_, bit : 1 .. 3], is' \subseteq Ports,
         reg' \in [Ports -> PortRegisters],
         \A p \in Ports : Kept(p) /\ (reg'[p].up = reg[p].up \/ hba.device[p] # "none"),
         que' \in Seq(Ports), Len(que) <= Len(que'),
         \A j \in 1 .. Len(que) : que'[j] = que[j],
         portQue' \in [Ports -> Seq(Types)],
         \A p \in Ports : Len(portQue[p]) <= Len(portQue'[p]),
         msgs' \in Nat
  PROVE  /\ Types_' /\ TaskPlace' /\ Quiet' /\ Programmed' /\ Present'
         /\ Ports' = Ports /\ port_' = port_
         /\ task.step = "types" => que'[task.port] = que[task.port]
<1>1. Ports' = Ports /\ port_' = port_
  BY SameController
<1>2. Types_ /\ TaskPlace /\ Quiet /\ Programmed /\ Present
  BY DEF AhciInv
<1>3. Types_'
  BY <1>1, <1>2 DEF Types_
<1>4. TaskEmpties => que'[task.port] = que[task.port] \/ task.port > task.ports
  <2> SUFFICES ASSUME TaskEmpties, ~(task.port > task.ports) PROVE que'[task.port] = que[task.port]
    OBVIOUS
  <2>1. /\ task.port \in Nat /\ task.ports \in Nat /\ task.port >= 1
        /\ task.ports <= Len(que) /\ Len(que) \in Nat
    BY <1>2, LenProperties DEF Types_, TaskPlace
  <2>2. task.port \in 1 .. Len(que)
    BY <2>1
  <2> QED BY <2>2
<1>5. task.step = "types" => que'[task.port] = que[task.port]
  <2>1. task.step = "types" => task.port <= task.ports /\ task.port \in Nat /\ task.ports \in Nat
    BY <1>2 DEF TaskPlace, Types_
  <2>2. task.step = "types" => TaskEmpties
    BY DEF TaskEmpties
  <2> QED BY <1>4, <2>1, <2>2
<1>6. TaskPlace'
  <2>1. task.step \in EachPort => task.port \in DOMAIN port_
    BY <1>2 DEF TaskPlace
  <2>2. TaskEmpties =>
          task.port >= 1 /\ task.ports <= Len(que') /\ task.port <= task.ports + 1
    <3>1. TaskEmpties =>
            task.port >= 1 /\ task.ports <= Len(que) /\ task.port <= task.ports + 1
      BY <1>2 DEF TaskPlace
    <3>2. task.ports \in Nat /\ Len(que) \in Nat /\ Len(que') \in Nat
      BY <1>2, LenProperties DEF Types_
    <3> QED BY <3>1, <3>2
  <2>3. ASSUME task.step = "types"
        PROVE  /\ task.port <= task.ports /\ Index \in DOMAIN port_ /\ Index' = Index
               /\ type_[port_[Index]] = "ATA"
               /\ task.type >= 1 /\ task.type <= task.types + 1
               /\ task.types <= Len(portQue'[port_[Index]])
    <3>1. /\ task.port <= task.ports /\ Index \in DOMAIN port_
          /\ type_[port_[Index]] = "ATA" /\ task.type >= 1 /\ task.type <= task.types + 1
          /\ task.types <= Len(portQue[port_[Index]])
      BY <1>2, <2>3 DEF TaskPlace
    <3>2. Index' = Index
      BY <1>1, <1>5, <2>3 DEF Index
    <3>3. port_[Index] \in Ports
      BY <1>2, <3>1, PortsFacts DEF Types_
    <3>4. /\ portQue[port_[Index]] \in Seq(Types) /\ portQue'[port_[Index]] \in Seq(Types)
          /\ task.types \in Nat
      BY <1>2, <3>3 DEF Types_
    <3>5. Len(portQue[port_[Index]]) \in Nat /\ Len(portQue'[port_[Index]]) \in Nat
      BY <3>4, LenProperties
    <3>6. Len(portQue[port_[Index]]) <= Len(portQue'[port_[Index]])
      BY <3>3
    <3> HIDE DEF Index
    <3>7. task.types <= Len(portQue'[port_[Index]])
      BY <3>1, <3>4, <3>5, <3>6
    <3> QED BY <3>1, <3>2, <3>7
  <2>4. TaskEmpties' = TaskEmpties
    BY <1>1 DEF TaskEmpties
  <2> QED BY <1>1, <2>1, <2>2, <2>3, <2>4 DEF TaskPlace
<1>7. Quiet'
  BY <1>1, <1>2 DEF Quiet
<1>8. Programmed'
  BY <1>2, ProgrammedStays
<1>9. Present'
  BY <1>1, <1>2 DEF Present
<1> QED BY <1>1, <1>3, <1>5, <1>6, <1>7, <1>8, <1>9

\* The same for a step of the handler.
LEMMA HandlerKeeps ==
  ASSUME AhciInv, HandlerUnchanged, isr.step # "off",
         ghc' \in [HR : BOOLEAN, AE : BOOLEAN, IE : BOOLEAN],
         ghc'.HR = ghc.HR, ghc'.AE = ghc.AE, ghc'.IE = TRUE \/ isr'.step # "off",
         isr' \in [step : IsrSteps, port : DOMAIN port_, bit : 1 .. 3], is' \subseteq Ports,
         reg' \in [Ports -> PortRegisters],
         \A p \in Ports : Kept(p) /\ reg'[p].up = reg[p].up,
         que' \in Seq(Ports), Len(que) <= Len(que'),
         \A j \in 1 .. Len(que) : que'[j] = que[j],
         portQue' \in [Ports -> Seq(Types)],
         \A p \in Ports : Len(portQue[p]) <= Len(portQue'[p]),
         msgs' \in Nat
  PROVE  /\ Types_' /\ TaskPlace' /\ Quiet' /\ Programmed' /\ Present'
         /\ task.step = "types" => que'[task.port] = que[task.port]
<1>1. /\ task.step \notin SettingUpSteps /\ Types_
      /\ UNCHANGED <<hba, todo, type_, commands, dev_info_temp, dev_info, dirty, task, raced,
                     disturbed>>
  BY DEF AhciInv, Quiet, HandlerUnchanged, disks
<1>2. /\ dev_info_temp' \in Ports \cup {Nobody} /\ raced' \in BOOLEAN
      /\ todo' \in [Ports -> Seq(Types)]
      /\ \A p \in Ports : todo'[p] # << >> => todo[p] # << >>
  BY <1>1 DEF Types_
<1> QED BY <1>1, <1>2, RunningKeeps

\* What the steps of the handler begin with.
LEMMA HandlerFacts ==
  ASSUME AhciInv, isr.step # "off"
  PROVE  /\ Types_ /\ TaskPlace /\ task.step \notin SettingUpSteps
         /\ isr.port \in DOMAIN port_ /\ port_[isr.port] \in Ports
         /\ ghc.IE = TRUE \/ isr.step # "off"
         /\ NoHandler \in [step : IsrSteps, port : DOMAIN port_, bit : 1 .. 3]
         /\ HandlerRuns /\ ~raced => ~TaskEmpties
         /\ Len(que) \in Nat /\ \A p \in Ports : Len(portQue[p]) \in Nat
<1>1. Types_ /\ TaskPlace /\ Quiet /\ Announced
  BY DEF AhciInv
<1>2. isr.port \in DOMAIN port_
  BY <1>1 DEF Types_
<1>3. 1 \in DOMAIN port_ /\ port_[isr.port] \in Ports
  BY <1>1, <1>2, PortsFacts DEF Types_
<1>4. NoHandler \in [step : IsrSteps, port : DOMAIN port_, bit : 1 .. 3]
  BY <1>3 DEF NoHandler, IsrSteps
<1>5. HandlerRuns /\ ~raced => ~TaskEmpties
  BY <1>1 DEF Announced
<1>6. Len(que) \in Nat /\ \A p \in Ports : Len(portQue[p]) \in Nat
  <2>1. que \in Seq(Ports) /\ \A p \in Ports : portQue[p] \in Seq(Types)
    BY <1>1 DEF Types_
  <2> QED BY <2>1, LenProperties
<1> QED BY <1>1, <1>2, <1>3, <1>4, <1>5, <1>6 DEF Quiet

\* The next port, or the end of the ports.
LEMMA NextPortFacts ==
  ASSUME Types_, NEW k \in DOMAIN port_
  PROVE  /\ NextPort(k) \in [step : IsrSteps, port : DOMAIN port_, bit : 1 .. 3]
         /\ NextPort(k).step \in {"port", "clear"}
<1>1. DOMAIN port_ = 1 .. Len(port_) /\ Len(port_) \in Nat /\ 1 \in DOMAIN port_ /\ k \in Nat
  BY PortsFacts DEF Types_
<1>2. CASE k < Len(port_)
  <2>1. k + 1 \in DOMAIN port_
    BY <1>1, <1>2
  <2> DEFINE m == k + 1
  <2>2. NextPort(k) = [NoHandler EXCEPT !.step = "port", !.port = m]
    BY <1>2 DEF NextPort
  <2>3. m \in DOMAIN port_
    BY <2>1
  <2> HIDE DEF m
  <2>4. NoHandler \in [step : IsrSteps, port : DOMAIN port_, bit : 1 .. 3] /\ "port" \in IsrSteps
    BY <1>1 DEF NoHandler, IsrSteps
  <2>5. NextPort(k) \in [step : IsrSteps, port : DOMAIN port_, bit : 1 .. 3]
    BY <2>2, <2>3, <2>4
  <2>6. NextPort(k).step = "port"
    BY <2>2, <2>4
  <2> QED BY <2>5, <2>6
<1>3. CASE ~(k < Len(port_))
  BY <1>1, <1>3 DEF NextPort, NoHandler, IsrSteps
<1> QED BY <1>2, <1>3

\* A step that changes nothing but the handler's place, GHC, IS and the messages.
LEMMA HandlerMoves ==
  ASSUME AhciInv, HandlerUnchanged, isr.step # "off", UNCHANGED <<reg, que, portQue>>,
         ghc' \in [HR : BOOLEAN, AE : BOOLEAN, IE : BOOLEAN],
         ghc'.HR = ghc.HR, ghc'.AE = ghc.AE, ghc'.IE = TRUE \/ isr'.step # "off",
         isr' \in [step : IsrSteps, port : DOMAIN port_, bit : 1 .. 3], is' \subseteq Ports,
         msgs' \in Nat,
         \A p \in Ports : Seen(p) => Seen(p)' \/ "DHRS" \notin reg[p].PxIS
  PROVE  /\ Types_' /\ TaskPlace' /\ Quiet' /\ Programmed' /\ Present' /\ AnswersCounted'
         /\ Ports' = Ports /\ port_' = port_
         /\ UNCHANGED <<hba, type_, task, raced>>
<1>1. /\ Ports' = Ports /\ port_' = port_
      /\ UNCHANGED <<hba, todo, type_, commands, task, raced>>
  BY SameController DEF HandlerUnchanged, disks
<1>2. Types_
  BY DEF AhciInv
<1>3. /\ reg' \in [Ports -> PortRegisters] /\ \A p \in Ports : Kept(p) /\ reg'[p].up = reg[p].up
      /\ que' \in Seq(Ports) /\ portQue' \in [Ports -> Seq(Types)]
  BY <1>2 DEF Types_, Kept
<1>4. /\ Len(que) <= Len(que') /\ \A j \in 1 .. Len(que) : que'[j] = que[j]
      /\ \A p \in Ports : Len(portQue[p]) <= Len(portQue'[p])
  BY HandlerFacts
<1>5. /\ Types_' /\ TaskPlace' /\ Quiet' /\ Programmed' /\ Present'
  BY <1>3, <1>4, HandlerKeeps
<1>6. \A p \in Ports : Left(p)' = Left(p)
  BY <1>1, LeftStays
<1>7. AnswersCounted'
  BY <1>1, <1>6, AnswersStay
<1> QED BY <1>1, <1>5, <1>7

\* The handler looks whether the port asked.
LEMMA LookAtPortKeeps ==
  ASSUME AhciInv, LookAtPort
  PROVE  AhciInv'
<1>1. /\ isr.step = "port" /\ UNCHANGED <<ghc, is, reg, que, portQue, msgs>> /\ HandlerUnchanged
      /\ isr' = IF port_[isr.port] \in is THEN [isr EXCEPT !.step = "bits"]
                ELSE NextPort(isr.port)
  BY DEF LookAtPort, queues
<1>2. /\ Types_ /\ Announced /\ isr.port \in DOMAIN port_ /\ HandlerRuns
      /\ HandlerRuns /\ ~raced => ~TaskEmpties
  BY <1>1, HandlerFacts DEF AhciInv, HandlerRuns
<1>3. /\ isr' \in [step : IsrSteps, port : DOMAIN port_, bit : 1 .. 3]
      /\ isr'.step \in {"bits", "port", "clear"}
  BY <1>1, <1>2, NextPortFacts DEF Types_, IsrSteps
<1>4. /\ ghc' \in [HR : BOOLEAN, AE : BOOLEAN, IE : BOOLEAN] /\ is' \subseteq Ports /\ msgs' \in Nat
  BY <1>1, <1>2 DEF Types_
<1>5. \A p \in Ports : ~Seen(p)
  BY <1>1 DEF Seen
<1>6. /\ Types_' /\ TaskPlace' /\ Quiet' /\ Programmed' /\ Present' /\ AnswersCounted'
      /\ Ports' = Ports /\ port_' = port_
      /\ UNCHANGED <<hba, type_, task, raced>>
  BY <1>1, <1>3, <1>4, <1>5, HandlerMoves
<1>7. Announced'
  <2>1. HandlerRuns' /\ TaskEmpties' = TaskEmpties
    BY <1>3, <1>6 DEF HandlerRuns, TaskEmpties
  <2>2. \A p \in Ports : ~Queueing(p) /\ InPlace(p)' = InPlace(p)
    BY <1>1, <1>6 DEF Queueing, InPlace
  <2> QED BY <1>1, <1>2, <1>6, <2>1, <2>2 DEF Announced
<1> QED BY <1>6, <1>7 DEF AhciInv

\* The handler looks at a bit, and stacks its type.
LEMMA LookAtBitKeeps ==
  ASSUME AhciInv, LookAtBit
  PROVE  AhciInv'
<1> DEFINE p == port_[isr.port]
           type == BitOrder[isr.bit]
<1>1. /\ isr.step = "bits" /\ UNCHANGED <<ghc, is, que, msgs>> /\ HandlerUnchanged
      /\ portQue' = IF type \in reg[p].PxIS THEN [portQue EXCEPT ![p] = Append(@, type)] ELSE portQue
      /\ reg' = IF type = "PCS" THEN [reg EXCEPT ![p].PxIS = @ \ {"PCS"}] ELSE reg
      /\ isr' = IF isr.bit < 3 THEN [isr EXCEPT !.bit = @ + 1] ELSE [isr EXCEPT !.step = "write"]
  BY DEF LookAtBit, BitOrder
<1>2. /\ Types_ /\ TaskPlace /\ Announced /\ isr.port \in DOMAIN port_ /\ p \in Ports /\ HandlerRuns
      /\ HandlerRuns /\ ~raced => ~TaskEmpties
      /\ Len(que) \in Nat /\ \A q \in Ports : Len(portQue[q]) \in Nat
  BY <1>1, HandlerFacts DEF AhciInv, HandlerRuns
<1>3. /\ Ports' = Ports /\ port_' = port_
      /\ UNCHANGED <<hba, todo, type_, commands, task, raced>>
  BY <1>1, SameController DEF HandlerUnchanged, disks
<1>4. /\ isr' \in [step : IsrSteps, port : DOMAIN port_, bit : 1 .. 3]
      /\ isr'.port = isr.port
      /\ \/ isr'.step = "bits" /\ isr'.bit = isr.bit + 1
         \/ isr'.step = "write" /\ isr.bit = 3
      /\ isr.bit \in 1 .. 3
  <2>1. isr \in [step : IsrSteps, port : DOMAIN port_, bit : 1 .. 3]
    BY <1>2 DEF Types_
  <2>2. CASE isr.bit < 3
    <3> DEFINE b == isr.bit + 1
    <3>1. b \in 1 .. 3
      BY <2>1, <2>2
    <3> HIDE DEF b
    <3>2. isr' = [isr EXCEPT !.bit = b]
      BY <1>1, <2>2 DEF b
    <3>3. /\ isr' \in [step : IsrSteps, port : DOMAIN port_, bit : 1 .. 3]
          /\ isr'.port = isr.port /\ isr'.step = "bits" /\ isr'.bit = b /\ isr.bit \in 1 .. 3
      BY <1>1, <2>1, <3>1, <3>2
    <3> QED BY <3>3 DEF b
  <2>3. CASE ~(isr.bit < 3)
    <3>1. "write" \in IsrSteps /\ isr.bit = 3
      BY <2>1, <2>3 DEF IsrSteps
    <3> QED BY <1>1, <2>1, <2>3, <3>1
  <2> QED BY <2>2, <2>3
<1>5. /\ type \in Types /\ (type = "DHRS" <=> isr.bit = 1) /\ (type = "PCS" <=> isr.bit = 3)
  <2>1. isr.bit = 1 \/ isr.bit = 2 \/ isr.bit = 3
    BY <1>4
  <2> QED BY <2>1 DEF BitOrder, Types
<1> HIDE DEF p, type
<1>6. /\ reg' \in [Ports -> PortRegisters]
      /\ \A q \in Ports : Kept(q) /\ reg'[q].up = reg[q].up
      /\ \A q \in Ports : "DHRS" \in reg'[q].PxIS => "DHRS" \in reg[q].PxIS
  <2>1. reg \in [Ports -> PortRegisters]
    BY <1>2 DEF Types_
  <2>2. CASE type # "PCS"
    BY <1>1, <2>1, <2>2 DEF Kept
  <2>3. CASE type = "PCS"
    <3> DEFINE S == reg[p].PxIS \ {"PCS"}
    <3>1. S \in SUBSET Types
      BY <1>2, <2>1 DEF PortRegisters
    <3>2. reg' = [reg EXCEPT ![p].PxIS = S]
      BY <1>1, <2>3
    <3> HIDE DEF S
    <3>3. /\ reg' \in [Ports' -> PortRegisters] /\ \A q \in Ports : Kept(q)
          /\ \A q \in Ports : reg'[q].PxIS = IF q = p THEN S ELSE reg[q].PxIS
          /\ \A q \in Ports : reg'[q].up = reg[q].up
      <4>1. Ports' = Ports /\ p \in Ports
        BY <1>2, <1>3
      <4> QED BY <2>1, <3>1, <3>2, <4>1, RegPxIS, Zenon
    <3>4. \A q \in Ports : "DHRS" \in reg'[q].PxIS => "DHRS" \in reg[q].PxIS
      BY <3>3 DEF S
    <3> QED BY <1>3, <3>3, <3>4
  <2> QED BY <2>2, <2>3
<1>7. /\ portQue' \in [Ports -> Seq(Types)]
      /\ \A q \in Ports : q # p => portQue'[q] = portQue[q]
      /\ portQue'[p] = IF type \in reg[p].PxIS THEN Append(portQue[p], type) ELSE portQue[p]
      /\ \A q \in Ports : Len(portQue[q]) <= Len(portQue'[q])
  <2>1. portQue \in [Ports -> Seq(Types)]
    BY <1>2 DEF Types_
  <2>2. CASE type \notin reg[p].PxIS
    BY <1>1, <1>2, <2>1, <2>2
  <2>3. CASE type \in reg[p].PxIS
    <3> DEFINE a == Append(portQue[p], type)
    <3>1. portQue[p] \in Seq(Types)
      BY <1>2, <2>1
    <3>2. a \in Seq(Types) /\ Len(a) = Len(portQue[p]) + 1
      BY <1>5, <3>1, AppendProperties
    <3>3. portQue' = [portQue EXCEPT ![p] = a]
      BY <1>1, <2>3
    <3> HIDE DEF a
    <3>4. /\ portQue' \in [Ports -> Seq(Types)] /\ portQue'[p] = a
          /\ \A q \in Ports : q # p => portQue'[q] = portQue[q]
      BY <1>2, <2>1, <3>2, <3>3
    <3>5. \A q \in Ports : Len(portQue[q]) <= Len(portQue'[q])
      BY <1>2, <3>2, <3>4
    <3> QED BY <2>3, <3>4, <3>5 DEF a
  <2> QED BY <2>2, <2>3
<1>8. /\ Types_' /\ TaskPlace' /\ Quiet' /\ Programmed' /\ Present'
      /\ task.step = "types" => que'[task.port] = que[task.port]
  <2>1. /\ ghc' \in [HR : BOOLEAN, AE : BOOLEAN, IE : BOOLEAN] /\ ghc' = ghc /\ is' \subseteq Ports
        /\ msgs' \in Nat /\ que' = que /\ que' \in Seq(Ports) /\ Len(que) <= Len(que')
        /\ isr'.step # "off" /\ isr.step # "off"
    BY <1>1, <1>2, <1>4 DEF Types_
  <2> QED BY <1>1, <1>4, <1>6, <1>7, <2>1, HandlerKeeps
<1>9. AnswersCounted'
  <2> SUFFICES ASSUME NEW q \in Ports PROVE Answering(q)' <= commands'[q]
    BY <1>3 DEF AnswersCounted
  <2> DEFINE a == CountIn(todo[q], {"DHRS"})
             b == CountIn(Left(q), {"DHRS"})
             e == CountIn(Left(q), {"DHRS"})'
             c == IF "DHRS" \in reg[q].PxIS /\ ~Seen(q) THEN 1 ELSE 0
             d == IF "DHRS" \in reg'[q].PxIS /\ ~Seen(q)' THEN 1 ELSE 0
  <2>1. a \in Nat /\ b \in Nat /\ commands[q] \in Nat /\ Answering(q) <= commands[q]
    BY AnsweringType DEF AhciInv, AnswersCounted
  <2>2. Answering(q) = a + c + b
    BY DEF Answering
  <2>3. Answering(q)' = a + d + e
    BY <1>3 DEF Answering, CountIn, Positions
  <2>4. IF q = p /\ type \in reg[p].PxIS THEN Left(q)' = Append(Left(q), type)
                                        ELSE Left(q)' = Left(q)
    <3>1. Index' = Index \/ task.step # "types"
      BY <1>3, <1>8 DEF Index
    <3>2. portQue[q] \in Seq(Types)
      BY <1>2 DEF Types_
    <3>3. CASE task.step = "types" /\ port_[Index] = q
      <4>1. /\ Left(q) = SubSeq(portQue[q], task.type, Len(portQue[q]))
            /\ Left(q)' = SubSeq(portQue'[q], task.type, Len(portQue'[q]))
        BY <1>3, <3>1, <3>3 DEF Left
      <4>2. task.type \in Nat /\ 1 <= task.type /\ task.type <= Len(portQue[q]) + 1
        <5>1. /\ task.type >= 1 /\ task.type <= task.types + 1
              /\ task.types <= Len(portQue[q]) /\ task.type \in Nat /\ task.types \in Nat
          BY <1>2, <3>3 DEF Types_, TaskPlace
        <5>2. Len(portQue[q]) \in Nat
          BY <1>2
        <5> QED BY <5>1, <5>2
      <4>3. SubSeq(Append(portQue[q], type), task.type, Len(Append(portQue[q], type)))
              = Append(SubSeq(portQue[q], task.type, Len(portQue[q])), type)
        <5>1. \A x \in Types : SubSeq(Append(portQue[q], x), task.type, Len(Append(portQue[q], x)))
                               = Append(SubSeq(portQue[q], task.type, Len(portQue[q])), x)
          <6> DEFINE v == portQue[q]
                     k == task.type
          <6>1. v \in Seq(Types) /\ k \in Nat /\ 1 <= k /\ k <= Len(v) + 1
            BY <3>2, <4>2
          <6> HIDE DEF v, k
          <6>2. \A x \in Types : SubSeq(Append(v, x), k, Len(Append(v, x)))
                                 = Append(SubSeq(v, k, Len(v)), x)
            BY <6>1, StretchMoves
          <6> QED BY <6>2 DEF v, k
        <5> QED BY <1>5, <5>1
      <4> QED BY <1>7, <4>1, <4>3
    <3>4. CASE ~(task.step = "types" /\ port_[Index] = q)
      <4>1. Left(q) = portQue[q] /\ Left(q)' = portQue'[q]
        BY <1>3, <3>1, <3>4 DEF Left
      <4> QED BY <1>7, <4>1
    <3> QED BY <3>3, <3>4
  <2>5. e = IF q = p /\ type = "DHRS" /\ type \in reg[p].PxIS THEN b + 1 ELSE b
    <3>1. Left(q) \in Seq(Types)
      BY <1>2, LeftType
    <3>2. CountIn(Append(Left(q), type), {"DHRS"}) = IF type \in {"DHRS"} THEN b + 1 ELSE b
      BY <1>5, <3>1, CountAppend
    <3>3. e = IF q = p /\ type \in reg[p].PxIS THEN CountIn(Append(Left(q), type), {"DHRS"})
              ELSE CountIn(Left(q), {"DHRS"})
      BY <2>4 DEF CountIn, Positions
    <3> QED BY <3>2, <3>3
  <2>6. c \in {0, 1} /\ d \in {0, 1}
    OBVIOUS
  <2>7. d <= c
    <3>1. "DHRS" \in reg'[q].PxIS => "DHRS" \in reg[q].PxIS
      BY <1>6
    <3>2. Seen(q) => Seen(q)'
      <4>1. isr.bit > 1 => isr'.step = "write" \/ isr'.bit > 1
        BY <1>4
      <4> QED BY <1>1, <1>3, <1>4, <4>1 DEF Seen
    <3> QED BY <3>1, <3>2
  <2>8. q = p /\ type = "DHRS" /\ type \in reg[p].PxIS => c = 1 /\ d = 0
    <3> SUFFICES ASSUME q = p, type = "DHRS", type \in reg[p].PxIS PROVE c = 1 /\ d = 0
      OBVIOUS
    <3>1. isr.bit = 1 /\ ~Seen(q)
      BY <1>1, <1>5 DEF Seen
    <3>2. Seen(q)'
      BY <1>3, <1>4, <3>1 DEF Seen, p
    <3> QED BY <3>1, <3>2
  <2> HIDE DEF a, b, c, d, e
  <2>9. commands'[q] = commands[q]
    BY <1>3
  <2> QED BY <2>1, <2>2, <2>3, <2>5, <2>6, <2>7, <2>8, <2>9
<1>10. Announced'
  <2>1. HandlerRuns' /\ TaskEmpties' = TaskEmpties
    BY <1>3, <1>4 DEF HandlerRuns, TaskEmpties
  <2>2. \A q \in Ports : InPlace(q)' = InPlace(q) /\ (Queueing(q) => Queueing(q)')
    BY <1>3, <1>4 DEF Queueing, InPlace
  <2>3. \A q \in Ports : q = p => Queueing(q)'
    BY <1>3, <1>4 DEF Queueing, p
  <2>4. \A q \in Ports : portQue'[q] # << >> => portQue[q] # << >> \/ Queueing(q)'
    BY <1>7, <2>3
  <2> QED BY <1>1, <1>2, <1>3, <2>1, <2>2, <2>4 DEF Announced
<1> QED BY <1>8, <1>9, <1>10 DEF AhciInv

\* The handler writes the bits that are set.
LEMMA WritePxISKeeps ==
  ASSUME AhciInv, WritePxIS
  PROVE  AhciInv'
<1> DEFINE p == port_[isr.port]
           S == AfterWrite(reg[p].PxIS)
<1>1. /\ isr.step = "write" /\ UNCHANGED <<ghc, is, que, portQue, msgs>> /\ HandlerUnchanged
      /\ reg' = [reg EXCEPT ![p].PxIS = S] /\ isr' = [isr EXCEPT !.step = "wait"]
  BY DEF WritePxIS, queues
<1>2. /\ Types_ /\ Announced /\ isr.port \in DOMAIN port_ /\ p \in Ports /\ HandlerRuns
      /\ HandlerRuns /\ ~raced => ~TaskEmpties
      /\ Len(que) \in Nat /\ \A q \in Ports : Len(portQue[q]) \in Nat
  BY <1>1, HandlerFacts DEF AhciInv, HandlerRuns
<1>3. /\ Ports' = Ports /\ port_' = port_
      /\ UNCHANGED <<hba, todo, type_, commands, task, raced>>
  BY <1>1, SameController DEF HandlerUnchanged, disks
<1>4. /\ isr' \in [step : IsrSteps, port : DOMAIN port_, bit : 1 .. 3]
      /\ isr'.step = "wait" /\ isr'.port = isr.port
  BY <1>1, <1>2 DEF Types_, IsrSteps
<1> HIDE DEF p
<1>5. S \in SUBSET Types /\ "DHRS" \notin S
  BY <1>2 DEF AfterWrite, Types
<1> HIDE DEF S
<1>6. /\ reg' \in [Ports -> PortRegisters]
      /\ \A q \in Ports : Kept(q) /\ reg'[q].up = reg[q].up
      /\ \A q \in Ports : reg'[q].PxIS = IF q = p THEN S ELSE reg[q].PxIS
  <2>1. reg \in [Ports -> PortRegisters] /\ Ports' = Ports /\ p \in Ports
    BY <1>2, <1>3 DEF Types_
  <2>2. /\ reg' \in [Ports' -> PortRegisters] /\ \A q \in Ports : Kept(q)
        /\ \A q \in Ports : reg'[q].PxIS = IF q = p THEN S ELSE reg[q].PxIS
        /\ \A q \in Ports : reg'[q].up = reg[q].up
    BY <1>1, <1>5, <2>1, RegPxIS, Zenon
  <2> QED BY <1>3, <2>2
<1>7. /\ Types_' /\ TaskPlace' /\ Quiet' /\ Programmed' /\ Present'
  <2>1. /\ ghc' \in [HR : BOOLEAN, AE : BOOLEAN, IE : BOOLEAN] /\ ghc' = ghc /\ is' \subseteq Ports
        /\ msgs' \in Nat /\ que' = que /\ que' \in Seq(Ports) /\ Len(que) <= Len(que')
        /\ isr'.step # "off" /\ isr.step # "off" /\ portQue' \in [Ports -> Seq(Types)]
        /\ \A q \in Ports : Len(portQue[q]) <= Len(portQue'[q])
    BY <1>1, <1>2, <1>4 DEF Types_
  <2> QED BY <1>1, <1>4, <1>6, <2>1, HandlerKeeps
<1>8. AnswersCounted'
  <2>1. \A q \in Ports : Left(q)' = Left(q)
    BY <1>1, <1>3, LeftStays
  <2>2. \A q \in Ports : "DHRS" \in reg'[q].PxIS => "DHRS" \in reg[q].PxIS /\ q # p
    BY <1>5, <1>6
  <2>3. \A q \in Ports : q # p => ~Seen(q)
    BY DEF Seen, p
  <2> QED BY <1>3, <2>1, <2>2, <2>3, AnswersStay
<1>9. Announced'
  <2>1. HandlerRuns' /\ TaskEmpties' = TaskEmpties
    BY <1>3, <1>4 DEF HandlerRuns, TaskEmpties
  <2>2. \A q \in Ports : InPlace(q)' = InPlace(q) /\ (Queueing(q) => Queueing(q)')
    BY <1>3, <1>4 DEF Queueing, InPlace
  <2> QED BY <1>1, <1>2, <1>3, <2>1, <2>2 DEF Announced
<1> QED BY <1>7, <1>8, <1>9 DEF AhciInv

\* The handler queues the port, if it is that of a disk.
LEMMA QueuePortKeeps ==
  ASSUME AhciInv, QueuePort
  PROVE  AhciInv'
<1> DEFINE p == port_[isr.port]
<1>1. /\ isr.step = "wait" /\ UNCHANGED <<ghc, is, reg, portQue, msgs>> /\ HandlerUnchanged
      /\ que' = IF type_[p] = "ATA" THEN Append(que, p) ELSE que
      /\ isr' = NextPort(isr.port)
  BY DEF QueuePort
<1>2. /\ Types_ /\ Announced /\ isr.port \in DOMAIN port_ /\ p \in Ports /\ HandlerRuns
      /\ HandlerRuns /\ ~raced => ~TaskEmpties
      /\ Len(que) \in Nat /\ \A q \in Ports : Len(portQue[q]) \in Nat
  BY <1>1, HandlerFacts DEF AhciInv, HandlerRuns
<1>3. /\ Ports' = Ports /\ port_' = port_
      /\ UNCHANGED <<hba, todo, type_, commands, task, raced>>
  BY <1>1, SameController DEF HandlerUnchanged, disks
<1>4. /\ isr' \in [step : IsrSteps, port : DOMAIN port_, bit : 1 .. 3]
      /\ isr'.step \in {"port", "clear"}
  BY <1>1, <1>2, NextPortFacts
<1> HIDE DEF p
<1>5. /\ que' \in Seq(Ports) /\ Len(que) <= Len(que')
      /\ \A j \in 1 .. Len(que) : que'[j] = que[j]
      /\ ToSet(que') = ToSet(que) \cup (IF type_[p] = "ATA" THEN {p} ELSE {})
  <2>1. que \in Seq(Ports) /\ Len(que) \in Nat
    BY <1>2 DEF Types_
  <2>2. CASE type_[p] = "ATA"
    <3>1. /\ Append(que, p) \in Seq(Ports) /\ Len(Append(que, p)) = Len(que) + 1
          /\ \A j \in 1 .. Len(que) : Append(que, p)[j] = que[j]
      BY <1>2, <2>1, AppendProperties
    <3>2. ToSet(Append(que, p)) = ToSet(que) \cup {p}
      BY <1>2, <2>1, AppendToQueue
    <3> QED BY <1>1, <2>1, <2>2, <3>1, <3>2
  <2>3. CASE type_[p] # "ATA"
    BY <1>1, <2>1, <2>3
  <2> QED BY <2>2, <2>3
<1>6. /\ reg' \in [Ports -> PortRegisters] /\ \A q \in Ports : Kept(q) /\ reg'[q].up = reg[q].up
  BY <1>1, <1>2 DEF Types_, Kept
<1>7. /\ Types_' /\ TaskPlace' /\ Quiet' /\ Programmed' /\ Present'
      /\ task.step = "types" => que'[task.port] = que[task.port]
  <2>1. /\ ghc' \in [HR : BOOLEAN, AE : BOOLEAN, IE : BOOLEAN] /\ ghc' = ghc /\ is' \subseteq Ports
        /\ msgs' \in Nat
        /\ isr'.step # "off" /\ isr.step # "off" /\ portQue' \in [Ports -> Seq(Types)]
        /\ \A q \in Ports : Len(portQue[q]) <= Len(portQue'[q])
    BY <1>1, <1>2, <1>4 DEF Types_
  <2> QED BY <1>1, <1>4, <1>5, <1>6, <2>1, HandlerKeeps
<1>8. AnswersCounted'
  <2>1. \A q \in Ports : Left(q)' = Left(q)
    BY <1>1, <1>3, <1>7, LeftStays
  <2>2. \A q \in Ports : ~Seen(q)
    BY <1>1 DEF Seen
  <2>3. reg' = reg
    BY <1>1
  <2> QED BY <1>3, <2>1, <2>2, <2>3, AnswersStay
<1>9. Announced'
  <2>1. HandlerRuns' /\ TaskEmpties' = TaskEmpties
    BY <1>3, <1>4 DEF HandlerRuns, TaskEmpties
  <2>2. \A q \in Ports : InPlace(q)' = InPlace(q) /\ (Queueing(q) => q = p)
    BY <1>3 DEF Queueing, InPlace, p
  <2>3. \A q \in Ports : type_[q] = "ATA" /\ (q \in ToSet(que) \/ q = p) => q \in ToSet(que')
    BY <1>5
  <2> QED BY <1>1, <1>2, <1>3, <2>1, <2>2, <2>3 DEF Announced
<1> QED BY <1>7, <1>8, <1>9 DEF AhciInv

\* The last steps of the handler move it, and send the task a message.
LEMMA LastStepsKeep ==
  ASSUME AhciInv, ClearIS \/ Send \/ Enable
  PROVE  AhciInv'
<1>1. /\ isr.step \in {"clear", "send", "enable"} /\ UNCHANGED <<reg, que, portQue>>
      /\ HandlerUnchanged
      /\ \/ isr.step = "clear" /\ isr'.step = "send" /\ msgs' = msgs /\ ghc' = ghc /\ is' = StillAsk
         \/ isr.step = "send" /\ isr'.step = "enable" /\ msgs' = msgs + 1 /\ ghc' = ghc /\ is' = is
         \/ isr.step = "enable" /\ isr'.step = "off" /\ msgs' = msgs /\ is' = is
            /\ ghc' = [ghc EXCEPT !.IE = TRUE]
      /\ isr' \in {[isr EXCEPT !.step = "send"], [isr EXCEPT !.step = "enable"], NoHandler}
  <2>1. Types_
    BY DEF AhciInv
  <2>2. CASE ClearIS
    BY <2>1, <2>2 DEF ClearIS, queues, Types_
  <2>3. CASE Send
    BY <2>1, <2>3 DEF Send, queues, Types_
  <2>4. CASE Enable
    BY <2>1, <2>4 DEF Enable, queues, NoHandler
  <2> QED BY <2>2, <2>3, <2>4
<1>2. /\ Types_ /\ Announced
      /\ HandlerRuns /\ ~raced => ~TaskEmpties
      /\ NoHandler \in [step : IsrSteps, port : DOMAIN port_, bit : 1 .. 3]
  BY <1>1, HandlerFacts DEF AhciInv
<1>3. /\ isr' \in [step : IsrSteps, port : DOMAIN port_, bit : 1 .. 3]
  BY <1>1, <1>2 DEF Types_, IsrSteps
<1>4. /\ ghc' \in [HR : BOOLEAN, AE : BOOLEAN, IE : BOOLEAN] /\ ghc'.HR = ghc.HR
      /\ ghc'.AE = ghc.AE
      /\ ghc'.IE = TRUE \/ isr'.step # "off"
      /\ is' \subseteq Ports /\ msgs' \in Nat
  <2>1. ghc \in [HR : BOOLEAN, AE : BOOLEAN, IE : BOOLEAN] /\ is \subseteq Ports /\ msgs \in Nat
        /\ StillAsk \subseteq Ports
    BY <1>2 DEF Types_, StillAsk
  <2>2. CASE isr'.step # "off"
    BY <1>1, <2>1, <2>2
  <2>3. CASE isr'.step = "off"
    <3>1. ghc' = [ghc EXCEPT !.IE = TRUE] /\ msgs' = msgs /\ is' = is
      BY <1>1, <2>3
    <3> QED BY <2>1, <3>1
  <2> QED BY <2>2, <2>3
<1>5. \A p \in Ports : ~Seen(p) /\ ~Queueing(p)
  BY <1>1 DEF Seen, Queueing
<1>6. /\ Types_' /\ TaskPlace' /\ Quiet' /\ Programmed' /\ Present' /\ AnswersCounted'
      /\ Ports' = Ports /\ port_' = port_
      /\ UNCHANGED <<hba, type_, task, raced>>
  BY <1>1, <1>3, <1>4, <1>5, HandlerMoves
<1>7. Announced'
  <2>1. TaskEmpties' = TaskEmpties /\ \A p \in Ports : InPlace(p)' = InPlace(p)
    BY <1>6 DEF TaskEmpties, InPlace
  <2>2. \/ HandlerRuns /\ HandlerRuns' /\ msgs' = msgs
        \/ HandlerRuns /\ msgs' = msgs + 1
        \/ ~HandlerRuns /\ ~HandlerRuns' /\ msgs' = msgs
    BY <1>1 DEF HandlerRuns
  <2>3. msgs \in Nat
    BY <1>2 DEF Types_
  <2>4. que' # << >> => msgs' > 0 \/ TaskEmpties' \/ HandlerRuns' \/ task'.step = "undefined"
    <3>1. que # << >> => msgs > 0 \/ TaskEmpties \/ HandlerRuns \/ task.step = "undefined"
      BY <1>2 DEF Announced
    <3> QED BY <1>1, <1>6, <2>1, <2>2, <2>3, <3>1
  <2>5. ~raced /\ TaskEmpties => ~HandlerRuns /\ ~HandlerRuns'
    BY <1>2, <2>2
  <2>6. /\ ~raced => \A p \in Ports :
             type_[p] = "ATA" /\ InPlace(p) /\ portQue[p] # << >> => p \in ToSet(que)
        /\ ~raced /\ TaskEmpties =>
             /\ task.ports = Len(que)
             /\ \A j \in 1 .. task.port - 1 : Done(j)
    BY <1>2, <1>5 DEF Announced
  <2>7. \A x : InPlace(x)' = InPlace(x)
    BY <1>6 DEF InPlace
  <2>8. UNCHANGED <<que, portQue, type_, task, raced>>
    BY <1>1, <1>6
  <2>9. \A j : Done(j)' = Done(j)
    BY <1>6, <2>8 DEF Done, InPlace
  <2>10. ~raced' => \A p \in Ports' :
           type_'[p] = "ATA" /\ InPlace(p)' /\ portQue'[p] # << >> => p \in ToSet(que')
    BY <1>6, <2>6, <2>7, <2>8
  <2>11. ~raced' /\ TaskEmpties' =>
           /\ ~HandlerRuns' /\ task'.ports = Len(que')
           /\ \A j \in 1 .. task'.port - 1 : Done(j)'
    BY <2>1, <2>5, <2>6, <2>8, <2>9
  <2> QED BY <2>4, <2>10, <2>11 DEF Announced
<1> QED BY <1>6, <1>7 DEF AhciInv

\* What is announced stays so when neither the queues nor the task nor the handler move, or
\* the handler is entered.
LEMMA AnnouncedStays ==
  ASSUME AhciInv, Ports' = Ports, port_' = port_,
         UNCHANGED <<que, portQue, type_, task, msgs>>,
         ~raced' => ~raced,
         isr' = isr \/ (isr.step = "off" /\ HandlerRuns' /\ (~raced' => ~TaskEmpties))
  PROVE  Announced'
<1>1. /\ Announced /\ TaskEmpties' = TaskEmpties
      /\ \A p : InPlace(p)' = InPlace(p)
      /\ \A j : Done(j)' = Done(j)
  BY DEF AhciInv, TaskEmpties, InPlace, Done
<1>2. HandlerRuns => HandlerRuns'
  BY DEF HandlerRuns
<1>3. \A p : Queueing(p) => Queueing(p)'
  BY DEF Queueing
<1>4. que' # << >> => msgs' > 0 \/ TaskEmpties' \/ HandlerRuns' \/ task'.step = "undefined"
  BY <1>1, <1>2 DEF Announced
<1>5. ~raced' => \A p \in Ports :
        type_'[p] = "ATA" /\ InPlace(p)' /\ portQue'[p] # << >> => p \in ToSet(que') \/ Queueing(p)'
  BY <1>1, <1>3 DEF Announced
<1>6. ~raced' /\ TaskEmpties' => isr' = isr
  BY <1>1
<1>7. ~raced' /\ TaskEmpties' =>
        /\ ~HandlerRuns' /\ task'.ports = Len(que')
        /\ \A j \in 1 .. task'.port - 1 : Done(j)'
  <2>1. isr' = isr => HandlerRuns' = HandlerRuns
    BY DEF HandlerRuns
  <2> QED BY <1>1, <1>6, <2>1 DEF Announced
<1> QED BY <1>4, <1>5, <1>7 DEF Announced

\* The handler is entered.
LEMMA EnterKeeps ==
  ASSUME AhciInv, Enter
  PROVE  AhciInv'
<1>1. /\ isr.step = "off" /\ ghc.IE /\ ghc' = [ghc EXCEPT !.IE = FALSE]
      /\ isr' = [NoHandler EXCEPT !.step = "port"] /\ raced' = (raced \/ TaskEmpties)
      /\ UNCHANGED <<hba, is, reg, todo, que, portQue, msgs, task, type_, commands,
                     dev_info_temp, dev_info, dirty, disturbed>>
  BY DEF Enter, queues, disks
<1>2. Types_ /\ task.step \notin SettingUpSteps /\ 1 \in DOMAIN port_
  <2>1. Types_ /\ Quiet
    BY DEF AhciInv
  <2> QED BY <1>1, <2>1, PortsFacts DEF Quiet, Types_
<1>3. /\ isr' \in [step : IsrSteps, port : DOMAIN port_, bit : 1 .. 3] /\ isr'.step = "port"
  <2>1. NoHandler \in [step : IsrSteps, port : DOMAIN port_, bit : 1 .. 3] /\ "port" \in IsrSteps
    BY <1>2 DEF NoHandler, IsrSteps
  <2> QED BY <1>1, <2>1
<1>4. /\ ghc' \in [HR : BOOLEAN, AE : BOOLEAN, IE : BOOLEAN] /\ ghc'.HR = ghc.HR
      /\ ghc'.AE = ghc.AE
      /\ ghc'.IE = TRUE \/ isr'.step # "off"
  BY <1>1, <1>2, <1>3 DEF Types_
<1>5. /\ Types_' /\ TaskPlace' /\ Quiet' /\ Programmed' /\ Present'
      /\ Ports' = Ports /\ port_' = port_
  <2>1. /\ raced' \in BOOLEAN /\ dev_info_temp' \in Ports \cup {Nobody} /\ is' \subseteq Ports
        /\ todo' \in [Ports -> Seq(Types)] /\ todo' = todo /\ msgs' \in Nat
        /\ reg' \in [Ports -> PortRegisters] /\ reg' = reg
        /\ que' \in Seq(Ports) /\ que' = que /\ portQue' \in [Ports -> Seq(Types)]
    BY <1>1, <1>2 DEF Types_, TaskEmpties
  <2>2. /\ Len(que) <= Len(que') /\ \A j \in 1 .. Len(que) : que'[j] = que[j]
        /\ \A p \in Ports : Len(portQue[p]) <= Len(portQue'[p])
    <3>1. que \in Seq(Ports) /\ \A p \in Ports : portQue[p] \in Seq(Types)
      BY <1>2 DEF Types_
    <3>2. Len(que) \in Nat /\ \A p \in Ports : Len(portQue[p]) \in Nat
      BY <3>1, LenProperties
    <3> QED BY <1>1, <3>2
  <2>3. \A p \in Ports : Kept(p) /\ (reg'[p].up = reg[p].up \/ hba.device[p] # "none")
    BY <2>1 DEF Kept
  <2>4. \A p \in Ports : todo'[p] # << >> => todo[p] # << >>
    BY <2>1
  <2> QED BY <1>1, <1>2, <1>3, <1>4, <2>1, <2>2, <2>3, <2>4, RunningKeeps
<1>6. AnswersCounted'
  <2>1. \A p \in Ports : Left(p)' = Left(p)
    BY <1>1, <1>5, LeftStays
  <2>2. \A p \in Ports : ~Seen(p)
    BY <1>1 DEF Seen
  <2> QED BY <1>1, <1>5, <2>1, <2>2, AnswersStay
<1>7. Announced'
  <2>1. HandlerRuns'
    BY <1>3 DEF HandlerRuns
  <2> QED BY <1>1, <1>5, <2>1, AnnouncedStays
<1> QED BY <1>5, <1>6, <1>7 DEF AhciInv

\* A device is connected.
LEMMA ConnectsKeeps ==
  ASSUME AhciInv, NEW p \in Ports, Connects(p)
  PROVE  AhciInv'
<1>1. /\ hba.device[p] # "none" /\ UNCHANGED <<todo, dev_info_temp>>
      /\ reg' = [reg EXCEPT ![p].PxIS = @ \cup {"PCS"}, ![p].CI = IF "PCS" = "DHRS" THEN {} ELSE @,
                            ![p].up = TRUE]
      /\ is' = IF reg[p].PxIE THEN is \cup {p} ELSE is
      /\ raced' = (raced \/ HandlerRuns \/ Behind(p))
      /\ UNCHANGED <<hba, ghc, isr, que, portQue, type_, msgs, task, commands, dev_info, dirty,
                     disturbed>>
  BY DEF Connects, PortReports, queues
<1>2. Types_ /\ Quiet /\ Programmed
  BY DEF AhciInv
<1>3. Ports' = Ports /\ port_' = port_
  BY <1>1, SameController
<1>4. /\ reg' \in [Ports -> PortRegisters] /\ \A q \in Ports : Kept(q)
      /\ \A q \in Ports : "DHRS" \in reg'[q].PxIS => "DHRS" \in reg[q].PxIS
      /\ \A q \in Ports : reg'[q].up = reg[q].up \/ hba.device[q] # "none"
  <2>1. "PCS" \in Types /\ reg \in [Ports -> PortRegisters]
    BY <1>2 DEF Types, Types_
  <2>2. /\ reg' \in [Ports' -> PortRegisters] /\ \A q \in Ports : Kept(q)
        /\ \A q \in Ports : reg'[q].PxIS = IF q = p THEN reg[q].PxIS \cup {"PCS"} ELSE reg[q].PxIS
        /\ \A q \in Ports : q # p => reg'[q].up = reg[q].up
    BY <1>1, <1>3, <2>1, RegReports
  <2>3. \A q \in Ports : "DHRS" \in reg'[q].PxIS => "DHRS" \in reg[q].PxIS
    <3> SUFFICES ASSUME NEW q \in Ports, "DHRS" \in reg'[q].PxIS PROVE "DHRS" \in reg[q].PxIS
      OBVIOUS
    <3>1. reg'[q].PxIS = reg[q].PxIS \cup {"PCS"} \/ reg'[q].PxIS = reg[q].PxIS
      BY <2>2
    <3> QED BY <3>1
  <2>4. \A q \in Ports : reg'[q].up = reg[q].up \/ hba.device[q] # "none"
    <3>1. hba.device[p] # "none"
      BY <1>1
    <3> QED BY ONLY <2>2, <3>1
  <2> QED BY ONLY <1>3, <2>2, <2>3, <2>4
<1>5. /\ raced' \in BOOLEAN /\ is' \subseteq Ports
      /\ ghc' \in [HR : BOOLEAN, AE : BOOLEAN, IE : BOOLEAN] /\ task' = task
      /\ task \in [step : TaskSteps, port : Nat, ports : Nat, type : Nat, types : Nat]
      /\ type_' \in [Ports -> {"ATA", "ATAPI", "null"}] /\ type_' = type_
      /\ disturbed' \in BOOLEAN /\ msgs' \in Nat /\ que' \in Seq(Ports)
      /\ portQue' \in [Ports -> Seq(Types)] /\ todo' \in [Ports -> Seq(Types)]
      /\ dev_info_temp' \in Ports \cup {Nobody}
      /\ isr' \in [step : IsrSteps, port : DOMAIN port_, bit : 1 .. 3]
    BY <1>1, <1>2 DEF Types_, HandlerRuns, Behind
<1>6. AnswersCounted'
  <2>1. \A q \in Ports : Left(q)' = Left(q)
    BY <1>1, <1>3, LeftStays
  <2>2. \A q \in Ports : Seen(q)' = Seen(q)
    BY <1>1, <1>3 DEF Seen
  <2> QED BY <1>1, <1>3, <1>4, <2>1, <2>2, AnswersStay
<1>7. Announced'
  BY <1>1, <1>3, AnnouncedStays
<1>8. Programmed'
  BY <1>1, <1>2, <1>4, ProgrammedStays
<1>9. CASE task.step \in SettingUpSteps
  <2>1. task.step \in EachPort => task.port \in DOMAIN port_
    BY DEF AhciInv, TaskPlace
  <2>2. \A q \in Ports : /\ reg'[q].up \in {FALSE, reg[q].up} \/ hba.device[q] # "none"
                         /\ type_'[q] \in {type_[q], "null", hba.device[q]} \ {"none"}
    BY <1>4, <1>5 DEF AhciInv, Present
  <2>3. /\ Types_' /\ TaskPlace' /\ Present'
        /\ isr'.step = "off" /\ que' = << >>
        /\ \A q \in Ports : portQue'[q] = << >> /\ todo'[q] = << >> /\ commands'[q] = 0
    BY <1>1, <1>4, <1>5, <1>9, <2>1, <2>2, StillSettingUp
  <2>4. Quiet'
    BY <1>1, <1>2, <1>3, <1>9, <2>3 DEF Quiet
  <2> QED BY <1>6, <1>7, <1>8, <2>3, <2>4 DEF AhciInv
<1>10. CASE task.step \notin SettingUpSteps
  <2>1. /\ Len(que) <= Len(que') /\ \A j \in 1 .. Len(que) : que'[j] = que[j]
        /\ \A q \in Ports : Len(portQue[q]) <= Len(portQue'[q])
    <3>1. que \in Seq(Ports) /\ \A q \in Ports : portQue[q] \in Seq(Types)
      BY <1>2 DEF Types_
    <3>2. Len(que) \in Nat /\ \A q \in Ports : Len(portQue[q]) \in Nat
      BY <3>1, LenProperties
    <3> QED BY <1>1, <3>2
  <2>2. /\ ghc'.HR = ghc.HR /\ ghc'.AE = ghc.AE
        /\ ghc'.IE = TRUE \/ isr'.step # "off"
    BY <1>1, <1>2, <1>10 DEF Quiet, Types_
  <2>3. \A q \in Ports : todo'[q] # << >> => todo[q] # << >>
    BY <1>1
  <2>4. /\ Types_' /\ TaskPlace' /\ Quiet' /\ Present'
    BY <1>1, <1>4, <1>5, <1>10, <2>1, <2>2, <2>3, RunningKeeps
  <2> QED BY <1>6, <1>7, <1>8, <2>4 DEF AhciInv
<1> QED BY <1>9, <1>10

\* A disk answers.
LEMMA ReportKeeps ==
  ASSUME AhciInv, NEW p \in Ports, Report(p)
  PROVE  AhciInv'
<1> DEFINE t == Head(todo[p])
<1>1. /\ todo[p] # << >> /\ todo' = [todo EXCEPT ![p] = Tail(@)]
      /\ dev_info_temp' \in {dev_info_temp, p}
      /\ reg' = [reg EXCEPT ![p].PxIS = @ \cup {t}, ![p].CI = IF t = "DHRS" THEN {} ELSE @,
                            ![p].up = TRUE]
      /\ is' = IF reg[p].PxIE THEN is \cup {p} ELSE is
      /\ raced' = (raced \/ HandlerRuns \/ FALSE)
      /\ UNCHANGED <<hba, ghc, isr, que, portQue, type_, msgs, task, commands, dev_info, dirty,
                     disturbed>>
  BY DEF Report, PortReports, queues
<1>2. /\ Types_ /\ TaskPlace /\ Quiet /\ Programmed /\ Present /\ task.step \notin SettingUpSteps
  BY <1>1 DEF AhciInv, Quiet
<1>3. Ports' = Ports /\ port_' = port_
  BY <1>1, SameController
<1>4. /\ todo[p] \in Seq(Types) /\ t \in Types /\ Tail(todo[p]) \in Seq(Types)
      /\ todo' \in [Ports -> Seq(Types)] /\ todo'[p] = Tail(todo[p])
      /\ \A q \in Ports : q # p => todo'[q] = todo[q]
  <2>1. todo \in [Ports -> Seq(Types)]
    BY <1>2 DEF Types_
  <2>2. todo[p] \in Seq(Types)
    BY <2>1
  <2>3. t \in ToSet(todo[p]) /\ ToSet(todo[p]) \subseteq Types
    BY <1>1, <2>2, HeadInSet
  <2>4. Tail(todo[p]) \in Seq(Types)
    BY <1>1, <2>2, HeadTailProperties
  <2> QED BY <1>1, <2>1, <2>2, <2>3, <2>4
<1> HIDE DEF t
<1>5. hba.device[p] # "none"
  <2>1. type_[p] = "ATA" /\ type_[p] \in {"null", hba.device[p]}
    BY <1>1, <1>2 DEF Present
  <2> QED BY <2>1
<1>6. /\ reg' \in [Ports -> PortRegisters] /\ \A q \in Ports : Kept(q)
      /\ \A q \in Ports : reg'[q].PxIS = IF q = p THEN reg[q].PxIS \cup {t} ELSE reg[q].PxIS
      /\ \A q \in Ports : reg'[q].up = reg[q].up \/ hba.device[q] # "none"
  <2>1. t \in Types /\ reg \in [Ports -> PortRegisters]
    BY <1>2, <1>4 DEF Types_
  <2>2. /\ reg' \in [Ports' -> PortRegisters] /\ \A q \in Ports : Kept(q)
        /\ \A q \in Ports : reg'[q].PxIS = IF q = p THEN reg[q].PxIS \cup {t} ELSE reg[q].PxIS
        /\ \A q \in Ports : q # p => reg'[q].up = reg[q].up
    BY <1>1, <1>3, <2>1, RegReports
  <2>3. \A q \in Ports : reg'[q].up = reg[q].up \/ hba.device[q] # "none"
    BY ONLY <1>5, <2>2
  <2> QED BY ONLY <1>3, <2>2, <2>3
<1>7. /\ raced' \in BOOLEAN /\ is' \subseteq Ports
      /\ ghc' \in [HR : BOOLEAN, AE : BOOLEAN, IE : BOOLEAN] /\ msgs' \in Nat
      /\ que' \in Seq(Ports) /\ portQue' \in [Ports -> Seq(Types)]
      /\ dev_info_temp' \in Ports \cup {Nobody}
      /\ isr' \in [step : IsrSteps, port : DOMAIN port_, bit : 1 .. 3]
  BY <1>1, <1>2 DEF Types_, HandlerRuns
<1>8. /\ Types_' /\ TaskPlace' /\ Quiet' /\ Programmed' /\ Present'
  <2>1. /\ Len(que) <= Len(que') /\ \A j \in 1 .. Len(que) : que'[j] = que[j]
        /\ \A q \in Ports : Len(portQue[q]) <= Len(portQue'[q])
    <3>1. que \in Seq(Ports) /\ \A q \in Ports : portQue[q] \in Seq(Types)
      BY <1>2 DEF Types_
    <3>2. Len(que) \in Nat /\ \A q \in Ports : Len(portQue[q]) \in Nat
      BY <3>1, LenProperties
    <3> QED BY <1>1, <3>2
  <2>2. /\ ghc'.HR = ghc.HR /\ ghc'.AE = ghc.AE
        /\ ghc'.IE = TRUE \/ isr'.step # "off"
    BY <1>1, <1>2 DEF Quiet, Types_
  <2>3. \A q \in Ports : todo'[q] # << >> => todo[q] # << >>
    BY <1>1, <1>4
  <2> QED BY <1>1, <1>2, <1>4, <1>6, <1>7, <2>1, <2>2, <2>3, RunningKeeps
<1>9. AnswersCounted'
  <2> SUFFICES ASSUME NEW q \in Ports PROVE Answering(q)' <= commands'[q]
    BY <1>3 DEF AnswersCounted
  <2> DEFINE a == CountIn(todo[q], {"DHRS"})
             e == CountIn(todo[q], {"DHRS"})'
             b == CountIn(Left(q), {"DHRS"})
             c == IF "DHRS" \in reg[q].PxIS /\ ~Seen(q) THEN 1 ELSE 0
             d == IF "DHRS" \in reg'[q].PxIS /\ ~Seen(q)' THEN 1 ELSE 0
  <2>1. a \in Nat /\ b \in Nat /\ commands[q] \in Nat /\ Answering(q) <= commands[q]
    BY AnsweringType DEF AhciInv, AnswersCounted
  <2>2. Answering(q) = a + c + b
    BY DEF Answering
  <2>3. Answering(q)' = e + d + b
    <3>1. Left(q)' = Left(q)
      BY <1>1, <1>3, LeftStays
    <3>2. CountIn(Left(q), {"DHRS"})' = b
      BY <3>1 DEF CountIn, Positions
    <3> QED BY <3>2 DEF Answering
  <2>4. Seen(q)' = Seen(q)
    BY <1>1, <1>3 DEF Seen
  <2>5. e \in Nat /\ a = IF q = p /\ t = "DHRS" THEN e + 1 ELSE e
    <3>1. CASE q = p
      <4>1. /\ CountIn(Tail(todo[p]), {"DHRS"}) \in Nat
            /\ CountIn(todo[p], {"DHRS"}) = IF Head(todo[p]) \in {"DHRS"}
                                           THEN CountIn(Tail(todo[p]), {"DHRS"}) + 1
                                           ELSE CountIn(Tail(todo[p]), {"DHRS"})
        BY <1>1, <1>4, CountTail
      <4>2. e = CountIn(Tail(todo[p]), {"DHRS"})
        BY <1>4, <3>1 DEF CountIn, Positions
      <4> HIDE DEF a, e
      <4>3. a = CountIn(todo[p], {"DHRS"})
        BY <3>1 DEF a
      <4> QED BY <3>1, <4>1, <4>2, <4>3 DEF t
    <3>2. CASE q # p
      <4>1. e = a
        BY <1>4, <3>2 DEF CountIn, Positions
      <4> QED BY <2>1, <3>2, <4>1
    <3> QED BY <3>1, <3>2
  <2>6. c \in {0, 1} /\ d \in {0, 1} /\ (d = c \/ (q = p /\ t = "DHRS" /\ c = 0 /\ d = 1))
    <3>1. CASE q # p
      <4>1. reg'[q].PxIS = reg[q].PxIS
        BY <1>6, <3>1
      <4> QED BY <2>4, <3>1, <4>1
    <3>2. CASE q = p
      <4>1. reg'[q].PxIS = reg[q].PxIS \cup {t}
        BY <1>6, <3>2
      <4>2. CASE t = "DHRS"
        BY <2>4, <3>2, <4>1, <4>2
      <4>3. CASE t # "DHRS"
        <5>1. "DHRS" \in reg'[q].PxIS <=> "DHRS" \in reg[q].PxIS
          BY <4>1, <4>3
        <5> QED BY <2>4, <5>1
      <4> QED BY <4>2, <4>3
    <3> QED BY <3>1, <3>2
  <2> HIDE DEF a, b, c, d, e
  <2>7. commands'[q] = commands[q]
    BY <1>1
  <2> QED BY <2>1, <2>2, <2>3, <2>5, <2>6, <2>7
<1>10. Announced'
  <2>1. ~raced' => ~raced
    BY <1>1
  <2> QED BY <1>1, <1>3, <2>1, AnnouncedStays
<1> QED BY <1>8, <1>9, <1>10 DEF AhciInv

----------------------------------------------------------------------------
(* The steps of the task once the controller is set up.                    *)

\* What is the same for all of them.
LEMMA TaskFrame ==
  ASSUME AhciInv, ~HandlerRuns, task.step \in {"loop", "ports", "types"}, TaskUnchanged,
         task' \in [step : TaskSteps, port : Nat, ports : Nat, type : Nat, types : Nat],
         task'.step \in {"loop", "ports", "types", "undefined"},
         que' \in Seq(Ports), portQue' \in [Ports -> Seq(Types)], msgs' \in Nat,
         commands' \in [Ports -> Nat], \A p \in Ports : commands'[p] <= commands[p],
         dev_info' \in [Ports -> Ports \cup {Nobody}]
  PROVE  /\ Types_' /\ Quiet' /\ Programmed' /\ Present'
         /\ Ports' = Ports /\ port_' = port_ /\ ~HandlerRuns'
         /\ \A p \in Ports : ~Seen(p) /\ ~Seen(p)' /\ ~Queueing(p) /\ ~Queueing(p)'
         /\ UNCHANGED <<todo, reg, isr, type_, raced>>
         /\ \A p : InPlace(p)' = InPlace(p)
<1>1. UNCHANGED <<hba, ghc, is, reg, todo, isr, type_, dev_info_temp, dirty, raced, disturbed>>
  BY DEF TaskUnchanged, hardware
<1>2. Ports' = Ports /\ port_' = port_
  BY <1>1, SameController
<1>3. Types_ /\ Quiet /\ Programmed /\ Present
  BY DEF AhciInv
<1>4. Types_'
  BY <1>1, <1>2, <1>3 DEF Types_
<1>5. /\ task.step \notin SettingUpSteps /\ task'.step \notin SettingUpSteps
      /\ task.step \notin {"start", "reset", "first"} /\ task.step \notin InSecound
      /\ task'.step \notin {"start", "reset", "first"} /\ task'.step \notin InSecound
  BY DEF SettingUpSteps, EachPort, InSecound
<1>6. Quiet'
  BY <1>1, <1>3, <1>5 DEF Quiet
<1>7. Programmed'
  <2>1. /\ ghc'.AE \/ (hba'.SPM /\ ~hba'.SAM)
        /\ ~disturbed'
    BY <1>1, <1>3, <1>5 DEF Programmed
  <2>2. ASSUME NEW j \in DOMAIN port_
        PROVE  /\ reg'[port_[j]].lists /\ reg'[port_[j]].FRE
               /\ reg'[port_[j]].ST /\ reg'[port_[j]].PxIE
    <3>1. /\ reg[port_[j]].lists /\ reg[port_[j]].FRE
          /\ reg[port_[j]].ST /\ reg[port_[j]].PxIE
      BY <1>3, <1>5 DEF Programmed
    <3> QED BY <1>1, <3>1
  <2>3. ASSUME NEW p \in Ports, commands'[p] > 0
        PROVE  reg'[p].ST /\ reg'[p].FRE /\ reg'[p].lists /\ reg'[p].PxIE
    <3>1. commands[p] > 0
      <4>1. commands[p] \in Nat /\ commands'[p] \in Nat /\ commands'[p] <= commands[p]
        BY <1>3 DEF Types_
      <4> QED BY ONLY <4>1, <2>3, SMT
    <3>2. reg[p].ST /\ reg[p].FRE /\ reg[p].lists /\ reg[p].PxIE
      BY <1>3, <3>1 DEF Programmed
    <3> QED BY <1>1, <3>2
  <2> QED BY ONLY <1>2, <1>5, <2>1, <2>2, <2>3 DEF Programmed
<1>8. Present'
  BY <1>1, <1>2, <1>3 DEF Present
<1>9. /\ ~HandlerRuns'
      /\ \A p \in Ports : ~Seen(p) /\ ~Seen(p)' /\ ~Queueing(p) /\ ~Queueing(p)'
  BY <1>1 DEF HandlerRuns, Seen, Queueing
<1>10. \A p : InPlace(p)' = InPlace(p)
  BY <1>2 DEF InPlace
<1> QED BY <1>1, <1>2, <1>4, <1>6, <1>7, <1>8, <1>9, <1>10

\* The answers of a port stay within its commands if those become no fewer than the
\* answers left.
LEMMA AnswersTaken ==
  ASSUME AhciInv, UNCHANGED <<todo, reg>>, NEW p \in Ports, ~Seen(p), ~Seen(p)',
         commands'[p] \in Nat, CountIn(Left(p), {"DHRS"})' \in Nat,
         CountIn(Left(p), {"DHRS"})' + commands[p] <= CountIn(Left(p), {"DHRS"}) + commands'[p]
  PROVE  Answering(p)' <= commands'[p]
<1> DEFINE a == CountIn(todo[p], {"DHRS"})
           b == CountIn(Left(p), {"DHRS"})
           e == CountIn(Left(p), {"DHRS"})'
           c == IF "DHRS" \in reg[p].PxIS THEN 1 ELSE 0
<1>1. a \in Nat /\ b \in Nat /\ commands[p] \in Nat /\ Answering(p) <= commands[p]
  BY AnsweringType DEF AhciInv, AnswersCounted
<1>2. Answering(p) = a + c + b
  BY DEF Answering
<1>3. Answering(p)' = CountIn(todo[p], {"DHRS"})' + c + e
  BY DEF Answering
<1>4. CountIn(todo[p], {"DHRS"})' = a
  BY DEF CountIn, Positions
<1>5. e \in Nat /\ commands'[p] \in Nat /\ e + commands[p] <= b + commands'[p] /\ c \in {0, 1}
  OBVIOUS
<1> HIDE DEF a, b, c, e
<1> QED BY ONLY <1>1, <1>2, <1>3, <1>4, <1>5, SMT

\* What is left is as it was if the task is not at a queue before or after.
LEMMA LeftAsItWas ==
  ASSUME AhciInv, UNCHANGED <<todo, reg>>, Ports' = Ports,
         \A p \in Ports : ~Seen(p) /\ ~Seen(p)' /\ Left(p)' = Left(p), commands' = commands
  PROVE  AnswersCounted'
<1> SUFFICES ASSUME NEW p \in Ports PROVE Answering(p)' <= commands'[p]
  BY DEF AnswersCounted
<1>1. /\ CountIn(Left(p), {"DHRS"}) \in Nat /\ commands[p] \in Nat
      /\ CountIn(Left(p), {"DHRS"})' = CountIn(Left(p), {"DHRS"})
  BY AnsweringType DEF AhciInv, CountIn, Positions
<1>2. CountIn(Left(p), {"DHRS"})' + commands[p] <= CountIn(Left(p), {"DHRS"}) + commands'[p]
  BY <1>1
<1> QED BY <1>1, <1>2, AnswersTaken

\* The task receives a message and begins to go through the queue.
LEMMA ReceiveKeeps ==
  ASSUME AhciInv, Receive
  PROVE  AhciInv'
<1>1. /\ ~HandlerRuns /\ task.step = "loop" /\ msgs > 0 /\ msgs' = msgs - 1
      /\ task' = [Loop EXCEPT !.step = "ports", !.ports = Len(que)]
      /\ UNCHANGED <<que, portQue, commands, dev_info>> /\ TaskUnchanged
  BY DEF Receive, queues
<1>2. Types_ /\ Announced /\ que \in Seq(Ports) /\ Len(que) \in Nat
  BY LenProperties DEF AhciInv, Types_
<1>3. /\ task' \in [step : TaskSteps, port : Nat, ports : Nat, type : Nat, types : Nat]
      /\ task'.step = "ports" /\ task'.port = 1 /\ task'.ports = Len(que)
  BY <1>1, <1>2 DEF Loop, TaskSteps
<1>4. /\ Types_' /\ Quiet' /\ Programmed' /\ Present'
      /\ Ports' = Ports /\ port_' = port_ /\ ~HandlerRuns'
      /\ \A p \in Ports : ~Seen(p) /\ ~Seen(p)' /\ ~Queueing(p) /\ ~Queueing(p)'
      /\ UNCHANGED <<todo, reg, isr, type_, raced>>
      /\ \A p : InPlace(p)' = InPlace(p)
  <2>1. /\ que' \in Seq(Ports) /\ portQue' \in [Ports -> Seq(Types)] /\ msgs' \in Nat
        /\ commands' \in [Ports -> Nat] /\ \A p \in Ports : commands'[p] <= commands[p]
        /\ dev_info' \in [Ports -> Ports \cup {Nobody}]
    BY <1>1, <1>2 DEF Types_
  <2>2. task'.step \in {"loop", "ports", "types", "undefined"} /\ task.step \in {"loop", "ports", "types"}
    BY <1>1, <1>3
  <2> QED BY <1>1, <1>3, <2>1, <2>2, TaskFrame
<1>5. TaskPlace'
  BY <1>1, <1>2, <1>3 DEF TaskPlace, EachPort, TaskEmpties
<1>6. AnswersCounted'
  <2>1. \A p \in Ports : Left(p)' = Left(p)
    BY <1>1, <1>3 DEF Left
  <2> QED BY <1>1, <1>4, <2>1, LeftAsItWas
<1>7. Announced'
  <2>1. TaskEmpties' /\ 1 .. task'.port - 1 = {}
    BY <1>3 DEF TaskEmpties
  <2>2. ~raced' => \A p \in Ports' :
          type_'[p] = "ATA" /\ InPlace(p)' /\ portQue'[p] # << >> => p \in ToSet(que')
    BY <1>1, <1>2, <1>4 DEF Announced
  <2> QED BY <1>1, <1>3, <1>4, <2>1, <2>2 DEF Announced
<1> QED BY <1>4, <1>5, <1>6, <1>7 DEF AhciInv

\* The task comes to the next port of the queue.
LEMMA TakePortKeeps ==
  ASSUME AhciInv, TakePort
  PROVE  AhciInv'
<1>1. /\ ~HandlerRuns /\ task.step = "ports" /\ task.port <= task.ports
      /\ UNCHANGED <<que, portQue, msgs, commands, dev_info>> /\ TaskUnchanged
  BY DEF TakePort, queues
<1> DEFINE p == port_[Index]
<1>2. /\ Types_ /\ TaskPlace /\ Announced /\ TaskEmpties
      /\ task \in [step : TaskSteps, port : Nat, ports : Nat, type : Nat, types : Nat]
  BY <1>1 DEF AhciInv, Types_, TaskEmpties
<1>3. /\ task.port \in Nat /\ task.ports \in Nat /\ task.port >= 1 /\ task.ports <= Len(que)
      /\ Len(que) \in Nat /\ task.port \in 1 .. Len(que) /\ que[task.port] \in Ports
      /\ que[task.port] \in Nat
  <2>1. que \in Seq(Ports) /\ Ports \in SUBSET (0 .. 31)
    BY <1>2, PortsFacts DEF Types_
  <2>2. /\ task.port \in Nat /\ task.ports \in Nat /\ task.port >= 1 /\ task.ports <= Len(que)
        /\ Len(que) \in Nat
    BY <1>2, <2>1, LenProperties DEF TaskPlace
  <2>3. task.port \in 1 .. Len(que)
    BY <1>1, <2>2
  <2>4. que[task.port] \in Ports
    BY <2>1, <2>3
  <2>5. que[task.port] \in 0 .. 31
    BY <2>1, <2>4
  <2>6. que[task.port] \in Nat
    BY ONLY <2>5, SMT
  <2> QED BY ONLY <2>2, <2>3, <2>4, <2>6
<1>4. Index \in DOMAIN port_ => p \in Ports
  BY <1>2, PortsFacts DEF Types_
<1>5. /\ task' \in [step : TaskSteps, port : Nat, ports : Nat, type : Nat, types : Nat]
      /\ \/ Index \notin DOMAIN port_ /\ task'.step = "undefined"
         \/ /\ Index \in DOMAIN port_ /\ type_[p] # "ATA" /\ task'.step = "ports"
            /\ task'.port = task.port + 1 /\ task'.ports = task.ports
         \/ /\ Index \in DOMAIN port_ /\ type_[p] = "ATA" /\ task'.step = "types"
            /\ task'.port = task.port /\ task'.ports = task.ports
            /\ task'.type = 1 /\ task'.types = Len(portQue[p])
  <2>1. CASE Index \notin DOMAIN port_
    <3>1. task' = [task EXCEPT !.step = "undefined"]
      BY <2>1 DEF TakePort
    <3> QED BY <1>2, <2>1, <3>1 DEF TaskSteps
  <2>2. CASE Index \in DOMAIN port_ /\ type_[p] # "ATA"
    <3>1. task' = [task EXCEPT !.port = @ + 1]
      BY <2>2 DEF TakePort
    <3> QED BY <1>1, <1>2, <2>2, <3>1
  <2>3. CASE Index \in DOMAIN port_ /\ type_[p] = "ATA"
    <3>1. task' = [task EXCEPT !.step = "types", !.type = 1, !.types = Len(portQue[p])]
      BY <2>3 DEF TakePort
    <3>2. Len(portQue[p]) \in Nat
      <4>1. portQue[p] \in Seq(Types)
        BY <1>2, <1>4, <2>3 DEF Types_
      <4> QED BY <4>1, LenProperties
    <3> HIDE DEF p
    <3> QED BY <1>2, <2>3, <3>1, <3>2 DEF TaskSteps
  <2> QED BY <2>1, <2>2, <2>3
<1>6. /\ Types_' /\ Quiet' /\ Programmed' /\ Present'
      /\ Ports' = Ports /\ port_' = port_ /\ ~HandlerRuns'
      /\ \A q \in Ports : ~Seen(q) /\ ~Seen(q)' /\ ~Queueing(q) /\ ~Queueing(q)'
      /\ UNCHANGED <<todo, reg, isr, type_, raced>>
      /\ \A q : InPlace(q)' = InPlace(q)
  <2>1. /\ que' \in Seq(Ports) /\ portQue' \in [Ports -> Seq(Types)] /\ msgs' \in Nat
        /\ commands' \in [Ports -> Nat] /\ \A q \in Ports : commands'[q] <= commands[q]
        /\ dev_info' \in [Ports -> Ports \cup {Nobody}]
    BY <1>1, <1>2 DEF Types_
  <2>2. task'.step \in {"loop", "ports", "types", "undefined"} /\ task.step \in {"loop", "ports", "types"}
    BY <1>1, <1>5
  <2> QED BY <1>1, <1>5, <2>1, <2>2, TaskFrame
<1>7. task'.step = "types" => Index' = Index
  BY <1>1, <1>5 DEF Index
<1>8. TaskPlace'
  <2>1. task'.step \notin EachPort
    BY <1>5 DEF EachPort
  <2>2. TaskEmpties' => task'.port >= 1 /\ task'.ports <= Len(que') /\ task'.port <= task'.ports + 1
    BY <1>1, <1>3, <1>5 DEF TaskEmpties
  <2>3. ASSUME task'.step = "types"
        PROVE  /\ task'.port <= task'.ports /\ Index' \in DOMAIN port_' /\ type_'[port_'[Index']] = "ATA"
               /\ task'.type >= 1 /\ task'.type <= task'.types + 1
               /\ task'.types <= Len(portQue'[port_'[Index']])
    <3>1. Len(portQue[p]) \in Nat
      <4>1. portQue[p] \in Seq(Types)
        BY <1>2, <1>4, <1>5, <2>3 DEF Types_
      <4> QED BY <4>1, LenProperties
    <3>2. port_'[Index'] = p /\ portQue' = portQue
      BY <1>1, <1>6, <1>7, <2>3
    <3>3. Index \in DOMAIN port_ /\ type_[p] = "ATA" /\ task'.port = task.port
          /\ task'.ports = task.ports /\ task'.type = 1 /\ task'.types = Len(portQue[p])
      BY <1>5, <2>3
    <3> HIDE DEF p
    <3> QED BY <1>1, <1>3, <1>6, <1>7, <2>3, <3>1, <3>2, <3>3
  <2> QED BY <2>1, <2>2, <2>3 DEF TaskPlace
<1>9. AnswersCounted'
  <2>1. ASSUME NEW q \in Ports PROVE Left(q)' = Left(q)
    <3>1. portQue[q] \in Seq(Types) /\ Left(q) = portQue[q]
      BY <1>1, <1>2 DEF Types_, Left
    <3>2. Len(portQue[q]) \in Nat
      BY <3>1, LenProperties
    <3>3. SubSeq(portQue[q], 1, Len(portQue[q])) = portQue[q]
      BY <3>1, <3>2, StretchMoves
    <3>4. CASE task'.step = "types" /\ port_[Index] = q
      <4>1. task'.type = 1
        BY <1>5, <3>4
      <4>2. Left(q)' = SubSeq(portQue'[q], task'.type, Len(portQue'[q]))
        BY <1>6, <1>7, <3>4 DEF Left
      <4> QED BY <1>1, <3>1, <3>3, <4>1, <4>2
    <3>5. CASE ~(task'.step = "types" /\ port_[Index] = q)
      <4>1. Left(q)' = portQue'[q]
        BY <1>6, <1>7, <3>5 DEF Left
      <4> QED BY <1>1, <3>1, <4>1
    <3> QED BY <3>4, <3>5
  <2> QED BY <1>1, <1>6, <2>1, LeftAsItWas
<1>10. Announced'
  <2>1. que # << >> => TaskEmpties' \/ task'.step = "undefined"
    BY <1>5 DEF TaskEmpties
  <2>2. ~raced => \A q \in Ports :
          type_[q] = "ATA" /\ InPlace(q) /\ portQue[q] # << >> => q \in ToSet(que)
    BY <1>6 DEF Announced, AhciInv
  <2>3. ~raced => task.ports = Len(que) /\ \A j \in 1 .. task.port - 1 : Done(j)
    BY <1>2 DEF Announced
  <2>4. \A j : Done(j)' = Done(j)
    BY <1>1, <1>6 DEF Done
  <2>5. ASSUME ~raced, TaskEmpties', NEW j \in 1 .. task'.port - 1
        PROVE  Done(j)
    <3>1. CASE j \in 1 .. task.port - 1
      BY <2>3, <2>5, <3>1
    <3>2. CASE j \notin 1 .. task.port - 1
      <4>1. task'.port = task.port + 1 /\ Index \in DOMAIN port_ /\ type_[p] # "ATA" /\ j = task.port
        <5>1. task'.step \in {"ports", "types"}
          BY <2>5 DEF TaskEmpties
        <5>2. task'.port = task.port \/ (task'.port = task.port + 1 /\ Index \in DOMAIN port_ /\ type_[p] # "ATA")
          BY <1>5, <5>1
        <5>3. task.port \in Nat /\ j \in 1 .. task'.port - 1
          BY <1>3, <2>5
        <5> HIDE DEF p
        <5> QED BY ONLY <3>2, <5>2, <5>3, SMT
      <4>2. InPlace(que[j]) => p = que[j]
        BY <4>1 DEF InPlace, Index
      <4> QED BY <4>1, <4>2 DEF Done
    <3> QED BY <3>1, <3>2
  <2>6. ~raced' /\ TaskEmpties' =>
          /\ ~HandlerRuns' /\ task'.ports = Len(que')
          /\ \A j \in 1 .. task'.port - 1 : Done(j)'
    <3>1. TaskEmpties' => task'.ports = task.ports
      BY <1>5 DEF TaskEmpties
    <3> QED BY <1>1, <1>6, <2>3, <2>4, <2>5, <3>1
  <2>7. ~raced' => \A q \in Ports' :
          type_'[q] = "ATA" /\ InPlace(q)' /\ portQue'[q] # << >> => q \in ToSet(que')
    BY <1>1, <1>6, <2>2
  <2> QED BY <1>1, <2>1, <2>6, <2>7 DEF Announced
<1> QED BY <1>6, <1>8, <1>9, <1>10 DEF AhciInv

\* The task goes through the next type of a port's queue.
LEMMA HandleTypeKeeps ==
  ASSUME AhciInv, HandleType
  PROVE  AhciInv'
<1> DEFINE p == port_[Index]
           t == task.type
           done == portQue[p][t] = "DHRS"
<1>1. /\ ~HandlerRuns /\ task.step = "types" /\ task.type <= task.types
      /\ IF done THEN /\ commands' = [commands EXCEPT ![p] = @ - 1]
                      /\ dev_info' = [dev_info EXCEPT ![p] = dev_info_temp]
                 ELSE UNCHANGED <<commands, dev_info>>
      /\ task' = [task EXCEPT !.type = @ + 1]
      /\ UNCHANGED <<que, portQue, msgs>> /\ TaskUnchanged
  BY DEF HandleType, queues
<1>2. /\ Types_ /\ TaskPlace /\ Announced /\ TaskEmpties
      /\ task \in [step : TaskSteps, port : Nat, ports : Nat, type : Nat, types : Nat]
  BY <1>1 DEF AhciInv, Types_, TaskEmpties
<1>3. /\ Index \in DOMAIN port_ /\ p \in Ports /\ portQue[p] \in Seq(Types)
      /\ Len(portQue[p]) \in Nat
  <2>1. Index \in DOMAIN port_ /\ p \in Ports
    BY <1>1, <1>2, PortsFacts DEF Types_, TaskPlace
  <2>2. portQue[p] \in Seq(Types)
    BY <1>2, <2>1 DEF Types_
  <2> QED BY <2>1, <2>2, LenProperties
<1>4. /\ t \in Nat /\ t >= 1 /\ task.types \in Nat /\ t <= task.types
      /\ task.types <= Len(portQue[p]) /\ t <= Len(portQue[p])
  <2>1. /\ t \in Nat /\ t >= 1 /\ task.types \in Nat /\ t <= task.types
        /\ task.types <= Len(portQue[p])
    BY <1>1, <1>2 DEF TaskPlace
  <2> QED BY <1>3, <2>1
<1>5. /\ task' \in [step : TaskSteps, port : Nat, ports : Nat, type : Nat, types : Nat]
      /\ task'.step = "types" /\ task'.port = task.port /\ task'.ports = task.ports
      /\ task'.type = t + 1 /\ task'.types = task.types
  BY <1>1, <1>2, <1>4
<1> DEFINE rest == SubSeq(portQue[p], t + 1, Len(portQue[p]))
<1>6. /\ Left(p) \in Seq(Types) /\ Left(p) # << >> /\ Head(Left(p)) = portQue[p][t]
      /\ Tail(Left(p)) = rest
  <2>1. Left(p) = SubSeq(portQue[p], t, Len(portQue[p]))
    BY <1>1 DEF Left
  <2>2. t \in Nat /\ 1 <= t /\ t <= Len(portQue[p]) + 1 /\ t <= Len(portQue[p])
    BY <1>3, <1>4
  <2> DEFINE s == portQue[p]
  <2>3. s \in Seq(Types) /\ t \in Nat /\ 1 <= t /\ t <= Len(s) + 1 /\ t <= Len(s)
    BY <1>3, <2>2
  <2> HIDE DEF s, t
  <2>4. /\ SubSeq(s, t, Len(s)) \in Seq(Types) /\ SubSeq(s, t, Len(s)) # << >>
        /\ Head(SubSeq(s, t, Len(s))) = s[t]
        /\ Tail(SubSeq(s, t, Len(s))) = SubSeq(s, t + 1, Len(s))
    BY <2>3, StretchMoves
  <2> QED BY <2>1, <2>4 DEF s
<1>7. /\ CountIn(rest, {"DHRS"}) \in Nat
      /\ CountIn(Left(p), {"DHRS"}) = IF done THEN CountIn(rest, {"DHRS"}) + 1
                                              ELSE CountIn(rest, {"DHRS"})
  <2> HIDE DEF rest, p, t
  <2>1. /\ CountIn(rest, {"DHRS"}) \in Nat
        /\ CountIn(Left(p), {"DHRS"}) = IF Head(Left(p)) \in {"DHRS"} THEN CountIn(rest, {"DHRS"}) + 1
                                                           ELSE CountIn(rest, {"DHRS"})
    BY <1>6, CountTail
  <2> QED BY <1>6, <2>1
<1>8. CountIn(Left(p), {"DHRS"}) <= commands[p] /\ commands[p] \in Nat
  <2>1. /\ CountIn(Left(p), {"DHRS"}) \in Nat /\ Answering(p) \in Nat /\ commands[p] \in Nat
        /\ CountIn(Left(p), {"DHRS"}) <= Answering(p)
    <3> HIDE DEF p
    <3> QED BY <1>2, <1>3, AnsweringType
  <2>2. Answering(p) <= commands[p]
    BY <1>3 DEF AhciInv, AnswersCounted
  <2> HIDE DEF p
  <2> QED BY <2>1, <2>2
<1>9. /\ commands' \in [Ports -> Nat] /\ \A q \in Ports : q # p => commands'[q] = commands[q]
      /\ commands'[p] = IF done THEN commands[p] - 1 ELSE commands[p]
  <2>1. commands \in [Ports -> Nat]
    BY <1>2 DEF Types_
  <2>2. done => commands[p] - 1 \in Nat
    <3> HIDE DEF p, t, rest, done
    <3> QED BY <1>7, <1>8
  <2> HIDE DEF done, p
  <2>3. CASE done
    <3>1. commands' = [commands EXCEPT ![p] = @ - 1]
      BY <1>1, <2>3
    <3> QED BY <1>3, <2>1, <2>2, <2>3, <3>1
  <2>4. CASE ~done
    BY <1>1, <2>1, <2>4
  <2> QED BY <2>3, <2>4
<1>10. dev_info' \in [Ports -> Ports \cup {Nobody}]
  <2>1. dev_info \in [Ports -> Ports \cup {Nobody}] /\ dev_info_temp \in Ports \cup {Nobody}
    BY <1>2 DEF Types_
  <2> HIDE DEF done, p
  <2>2. dev_info' = dev_info \/ dev_info' = [dev_info EXCEPT ![p] = dev_info_temp]
    BY <1>1
  <2> QED BY <2>1, <2>2
<1>11. /\ Types_' /\ Quiet' /\ Programmed' /\ Present'
       /\ Ports' = Ports /\ port_' = port_ /\ ~HandlerRuns'
       /\ \A q \in Ports : ~Seen(q) /\ ~Seen(q)' /\ ~Queueing(q) /\ ~Queueing(q)'
       /\ UNCHANGED <<todo, reg, isr, type_, raced>>
       /\ \A q : InPlace(q)' = InPlace(q)
  <2>1. /\ que' \in Seq(Ports) /\ portQue' \in [Ports -> Seq(Types)] /\ msgs' \in Nat
    BY <1>1, <1>2 DEF Types_
  <2>2. task'.step \in {"loop", "ports", "types", "undefined"} /\ task.step \in {"loop", "ports", "types"}
    BY <1>1, <1>5
  <2>3. \A q \in Ports : commands'[q] <= commands[q]
    <3> SUFFICES ASSUME NEW q \in Ports PROVE commands'[q] <= commands[q]
      OBVIOUS
    <3>1. commands[q] \in Nat
      BY <1>2 DEF Types_
    <3>2. commands'[q] = commands[q] \/ commands'[q] = commands[q] - 1
      <4> HIDE DEF done, p
      <4> QED BY ONLY <1>9
    <3> QED BY ONLY <3>1, <3>2, SMT
  <2> QED BY <1>1, <1>5, <1>9, <1>10, <2>1, <2>2, <2>3, TaskFrame
<1>12. Index' = Index
  BY <1>1, <1>5 DEF Index
<1>13. TaskPlace'
  <2>1. /\ task.port >= 1 /\ task.ports <= Len(que) /\ task.port <= task.ports + 1
        /\ task.port <= task.ports /\ type_[p] = "ATA"
    BY <1>1, <1>2 DEF TaskPlace
  <2>2. "types" \notin EachPort
    BY DEF EachPort
  <2>3. port_'[Index'] = p /\ Index' \in DOMAIN port_' /\ type_' = type_ /\ portQue' = portQue
    BY <1>1, <1>3, <1>11, <1>12
  <2>4. task'.type >= 1 /\ task'.type <= task'.types + 1
    BY <1>4, <1>5
  <2> HIDE DEF p
  <2> QED BY <1>1, <1>4, <1>5, <2>1, <2>2, <2>3, <2>4 DEF TaskPlace, TaskEmpties
<1>14. AnswersCounted'
  <2> SUFFICES ASSUME NEW q \in Ports PROVE Answering(q)' <= commands'[q]
    BY <1>11 DEF AnswersCounted
  <2>1. CASE q = p
    <3>1. Left(q)' = rest
      BY <1>1, <1>5, <1>11, <1>12, <2>1 DEF Left
    <3>2. CountIn(Left(q), {"DHRS"})' = CountIn(rest, {"DHRS"})
      <4> HIDE DEF rest
      <4>1. Positions(Left(q), {"DHRS"})' = Positions(rest, {"DHRS"})
        BY <3>1 DEF Positions
      <4> QED BY <4>1 DEF CountIn
    <3> DEFINE n == CountIn(rest, {"DHRS"})
    <3> HIDE DEF p, t, rest, done, n
    <3>3. CountIn(Left(q), {"DHRS"})' = n
      BY <3>2 DEF n
    <3>4. n \in Nat /\ CountIn(Left(q), {"DHRS"}) = IF done THEN n + 1 ELSE n
      BY <1>7, <2>1 DEF n
    <3>5. commands'[q] = IF done THEN commands[q] - 1 ELSE commands[q]
      BY <1>9, <2>1
    <3>6. commands[q] \in Nat /\ commands'[q] \in Nat
      BY <1>8, <1>9, <2>1
    <3>7. n + commands[q] <= CountIn(Left(q), {"DHRS"}) + commands'[q]
      BY <3>4, <3>5, <3>6
    <3>8. /\ CountIn(Left(q), {"DHRS"})' \in Nat
          /\ CountIn(Left(q), {"DHRS"})' + commands[q] <= CountIn(Left(q), {"DHRS"}) + commands'[q]
      BY <3>3, <3>4, <3>7
    <3> QED BY <1>11, <3>6, <3>8, AnswersTaken
  <2>2. CASE q # p
    <3>1. Left(q)' = Left(q)
      BY <1>1, <1>5, <1>11, <1>12, <2>2 DEF Left
    <3>2. CountIn(Left(q), {"DHRS"})' = CountIn(Left(q), {"DHRS"})
      BY <3>1 DEF CountIn, Positions
    <3>3. CountIn(Left(q), {"DHRS"}) \in Nat /\ commands[q] \in Nat
      BY <1>2, AnsweringType
    <3>4. commands'[q] = commands[q]
      BY <1>9, <2>2
    <3>5. /\ CountIn(Left(q), {"DHRS"})' \in Nat /\ commands'[q] \in Nat
          /\ CountIn(Left(q), {"DHRS"})' + commands[q] <= CountIn(Left(q), {"DHRS"}) + commands'[q]
      BY <3>2, <3>3, <3>4
    <3> QED BY <1>11, <3>5, AnswersTaken
  <2> QED BY <2>1, <2>2
<1>15. Announced'
  <2>1. TaskEmpties'
    BY <1>5 DEF TaskEmpties
  <2>2. ~raced => \A q \in Ports :
          type_[q] = "ATA" /\ InPlace(q) /\ portQue[q] # << >> => q \in ToSet(que)
    BY <1>2, <1>11 DEF Announced
  <2>3. ~raced => task.ports = Len(que) /\ \A j \in 1 .. task.port - 1 : Done(j)
    BY <1>2 DEF Announced
  <2>4. \A j : Done(j)' = Done(j)
    BY <1>1, <1>11 DEF Done
  <2>5. ~raced' /\ TaskEmpties' =>
          /\ ~HandlerRuns' /\ task'.ports = Len(que')
          /\ \A j \in 1 .. task'.port - 1 : Done(j)'
    BY <1>1, <1>5, <1>11, <2>3, <2>4
  <2>6. ~raced' => \A q \in Ports' :
          type_'[q] = "ATA" /\ InPlace(q)' /\ portQue'[q] # << >> => q \in ToSet(que')
    BY <1>1, <1>11, <2>2
  <2> QED BY <2>1, <2>5, <2>6 DEF Announced
<1> QED BY <1>11, <1>13, <1>14, <1>15 DEF AhciInv

\* The task has been through the queue of a port, and clears it.
LEMMA ClearPortQueueKeeps ==
  ASSUME AhciInv, ClearPortQueue
  PROVE  AhciInv'
<1> DEFINE p == port_[Index]
<1>1. /\ ~HandlerRuns /\ task.step = "types" /\ portQue' = [portQue EXCEPT ![p] = << >>]
      /\ task' = [task EXCEPT !.step = "ports", !.port = @ + 1]
      /\ UNCHANGED <<que, msgs, commands, dev_info>> /\ TaskUnchanged
  BY DEF ClearPortQueue
<1>2. /\ Types_ /\ TaskPlace /\ Announced /\ TaskEmpties
      /\ task \in [step : TaskSteps, port : Nat, ports : Nat, type : Nat, types : Nat]
  BY <1>1 DEF AhciInv, Types_, TaskEmpties
<1>3. Index \in DOMAIN port_ /\ p \in Ports
  BY <1>1, <1>2, PortsFacts DEF Types_, TaskPlace
<1>4. /\ task' \in [step : TaskSteps, port : Nat, ports : Nat, type : Nat, types : Nat]
      /\ task'.step = "ports" /\ task'.port = task.port + 1 /\ task'.ports = task.ports
      /\ task.port \in Nat /\ task.ports \in Nat
  <2>1. task.port \in Nat /\ task.ports \in Nat
    BY <1>2
  <2>2. task.port + 1 \in Nat
    BY ONLY <2>1, SMT
  <2>3. "ports" \in TaskSteps
    BY DEF TaskSteps
  <2>4. /\ task' = [task EXCEPT !.step = "ports", !.port = task.port + 1]
        /\ task \in [step : TaskSteps, port : Nat, ports : Nat, type : Nat, types : Nat]
    BY <1>1, <1>2
  <2> DEFINE k == task.port + 1
  <2>5. k \in Nat /\ task' = [task EXCEPT !.step = "ports", !.port = k]
    BY <2>2, <2>4
  <2> HIDE DEF k
  <2>6. /\ task' \in [step : TaskSteps, port : Nat, ports : Nat, type : Nat, types : Nat]
        /\ task'.step = "ports" /\ task'.port = k /\ task'.ports = task.ports
    BY ONLY <2>3, <2>4, <2>5
  <2> QED BY <2>1, <2>6 DEF k
<1>5. /\ portQue' \in [Ports -> Seq(Types)] /\ portQue'[p] = << >>
      /\ \A q \in Ports : q # p => portQue'[q] = portQue[q]
  <2>1. portQue \in [Ports -> Seq(Types)] /\ << >> \in Seq(Types)
    BY <1>2 DEF Types_
  <2> HIDE DEF p
  <2> QED BY <1>1, <1>3, <2>1
<1>6. /\ Types_' /\ Quiet' /\ Programmed' /\ Present'
      /\ Ports' = Ports /\ port_' = port_ /\ ~HandlerRuns'
      /\ \A q \in Ports : ~Seen(q) /\ ~Seen(q)' /\ ~Queueing(q) /\ ~Queueing(q)'
      /\ UNCHANGED <<todo, reg, isr, type_, raced>>
      /\ \A q : InPlace(q)' = InPlace(q)
  <2>1. /\ que' \in Seq(Ports) /\ msgs' \in Nat
        /\ commands' \in [Ports -> Nat] /\ \A q \in Ports : commands'[q] <= commands[q]
        /\ dev_info' \in [Ports -> Ports \cup {Nobody}]
    BY <1>1, <1>2 DEF Types_
  <2>2. task'.step \in {"loop", "ports", "types", "undefined"} /\ task.step \in {"loop", "ports", "types"}
    BY <1>1, <1>4
  <2> QED BY <1>1, <1>4, <1>5, <2>1, <2>2, TaskFrame
<1>7. TaskPlace'
  <2>1. "ports" \notin EachPort
    BY DEF EachPort
  <2>2. task.port >= 1 /\ task.ports <= Len(que) /\ task.port <= task.ports
    BY <1>1, <1>2 DEF TaskPlace
  <2> QED BY <1>1, <1>4, <2>1, <2>2 DEF TaskPlace, TaskEmpties
<1>8. AnswersCounted'
  <2> SUFFICES ASSUME NEW q \in Ports PROVE Answering(q)' <= commands'[q]
    BY <1>6 DEF AnswersCounted
  <2>1. Left(q)' = portQue'[q]
    BY <1>4 DEF Left
  <2>2. CountIn(Left(q), {"DHRS"}) \in Nat /\ commands[q] \in Nat /\ commands'[q] = commands[q]
    BY <1>1, <1>2, AnsweringType
  <2>3. CountIn(Left(q), {"DHRS"})' = 0 \/ CountIn(Left(q), {"DHRS"})' = CountIn(Left(q), {"DHRS"})
    <3>1. CASE q = p
      <4>1. Left(q)' = << >>
        BY <1>5, <2>1, <3>1
      <4>2. CountIn(Left(q), {"DHRS"})' = CountIn(<< >>, {"DHRS"})
        BY <4>1 DEF CountIn, Positions
      <4> QED BY <4>2, CountEmpty
    <3>2. CASE q # p
      <4>1. Left(q) = portQue[q] /\ Left(q)' = portQue[q]
        BY <1>5, <2>1, <3>2 DEF Left
      <4> QED BY <4>1 DEF CountIn, Positions
    <3> QED BY <3>1, <3>2
  <2>4. /\ CountIn(Left(q), {"DHRS"})' \in Nat /\ commands'[q] \in Nat
        /\ CountIn(Left(q), {"DHRS"})' + commands[q] <= CountIn(Left(q), {"DHRS"}) + commands'[q]
    BY <2>2, <2>3
  <2> QED BY <1>6, <2>4, AnswersTaken
<1>9. Announced'
  <2>1. TaskEmpties'
    BY <1>4 DEF TaskEmpties
  <2>2. ~raced => \A q \in Ports :
          type_[q] = "ATA" /\ InPlace(q) /\ portQue[q] # << >> => q \in ToSet(que)
    BY <1>2, <1>6 DEF Announced
  <2>3. ~raced => task.ports = Len(que) /\ \A j \in 1 .. task.port - 1 : Done(j)
    BY <1>2 DEF Announced
  <2>4. ASSUME NEW j \in 1 .. task.port, j < task.port => Done(j), que[j] \in Ports
        PROVE  Done(j)'
    <3>1. que' = que /\ type_' = type_ /\ InPlace(que[j])' = InPlace(que[j])
      BY <1>1, <1>6
    <3>2. CASE que[j] = p
      BY <1>5, <3>1, <3>2 DEF Done
    <3>3. CASE que[j] # p /\ j < task.port
      <4>1. portQue'[que[j]] = portQue[que[j]]
        BY <1>5, <2>4, <3>3
      <4> QED BY <2>4, <3>1, <3>3, <4>1 DEF Done
    <3>4. CASE que[j] # p /\ ~(j < task.port)
      <4>1. j = task.port
        BY <1>4, <3>4
      <4>2. ~InPlace(que[j])
        BY <3>4, <4>1 DEF InPlace, Index
      <4> QED BY <3>1, <4>2 DEF Done
    <3> QED BY <3>2, <3>3, <3>4
  <2>5. ~raced' /\ TaskEmpties' =>
          /\ ~HandlerRuns' /\ task'.ports = Len(que')
          /\ \A j \in 1 .. task'.port - 1 : Done(j)'
    <3> SUFFICES ASSUME ~raced' PROVE /\ ~HandlerRuns' /\ task'.ports = Len(que')
                                      /\ \A j \in 1 .. task'.port - 1 : Done(j)'
      OBVIOUS
    <3>1. ~raced /\ task.ports = Len(que) /\ \A j \in 1 .. task.port - 1 : Done(j)
      BY <1>6, <2>3
    <3>2. ASSUME NEW j \in 1 .. task'.port - 1 PROVE Done(j)'
      <4>1. j \in 1 .. task.port
        BY <1>4
      <4>2. j < task.port => Done(j)
        BY <1>4, <3>1, <4>1
      <4>3. que[j] \in Ports
        <5>1. que \in Seq(Ports)
          BY <1>2 DEF Types_
        <5>2. Len(que) \in Nat /\ task.ports <= Len(que) /\ task.port <= task.ports
          BY <1>1, <1>2, <5>1, LenProperties DEF TaskPlace
        <5>3. j \in 1 .. Len(que)
          BY <1>4, <4>1, <5>2
        <5> QED BY <5>1, <5>3
      <4> QED BY <2>4, <4>1, <4>2, <4>3
    <3> QED BY <1>1, <1>4, <1>6, <3>1, <3>2
  <2>6. ~raced' => \A q \in Ports' :
          type_'[q] = "ATA" /\ InPlace(q)' /\ portQue'[q] # << >> => q \in ToSet(que')
    <3>1. \A q \in Ports : portQue'[q] # << >> => portQue[q] # << >>
      BY <1>5
    <3> QED BY <1>1, <1>6, <2>2, <3>1
  <2> QED BY <2>1, <2>5, <2>6 DEF Announced
<1> QED BY <1>6, <1>7, <1>8, <1>9 DEF AhciInv

\* The task has been through the queue of the controller, and clears it.
LEMMA ClearQueueKeeps ==
  ASSUME AhciInv, ClearQueue
  PROVE  AhciInv'
<1>1. /\ ~HandlerRuns /\ task.step = "ports" /\ task.port > task.ports
      /\ que' = << >> /\ task' = Loop
      /\ UNCHANGED <<portQue, msgs, commands, dev_info>> /\ TaskUnchanged
  BY DEF ClearQueue
<1>2. /\ Types_ /\ Announced /\ TaskEmpties
  BY <1>1 DEF AhciInv, TaskEmpties
<1>3. /\ task' \in [step : TaskSteps, port : Nat, ports : Nat, type : Nat, types : Nat]
      /\ task'.step = "loop"
  BY <1>1 DEF Loop, TaskSteps
<1>4. /\ Types_' /\ Quiet' /\ Programmed' /\ Present'
      /\ Ports' = Ports /\ port_' = port_ /\ ~HandlerRuns'
      /\ \A q \in Ports : ~Seen(q) /\ ~Seen(q)' /\ ~Queueing(q) /\ ~Queueing(q)'
      /\ UNCHANGED <<todo, reg, isr, type_, raced>>
      /\ \A q : InPlace(q)' = InPlace(q)
  <2>1. /\ que' \in Seq(Ports) /\ portQue' \in [Ports -> Seq(Types)] /\ msgs' \in Nat
        /\ commands' \in [Ports -> Nat] /\ \A q \in Ports : commands'[q] <= commands[q]
        /\ dev_info' \in [Ports -> Ports \cup {Nobody}]
    BY <1>1, <1>2 DEF Types_
  <2>2. task'.step \in {"loop", "ports", "types", "undefined"} /\ task.step \in {"loop", "ports", "types"}
    BY <1>1, <1>3
  <2> QED BY <1>1, <1>3, <2>1, <2>2, TaskFrame
<1>5. TaskPlace'
  BY <1>3 DEF TaskPlace, EachPort, TaskEmpties
<1>6. AnswersCounted'
  <2>1. \A p \in Ports : Left(p)' = Left(p)
    BY <1>1, <1>3 DEF Left
  <2> QED BY <1>1, <1>4, <2>1, LeftAsItWas
<1>7. Announced'
  <2>1. ~TaskEmpties'
    BY <1>3 DEF TaskEmpties
  <2>2. ASSUME ~raced, NEW q \in Ports, type_[q] = "ATA", InPlace(q), portQue[q] # << >>
        PROVE  FALSE
    <3>1. q \in ToSet(que)
      BY <1>2, <1>4, <2>2 DEF Announced
    <3>2. task.ports = Len(que) /\ \A j \in 1 .. task.port - 1 : Done(j)
      BY <1>2, <2>2 DEF Announced
    <3>3. que \in Seq(Ports) /\ task.port \in Nat /\ task.ports \in Nat
      BY <1>2 DEF Types_
    <3>4. DOMAIN que = 1 .. Len(que) /\ Len(que) \in Nat
      BY <3>3, LenProperties
    <3>5. PICK j \in 1 .. Len(que) : que[j] = q
      BY <3>1, <3>4 DEF ToSet
    <3>6. j \in 1 .. task.port - 1
      BY <1>1, <3>2, <3>3, <3>4, <3>5
    <3> QED BY <2>2, <3>2, <3>5, <3>6 DEF Done
  <2>3. ~raced' => \A q \in Ports' :
          type_'[q] = "ATA" /\ InPlace(q)' /\ portQue'[q] # << >> => q \in ToSet(que')
    BY <1>1, <1>4, <2>2
  <2> QED BY <1>1, <2>1, <2>3 DEF Announced
<1> QED BY <1>4, <1>5, <1>6, <1>7 DEF AhciInv

\* A command has one DHRS in its answer.
LEMMA AnswersFacts == Answers \in Seq(Types) /\ CountIn(Answers, {"DHRS"}) = 1
<1>1. Answers \in Seq(Types) /\ Answers # << >> /\ Head(Answers) = "PSS" /\ Tail(Answers) = <<"DHRS">>
  BY DEF Answers, Types
<1>2. <<"DHRS">> \in Seq(Types) /\ <<"DHRS">> # << >> /\ Head(<<"DHRS">>) = "DHRS" /\ Tail(<<"DHRS">>) = << >>
  BY DEF Types
<1>3. CountIn(<<"DHRS">>, {"DHRS"}) = CountIn(<< >>, {"DHRS"}) + 1
  <2>1. CountIn(<<"DHRS">>, {"DHRS"}) =
          IF Head(<<"DHRS">>) \in {"DHRS"} THEN CountIn(Tail(<<"DHRS">>), {"DHRS"}) + 1
                                          ELSE CountIn(Tail(<<"DHRS">>), {"DHRS"})
    BY <1>2, CountTail
  <2> QED BY <1>2, <2>1
<1>4. CountIn(Answers, {"DHRS"}) = CountIn(<<"DHRS">>, {"DHRS"})
  <2>1. CountIn(Answers, {"DHRS"}) =
          IF Head(Answers) \in {"DHRS"} THEN CountIn(Tail(Answers), {"DHRS"}) + 1
                                        ELSE CountIn(Tail(Answers), {"DHRS"})
    BY <1>1, CountTail
  <2> QED BY <1>1, <2>1
<1>5. CountIn(<< >>, {"DHRS"}) = 0
  BY CountEmpty
<1> QED BY <1>1, <1>3, <1>4, <1>5

\* The task builds the controller of a port, and has the disk say what it is.
LEMMA MakeSATAControllerKeeps ==
  ASSUME AhciInv, MakeSATAController
  PROVE  AhciInv'
<1> DEFINE p == p_
<1>1. /\ ~HandlerRuns /\ task.step = "make" /\ task' = NextOf("make", "loop")
      /\ UNCHANGED <<hba, ghc, is, isr, que, portQue, type_, msgs, dev_info, raced, disturbed>>
  BY DEF MakeSATAController, queues
<1>2. Types_ /\ TaskPlace /\ Quiet /\ Programmed /\ Present /\ Announced
  BY DEF AhciInv
<1>3. Ports' = Ports /\ port_' = port_
  BY <1>1, SameController
<1>4. task.port \in DOMAIN port_ /\ p = port_[task.port] /\ p \in Ports
  <2>1. task.port \in DOMAIN port_
    BY <1>1, <1>2 DEF TaskPlace, EachPort
  <2> QED BY <1>2, <2>1, PortsFacts DEF Types_, p_
<1>5. /\ task' \in [step : TaskSteps, port : Nat, ports : Nat, type : Nat, types : Nat]
      /\ task'.step \in {"make", "loop"}
      /\ task'.step = "make" => task'.port \in DOMAIN port_
  <2>1. "make" \in TaskSteps /\ "loop" \in TaskSteps
    BY DEF TaskSteps
  <2>2. /\ NextOf("make", "loop") \in [step : TaskSteps, port : Nat, ports : Nat, type : Nat, types : Nat]
        /\ \/ NextOf("make", "loop").step = "make" /\ NextOf("make", "loop").port = task.port + 1
              /\ NextOf("make", "loop").port \in DOMAIN port_
           \/ NextOf("make", "loop").step = "loop" /\ NextOf("make", "loop").port = 1
              /\ task.port = Len(port_)
    BY <1>2, <1>4, <2>1, NextPlaces
  <2> QED BY <1>1, <2>2
<1> HIDE DEF p
<1>6. /\ dev_info_temp' \in Ports \cup {Nobody} /\ dirty' \subseteq Ports
      /\ reg' \in [Ports -> PortRegisters] /\ \A q \in Ports : Kept(q)
      /\ \A q \in Ports : reg'[q].PxIS = reg[q].PxIS /\ reg'[q].up = reg[q].up
      /\ \/ UNCHANGED <<commands, todo>>
         \/ /\ type_[p] = "ATA" /\ commands' = [commands EXCEPT ![p] = @ + 1]
            /\ todo' = [todo EXCEPT ![p] = Answers] \/ todo' = [todo EXCEPT ![p] = << >>]
  <2>1. CASE type_[p_] = "ATA"
    <3>1. /\ dev_info_temp' = Nobody
          /\ reg' = [reg EXCEPT ![p_].CI = @ \cup {FindFreeSlot(@, hba.NCS)}]
          /\ commands' = [commands EXCEPT ![p_] = @ + 1]
          /\ dirty' \in {dirty, dirty \cup {p_}}
          /\ todo' \in {[todo EXCEPT ![p_] = a] : a \in {Answers} \cup (IF p_ \in dirty' THEN {<< >>} ELSE {})}
      BY <2>1 DEF MakeSATAController
    <3>2. todo' = [todo EXCEPT ![p_] = Answers] \/ todo' = [todo EXCEPT ![p_] = << >>]
      BY <3>1
    <3>3. dirty' \subseteq Ports
      BY <1>2, <1>4, <3>1 DEF Types_, p
    <3> DEFINE slot == FindFreeSlot(reg[p_].CI, hba.NCS)
    <3>4. slot \in 0 .. 31
      <4>1. hba.NCS \in 0 .. 31
        BY <1>2, ControllersAssumption DEF Types_
      <4> QED BY <4>1, SlotType
    <3>5. reg' = [reg EXCEPT ![p_].CI = @ \cup {slot}]
      BY <3>1, Zenon
    <3>6. reg \in [Ports -> PortRegisters] /\ p_ \in Ports
      BY <1>2, <1>4 DEF Types_, p
    <3> HIDE DEF slot
    <3>7. /\ reg' \in [Ports' -> PortRegisters] /\ \A q \in Ports : Kept(q)
          /\ \A q \in Ports : reg'[q].PxIS = reg[q].PxIS /\ reg'[q].up = reg[q].up
      BY ONLY <1>3, <3>4, <3>5, <3>6, RegCI, Zenon
    <3> QED BY <1>3, <2>1, <3>1, <3>2, <3>3, <3>7 DEF p
  <2>2. CASE type_[p_] # "ATA"
    <3>1. UNCHANGED <<dev_info_temp, reg, commands, dirty, todo>>
      BY <2>2 DEF MakeSATAController
    <3> QED BY <1>2, <3>1 DEF Types_, Kept
  <2> QED BY <2>1, <2>2
<1>7. /\ commands' \in [Ports -> Nat] /\ todo' \in [Ports -> Seq(Types)]
      /\ \A q \in Ports : q # p => commands'[q] = commands[q] /\ todo'[q] = todo[q]
      /\ \/ commands'[p] = commands[p] /\ todo'[p] = todo[p]
         \/ /\ type_[p] = "ATA" /\ commands'[p] = commands[p] + 1
            /\ todo'[p] = Answers \/ todo'[p] = << >>
  <2>1. commands \in [Ports -> Nat] /\ todo \in [Ports -> Seq(Types)]
    BY <1>2 DEF Types_
  <2>2. << >> \in Seq(Types) /\ Answers \in Seq(Types)
    BY AnswersFacts
  <2>3. CASE UNCHANGED <<commands, todo>>
    BY <2>1, <2>3
  <2>4. CASE type_[p] = "ATA" /\ commands' = [commands EXCEPT ![p] = @ + 1]
             /\ (todo' = [todo EXCEPT ![p] = Answers] \/ todo' = [todo EXCEPT ![p] = << >>])
    <3>1. commands' \in [Ports -> Nat] /\ commands'[p] = commands[p] + 1
          /\ \A q \in Ports : q # p => commands'[q] = commands[q]
      BY <1>4, <2>1, <2>4
    <3>2. todo' \in [Ports -> Seq(Types)] /\ (todo'[p] = Answers \/ todo'[p] = << >>)
          /\ \A q \in Ports : q # p => todo'[q] = todo[q]
      BY <1>4, <2>1, <2>2, <2>4
    <3> QED BY <2>4, <3>1, <3>2
  <2> QED BY <1>6, <2>3, <2>4
<1>8. Types_'
  BY <1>1, <1>2, <1>3, <1>5, <1>6, <1>7 DEF Types_
<1>9. TaskPlace'
  BY <1>3, <1>5 DEF TaskPlace, TaskEmpties, EachPort
<1>10. task.step \notin SettingUpSteps /\ task'.step \notin SettingUpSteps
  BY <1>1, <1>5 DEF SettingUpSteps, EachPort
<1>11. Quiet'
  BY <1>1, <1>2, <1>10 DEF Quiet
<1>12. Programmed'
  <2>1. ghc'.AE \/ (hba'.SPM /\ ~hba'.SAM)
    BY <1>1, <1>2 DEF Programmed
  <2>2. ASSUME NEW j \in DOMAIN port_
        PROVE  /\ reg[port_[j]].lists /\ reg[port_[j]].FRE
               /\ reg[port_[j]].ST /\ reg[port_[j]].PxIE
    BY <1>1, <1>2 DEF Programmed, InSecound
  <2>3. \A q \in Ports : /\ reg'[q].ST = reg[q].ST /\ reg'[q].FRE = reg[q].FRE
                         /\ reg'[q].lists = reg[q].lists /\ reg'[q].PxIE = reg[q].PxIE
    BY <1>6 DEF Kept
  <2>4. \A j \in DOMAIN port_ : port_[j] \in Ports
    BY <1>2, PortsFacts DEF Types_
  <2>5. \A j \in DOMAIN port_ : /\ reg'[port_[j]].lists /\ reg'[port_[j]].FRE
                                /\ reg'[port_[j]].ST /\ reg'[port_[j]].PxIE
    BY <2>2, <2>3, <2>4
  <2>6. ASSUME NEW q \in Ports, commands'[q] > 0
        PROVE  reg'[q].ST /\ reg'[q].FRE /\ reg'[q].lists /\ reg'[q].PxIE
    <3>1. CASE q = p
      BY <1>4, <2>5, <3>1
    <3>2. CASE q # p
      <4>1. commands[q] > 0
        BY <1>7, <2>6, <3>2
      <4>2. reg[q].ST /\ reg[q].FRE /\ reg[q].lists /\ reg[q].PxIE
        BY <1>2, <4>1 DEF Programmed
      <4> QED BY <2>3, <4>2
    <3> QED BY <3>1, <3>2
  <2>7. ~disturbed'
    BY <1>1, <1>2 DEF Programmed
  <2>8. task'.step \notin {"start", "reset", "first"}
    BY <1>5
  <2> QED BY ONLY <1>3, <2>1, <2>5, <2>6, <2>7, <2>8 DEF Programmed
<1>13. Present'
  <2> SUFFICES ASSUME NEW q \in Ports
               PROVE  /\ hba.device[q] = "none" => reg'[q].up = FALSE
                      /\ type_[q] \in {"null", hba.device[q]} \ {"none"}
                      /\ todo'[q] # << >> => type_[q] = "ATA"
    BY <1>1, <1>3 DEF Present
  <2>1. /\ hba.device[q] = "none" => reg[q].up = FALSE
        /\ type_[q] \in {"null", hba.device[q]} \ {"none"}
        /\ todo[q] # << >> => type_[q] = "ATA"
    BY <1>2 DEF Present
  <2> QED BY <1>6, <1>7, <2>1
<1>14. AnswersCounted'
  <2> SUFFICES ASSUME NEW q \in Ports PROVE Answering(q)' <= commands'[q]
    BY <1>3 DEF AnswersCounted
  <2> DEFINE a == CountIn(todo[q], {"DHRS"})
             e == CountIn(todo[q], {"DHRS"})'
             b == CountIn(Left(q), {"DHRS"})
             c == IF "DHRS" \in reg[q].PxIS /\ ~Seen(q) THEN 1 ELSE 0
  <2>1. a \in Nat /\ b \in Nat /\ commands[q] \in Nat /\ Answering(q) <= commands[q]
    BY <1>2, AnsweringType DEF AhciInv, AnswersCounted
  <2>2. Answering(q) = a + c + b /\ c \in {0, 1}
    BY DEF Answering
  <2>3. Answering(q)' = e + c + b
    <3>1. Left(q)' = Left(q)
      BY <1>1, <1>5 DEF Left
    <3>2. CountIn(Left(q), {"DHRS"})' = b
      BY <3>1 DEF CountIn, Positions
    <3>3. Seen(q)' = Seen(q) /\ reg'[q].PxIS = reg[q].PxIS
      BY <1>1, <1>3, <1>6 DEF Seen
    <3> QED BY <3>2, <3>3 DEF Answering
  <2>4. \/ e = a /\ commands'[q] = commands[q]
        \/ e \in {0, 1} /\ commands'[q] = commands[q] + 1
    <3>1. CASE todo'[q] = todo[q] /\ commands'[q] = commands[q]
      <4>1. e = a
        BY <3>1 DEF CountIn, Positions
      <4> QED BY <3>1, <4>1
    <3>2. CASE commands'[q] = commands[q] + 1 /\ todo'[q] = Answers
      <4>1. e = CountIn(Answers, {"DHRS"})
        BY <3>2 DEF CountIn, Positions
      <4> QED BY <3>2, <4>1, AnswersFacts
    <3>3. CASE commands'[q] = commands[q] + 1 /\ todo'[q] = << >>
      <4>1. e = CountIn(<< >>, {"DHRS"})
        BY <3>3 DEF CountIn, Positions
      <4> QED BY <3>3, <4>1, CountEmpty
    <3> HIDE DEF a, e
    <3> QED BY <1>7, <3>1, <3>2, <3>3
  <2> HIDE DEF a, b, c, e
  <2> QED BY ONLY <2>1, <2>2, <2>3, <2>4, SMT
<1>15. Announced'
  <2>1. /\ ~TaskEmpties /\ ~TaskEmpties' /\ task.step # "undefined"
        /\ HandlerRuns' = HandlerRuns
    BY <1>1, <1>5 DEF TaskEmpties, HandlerRuns
  <2>2. \A x : InPlace(x)' = InPlace(x) /\ Queueing(x)' = Queueing(x)
    BY <1>1, <1>3 DEF InPlace, Queueing
  <2>3. que' # << >> => msgs' > 0 \/ HandlerRuns'
    BY <1>1, <1>2, <2>1 DEF Announced
  <2>4. ~raced' => \A q \in Ports' :
          type_'[q] = "ATA" /\ InPlace(q)' /\ portQue'[q] # << >> => q \in ToSet(que') \/ Queueing(q)'
    BY <1>1, <1>2, <1>3, <2>2 DEF Announced
  <2> QED BY <2>1, <2>3, <2>4 DEF Announced
<1> QED BY <1>8, <1>9, <1>11, <1>12, <1>13, <1>14, <1>15 DEF AhciInv

----------------------------------------------------------------------------
(* The theorems.                                                           *)

\* Whatever the firmware has left.
LEMMA AhciInitKeeps ==
  ASSUME Init
  PROVE  AhciInv
<1>1. /\ hba \in Controllers
      /\ ghc \in {[HR |-> FALSE, AE |-> ae, IE |-> FALSE] : ae \in {TRUE, hba.SAM}}
      /\ is = {} /\ reg \in FirmwareLeaves
      /\ todo = [p \in Ports |-> << >>] /\ isr = NoHandler
      /\ que = << >> /\ portQue = [p \in Ports |-> << >>]
      /\ type_ = [p \in Ports |-> "null"] /\ msgs = 0 /\ task = At("start")
      /\ commands = [p \in Ports |-> 0]
      /\ dev_info_temp = Nobody /\ dev_info = [p \in Ports |-> Nobody] /\ dirty = {}
      /\ raced = FALSE /\ disturbed = FALSE
  BY DEF Init
<1>2. /\ 1 \in DOMAIN port_ /\ hba.SAM \in BOOLEAN
      /\ \A p \in Ports : hba.device[p] \in {"ATA", "ATAPI", "none"}
  BY <1>1, PortsFacts, ControllersAssumption DEF Ports
<1>3. ghc \in [HR : BOOLEAN, AE : BOOLEAN, IE : BOOLEAN] /\ ~ghc.HR /\ ~ghc.IE
  <2>1. PICK ae \in {TRUE, hba.SAM} : ghc = [HR |-> FALSE, AE |-> ae, IE |-> FALSE]
    BY <1>1
  <2>2. ae \in BOOLEAN
    BY <1>2
  <2> QED BY <2>1, <2>2
<1>4. /\ reg \in [Ports -> PortRegisters]
      /\ \A p \in Ports : reg[p].PxIS = {} /\ (hba.device[p] = "none" => reg[p].up = FALSE)
  <2>1. PICK running \in BOOLEAN :
          reg = [p \in Ports |-> [AfterReset EXCEPT !.ST = running, !.FRE = running,
                                                    !.up = hba.device[p] # "none"]]
    BY <1>1 DEF FirmwareLeaves
  <2>2. ASSUME NEW up \in BOOLEAN
        PROVE  LET r == [AfterReset EXCEPT !.ST = running, !.FRE = running, !.up = up]
               IN  r \in PortRegisters /\ r.PxIS = {} /\ r.up = up
    BY DEF AfterReset, PortRegisters
  <2>3. ASSUME NEW p \in Ports
        PROVE  reg[p] \in PortRegisters /\ reg[p].PxIS = {} /\ (hba.device[p] = "none" => reg[p].up = FALSE)
    <3> DEFINE up == hba.device[p] # "none"
    <3>1. up \in BOOLEAN /\ (hba.device[p] = "none" => up = FALSE)
      OBVIOUS
    <3>2. reg[p] = [AfterReset EXCEPT !.ST = running, !.FRE = running, !.up = up]
      BY <2>1
    <3> HIDE DEF up
    <3> QED BY <2>2, <3>1, <3>2
  <2>4. reg = [p \in Ports |-> reg[p]]
    BY <2>1
  <2> QED BY <2>3, <2>4
<1>5. /\ task \in [step : TaskSteps, port : Nat, ports : Nat, type : Nat, types : Nat]
      /\ task.step = "start"
  BY <1>1 DEF At, Loop, TaskSteps
<1>6. isr \in [step : IsrSteps, port : DOMAIN port_, bit : 1 .. 3] /\ isr.step = "off"
  BY <1>1, <1>2 DEF NoHandler, IsrSteps
<1>7. Types_
  <2>1. todo \in [Ports -> Seq(Types)] /\ portQue \in [Ports -> Seq(Types)] /\ que \in Seq(Ports)
    BY <1>1
  <2>2. /\ type_ \in [Ports -> {"ATA", "ATAPI", "null"}] /\ commands \in [Ports -> Nat]
        /\ dev_info \in [Ports -> Ports \cup {Nobody}]
    BY <1>1
  <2> QED BY <1>1, <1>3, <1>4, <1>5, <1>6, <2>1, <2>2 DEF Types_
<1>8. "start" \in SettingUpSteps /\ "start" \notin EachPort /\ task.step \notin {"ports", "types"}
  BY <1>5 DEF SettingUpSteps, EachPort
<1>9. TaskPlace
  BY <1>5, <1>8 DEF TaskPlace, TaskEmpties
<1>10. \A p \in Ports : portQue[p] = << >> /\ todo[p] = << >> /\ commands[p] = 0 /\ type_[p] = "null"
  BY <1>1
<1>11. Quiet
  BY <1>1, <1>3, <1>5, <1>6, <1>8, <1>10 DEF Quiet
<1>12. Programmed
  <2>1. \A p \in Ports : ~(commands[p] > 0)
    BY <1>10
  <2> QED BY ONLY <1>1, <1>5, <2>1 DEF Programmed
<1>13. Present
  BY <1>4, <1>10 DEF Present
<1>14. AnswersCounted
  <2> SUFFICES ASSUME NEW p \in Ports PROVE Answering(p) <= commands[p]
    BY DEF AnswersCounted
  <2>1. Left(p) = << >> /\ todo[p] = << >> /\ "DHRS" \notin reg[p].PxIS /\ commands[p] = 0
    BY <1>4, <1>8, <1>10 DEF Left
  <2>2. CountIn(Left(p), {"DHRS"}) = 0 /\ CountIn(todo[p], {"DHRS"}) = 0
    BY <2>1, CountEmpty
  <2> QED BY <2>1, <2>2 DEF Answering
<1>15. Announced
  BY <1>1, <1>8, <1>10 DEF Announced, TaskEmpties
<1> QED BY <1>7, <1>9, <1>11, <1>12, <1>13, <1>14, <1>15 DEF AhciInv

\* Every step keeps the invariant.
LEMMA AhciNextKeeps ==
  ASSUME AhciInv, [Next]_vars
  PROVE  AhciInv'
<1>1. CASE Task
  <2>1. CASE EmptyQueues
    BY <2>1, ReceiveKeeps, TakePortKeeps, HandleTypeKeeps, ClearPortQueueKeeps, ClearQueueKeeps
       DEF EmptyQueues
  <2> QED BY <1>1, <2>1, ResetKeeps, ResetDoneKeeps, InitializeFirstKeeps, InitializeSecoundKeeps,
             ComResetKeeps, DetectKeeps, DetectedKeeps, ClearAllKeeps, EnableInterruptsKeeps,
             MakeSATAControllerKeeps DEF Task
<1>2. CASE Enter
  BY <1>2, EnterKeeps
<1>3. CASE Handler
  BY <1>3, LookAtPortKeeps, LookAtBitKeeps, WritePxISKeeps, QueuePortKeeps, LastStepsKeep
     DEF Handler
<1>4. CASE Hardware
  BY <1>4, ResetCompletesKeeps, ConnectsKeeps, ReportKeeps DEF Hardware
<1>5. CASE UNCHANGED vars
  <2>1. /\ UNCHANGED <<hba, ghc, is, reg, todo, isr, que, portQue, type_, msgs, task, commands,
                       dev_info, dev_info_temp, dirty, raced, disturbed>>
        /\ Ports' = Ports /\ port_' = port_
    BY <1>5, SameController DEF vars, hardware, queues, disks
  <2>2. Types_'
    BY <2>1 DEF AhciInv, Types_
  <2>3. TaskPlace' /\ Quiet'
    BY <2>1 DEF AhciInv, TaskPlace, TaskEmpties, Index, Quiet
  <2>4. Programmed'
    BY <2>1, ProgrammedStays DEF AhciInv, Kept
  <2>5. Present'
    BY <2>1 DEF AhciInv, Present
  <2>6. AnswersCounted'
    BY <2>1, AnswersStay, LeftStays DEF Seen
  <2>7. Announced'
    BY <2>1, AnnouncedStays
  <2> QED BY <2>2, <2>3, <2>4, <2>5, <2>6, <2>7 DEF AhciInv
<1> QED BY <1>1, <1>2, <1>3, <1>4, <1>5 DEF Next

\* The inductive invariant of the driver, for every controller: where the task is, how
\* far the ports are programmed, what is on its way and what is announced.
THEOREM AlwaysAhciInv == Spec => []AhciInv
<1>1. Init => AhciInv
  BY AhciInitKeeps
<1>2. AhciInv /\ [Next]_vars => AhciInv'
  BY AhciNextKeeps
<1> QED BY <1>1, <1>2, PTL DEF Spec

\* The types of TypeOK are among those of the invariant.
LEMMA AhciTypes ==
  ASSUME AhciInv
  PROVE  TypeOK
<1>1. task.step \in Range(Steps)
  <2>1. task.step \in TaskSteps
    BY DEF AhciInv, Types_
  <2>2. DOMAIN Steps = 1 .. 14
    BY DEF Steps
  <2>3. /\ Steps[1] = "start" /\ Steps[2] = "reset" /\ Steps[3] = "first"
        /\ Steps[4] = "second" /\ Steps[5] = "comreset" /\ Steps[6] = "detect"
        /\ Steps[7] = "wait port" /\ Steps[8] = "clear" /\ Steps[9] = "wait IS"
        /\ Steps[10] = "make" /\ Steps[11] = "loop" /\ Steps[12] = "ports"
        /\ Steps[13] = "types" /\ Steps[14] = "undefined"
    BY DEF Steps
  <2>4. PICK i \in {1, 2, 3, 4, 5, 6, 7, 8, 9, 10, 11, 12, 13, 14} : Steps[i] = task.step
    BY ONLY <2>1, <2>3 DEF TaskSteps
  <2>5. i \in 1 .. 14
    OBVIOUS
  <2> QED BY <2>2, <2>4, <2>5 DEF Range
<1>2. DOMAIN BitOrder = 1 .. 3
  BY DEF BitOrder
<1>3. isr.step \in IsrSteps /\ isr.port \in DOMAIN port_ /\ isr.bit \in 1 .. 3
  BY DEF AhciInv, Types_
<1> QED BY <1>1, <1>2, <1>3 DEF AhciInv, Types_, TypeOK, IsrSteps

\* InterruptD2H never takes the front of an empty command_que
\* (src/ata/SATAController.cpp).
THEOREM CommandAlwaysWaiting == Spec => []CommandIsWaiting
<1>1. ASSUME AhciInv
      PROVE  CommandIsWaiting
  <2>1. ASSUME NEW p \in Ports PROVE CountIn(Left(p), {"DHRS"}) <= commands[p]
    <3>1. /\ CountIn(Left(p), {"DHRS"}) \in Nat /\ Answering(p) \in Nat /\ commands[p] \in Nat
          /\ CountIn(Left(p), {"DHRS"}) <= Answering(p) /\ Answering(p) <= commands[p]
      BY <1>1, AnsweringType DEF AhciInv, AnswersCounted
    <3> QED BY ONLY <3>1, SMT
  <2> QED BY <1>1, <2>1, AhciTypes DEF CommandIsWaiting
<1> QED BY <1>1, AlwaysAhciInv, PTL

\* What is queued is announced to the task, and a disk with types in its queue is in the
\* queue of the controller, unless there was a race (src/ata/ahci.cpp, src/ata/port.cpp).
THEOREM QueuesAlwaysAgree == Spec => []QueuesAgree
<1>1. ASSUME AhciInv
      PROVE  QueuesAgree
  <2>1. \A p : Queueing(p) => HandlerRuns /\ port_[isr.port] = p
    BY DEF Queueing, HandlerRuns
  <2> QED BY <1>1, <2>1 DEF AhciInv, Announced, QueuesAgree
<1> QED BY <1>1, AlwaysAhciInv, PTL

\* A port is given its lists while it stands still, and a command only when it runs and
\* may interrupt, in AHCI mode but for the one kind of controller (src/ata/ahci.cpp:70).
THEOREM AhciIsAlwaysProgrammed == Spec => []AhciIsProgrammed
<1>1. ASSUME AhciInv
      PROVE  AhciIsProgrammed
  <2>1. Types_ /\ Quiet /\ Programmed
    BY <1>1 DEF AhciInv
  <2>2. ASSUME NEW p \in Ports, commands[p] > 0
        PROVE  task.step \notin SettingUpSteps /\ task.step \notin {"start", "reset"}
    <3>1. commands[p] # 0
      BY <2>2
    <3>2. task.step \notin SettingUpSteps
      BY <2>1, <3>1 DEF Quiet
    <3> QED BY <3>2 DEF SettingUpSteps
  <2>3. ASSUME NEW p \in Ports, commands[p] > 0
        PROVE  /\ reg[p].ST /\ reg[p].FRE /\ reg[p].lists /\ reg[p].PxIE
               /\ ghc.IE \/ isr.step # "off"
               /\ ghc.AE \/ (hba.SPM /\ ~hba.SAM)
    <3>1. reg[p].ST /\ reg[p].FRE /\ reg[p].lists /\ reg[p].PxIE
      BY <2>1, <2>3 DEF Programmed
    <3>2. ghc.IE \/ isr.step # "off"
      BY <2>1, <2>2, <2>3 DEF Quiet
    <3>3. ghc.AE \/ (hba.SPM /\ ~hba.SAM)
      BY <2>1, <2>2, <2>3 DEF Programmed
    <3> QED BY <3>1, <3>2, <3>3
  <2>4. ~disturbed
    BY <2>1 DEF Programmed
  <2> QED BY <2>3, <2>4 DEF AhciIsProgrammed
<1> QED BY <1>1, AlwaysAhciInv, PTL
==============================================================================
