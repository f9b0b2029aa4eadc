------------------------------- MODULE Startup -------------------------------
(* How kernel_main finds its disks: the IDE controllers that initializePCI   *)
(* lists, the drives that IDEDriver and IDEDevice probe on their channels,  *)
(* and the partitions that scanDevice mounts.  Drives answer commands in    *)
(* their own time.  A channel is known by the first of its ports.           *)
EXTENDS PCI, FiniteSets

CONSTANTS
  Machines,  \* [pci: configuration space, drives, floating: status nobody drives]
  Junk       \* what a sector or an identification is when no drive sends it

\* Kinds of drives: "ata", "packet", which refuses IDENTIFY and shows so by
\* its signature, and "other", which refuses it with another signature.
\* Packet devices leave the words for sectors zero.  Controllers do not
\* share ports.
VARIABLES
  machine,
  main,            \* where kernel_main is
  pciDevices,
  nextDevice,      \* i of the loop over them
  todo,            \* channels of the controller still to probe
  driveNo,         \* j: 0 or 1
  phase,           \* of every drive: "idle", "busy", "data" or "aborted"
  cmd,             \* the command last given to a drive
  ideDriver,       \* the controller last constructed, or NULL
  storageDevices,
  at, mbr,         \* the device scanned, its MBR: partitions to look at
  fileSystems,
  late,            \* a packet device outlasted sleep(1) (history)
  mbrFailed        \* a disk did not read its MBR (history)

hardware == <<phase, cmd>>
result   == <<ideDriver, storageDevices, fileSystems>>
history  == <<late, mbrFailed>>
pci      == <<pciDevices, nextDevice>>
startupVars == <<machine, main, pci, todo, driveNo, hardware, at, mbr, result, history>>

NULL == <<>>

-----------------------------------------------------------------------------
(* PCI devices, and the ports of the channels.                             *)

IsIDE(space, dev) == getClass(space, dev) = 1 /\ getSubclass(space, dev) = 1

Default(bar, port) == IF bar = 0 THEN port ELSE bar

\* channels[0] and channels[1] of IDEDriver.
Channels(space, dev) == << Default(getBar(space, dev, 0), 496), Default(getBar(space, dev, 2), 368) >>

-----------------------------------------------------------------------------
(* The drives (external).                                                  *)

Kind(c, j) == IF <<c, j>> \in DOMAIN machine.drives THEN machine.drives[<<c, j>>].kind ELSE "none"

Present(u) == u \in DOMAIN machine.drives

channel == Head(todo)

\* Whom HDDEVSEL has selected.
Selected == <<channel, driveNo>>

\* Device 0 answers for a device 1 that is not there.
Absent == IF driveNo = 1 /\ Kind(channel, 0) # "none" THEN {} ELSE machine.floating

\* The bits of the status register that the driver looks at; {} is 0.
Status == IF ~Present(Selected) THEN Absent
          ELSE CASE phase[Selected] = "idle" -> {"DRDY"} [] phase[Selected] = "busy" -> {"BSY"}
                 [] phase[Selected] = "data" -> {"DRDY", "DRQ"} [] OTHER -> {"DRDY", "ERR"}

Give(c) == IF Present(Selected)
           THEN phase' = [phase EXCEPT ![Selected] = "busy"] /\ cmd' = [cmd EXCEPT ![Selected] = c]
           ELSE UNCHANGED <<phase, cmd>>

Answer(u) ==
  /\ phase[u] = "busy"
  /\ LET k == machine.drives[u].kind IN
     phase' = [phase EXCEPT ![u] = IF \/ cmd[u] = "IDENTIFY" /\ k = "ata"
                                      \/ cmd[u] = "IDENTIFY_PACKET" /\ k = "packet"
                                   THEN "data" ELSE "aborted"]
  /\ UNCHANGED <<machine, main, pci, todo, driveNo, cmd, at, mbr, result, history>>

-----------------------------------------------------------------------------
(* IDEDriver::IDEDriver and IDEDevice::IDEDevice.                          *)

InitializePCI ==
  /\ main = "pci"
  /\ pciDevices' = initializePCI(machine.pci)
  /\ main' = "driver"
  /\ UNCHANGED <<machine, nextDevice, todo, driveNo, hardware, at, mbr, result, history>>

\* One controller after the other, each with two channels.
NewDriver ==
  /\ main = "driver" /\ nextDevice <= Len(pciDevices)
  /\ LET dev == pciDevices[nextDevice] IN
     IF IsIDE(machine.pci, dev)
     THEN main' = "identify" /\ ideDriver' = dev /\ todo' = Channels(machine.pci, dev)
     ELSE UNCHANGED <<main, ideDriver, todo>>
  /\ nextDevice' = nextDevice + 1
  /\ UNCHANGED <<machine, pciDevices, driveNo, hardware, at, mbr, storageDevices, fileSystems, history>>

DriversDone ==
  /\ main = "driver" /\ nextDevice > Len(pciDevices)
  /\ main' = "scan"
  /\ UNCHANGED <<machine, pci, todo, driveNo, hardware, at, mbr, result, history>>

\* The constructor returns.
NextDrive ==
  /\ driveNo' = 1 - driveNo
  /\ todo' = IF driveNo = 0 THEN todo ELSE Tail(todo)
  /\ main' = IF todo' = << >> THEN "driver" ELSE "identify"

\* HDDEVSEL and IDENTIFY; the sleep after each lets the drive get busy.
Identify ==
  /\ main = "identify"
  /\ Give("IDENTIFY")
  /\ main' = "present"
  /\ UNCHANGED <<machine, pci, todo, driveNo, at, mbr, result, history>>

IsPresent ==
  /\ main = "present"
  /\ IF Status = {} THEN NextDrive ELSE main' = "poll" /\ UNCHANGED <<todo, driveNo>>
  /\ UNCHANGED <<machine, pci, hardware, at, mbr, result, history>>

\* Mutant: the loop does not wait for BSY to go.
PollIdentify_Once ==
  /\ main = "poll"
  /\ main' = IF "ERR" \in Status THEN "signature" ELSE "read"
  /\ UNCHANGED <<machine, pci, todo, driveNo, hardware, at, mbr, result, history>>

\* ERR is looked at first: a bus that floats high has both.
PollIdentify ==
  /\ main = "poll"
  /\ \/ "ERR" \in Status /\ main' = "signature"
     \/ Status \cap {"ERR", "BSY"} = {} /\ main' = "read"
  /\ UNCHANGED <<machine, pci, todo, driveNo, hardware, at, mbr, result, history>>

Signature ==
  /\ main = "signature"
  /\ IF Present(Selected) /\ machine.drives[Selected].kind = "packet"
     THEN Give("IDENTIFY_PACKET") /\ main' = "sleep" /\ UNCHANGED <<todo, driveNo>>
     ELSE NextDrive /\ UNCHANGED <<phase, cmd>>
  /\ UNCHANGED <<machine, pci, at, mbr, result, history>>

\* sleep(1), and no look at the status after it.
Sleep ==
  /\ main = "sleep"
  /\ late' = (late \/ phase[Selected] = "busy")
  /\ main' = "read"
  /\ UNCHANGED <<machine, pci, todo, driveNo, hardware, at, mbr, result, mbrFailed>>

\* MAX_LBA_EXT if bit 26 of commandSets says so.
Sectors(iden) == IF iden.lba48 THEN iden.maxLbaExt ELSE iden.maxLba

Register(iden) ==
  storageDevices' = Append(storageDevices,
    [unit |-> Selected, sectors |-> Sectors(iden),
     type |-> IF cmd[Selected] = "IDENTIFY" THEN "IDE_ATA" ELSE "IDE_ATAPI"])

\* readBuffer takes all of the identification, and registerStorageDevice.
ReadIdentification ==
  /\ main = "read"
  /\ IF phase[Selected] = "data"
     THEN phase' = [phase EXCEPT ![Selected] = "idle"] /\ Register(machine.drives[Selected].iden)
     ELSE UNCHANGED phase /\ \E iden \in Junk : Register(iden)
  /\ NextDrive
  /\ UNCHANGED <<machine, pci, cmd, at, mbr, ideDriver, fileSystems, history>>

-----------------------------------------------------------------------------
(* scanDevice, for the devices that have sectors.                          *)

\* Mutant: any device is scanned.
HasSize_Any(d) == TRUE

HasSize(d) == d.sectors # 0

\* readSectors(0, &mbr, 1): of a disk, as IDE does it, and what was on the
\* stack if the disk fails; of a packet device it waits for ideIRQ, which
\* is the handler of no line.
ReadMBR ==
  /\ main = "scan" /\ at <= Len(storageDevices)
  /\ LET d == storageDevices[at] IN
     IF ~HasSize(d) THEN at' = at + 1 /\ UNCHANGED <<main, mbr, mbrFailed>>
     ELSE IF d.type = "IDE_ATAPI" THEN main' = "waitIDEIRQ" /\ UNCHANGED <<at, mbr, mbrFailed>>
     ELSE /\ \/ mbr' = machine.drives[d.unit].mbr /\ UNCHANGED mbrFailed
             \/ mbr' \in {iden.mbr : iden \in Junk} /\ mbrFailed' = TRUE
          /\ main' = "mount" /\ UNCHANGED at
  /\ UNCHANGED <<machine, pci, todo, driveNo, hardware, result, late>>

\* An entry of the MBR: system_id 6 makes a FAT16.
Mount ==
  /\ main = "mount" /\ mbr # << >>
  /\ fileSystems' = IF Head(mbr).id = 6
                    THEN Append(fileSystems, [unit |-> storageDevices[at].unit, lba |-> Head(mbr).lba])
                    ELSE fileSystems
  /\ mbr' = Tail(mbr)
  /\ UNCHANGED <<machine, main, pci, todo, driveNo, hardware, at, ideDriver, storageDevices, history>>

Mounted ==
  /\ main = "mount" /\ mbr = << >>
  /\ main' = "scan" /\ at' = at + 1
  /\ UNCHANGED <<machine, pci, todo, driveNo, hardware, mbr, result, history>>

Finish ==
  /\ main = "scan" /\ at > Len(storageDevices)
  /\ main' = "up"
  /\ UNCHANGED <<machine, pci, todo, driveNo, hardware, at, mbr, result, history>>

-----------------------------------------------------------------------------
(* The machines.                                                           *)

\* The IDE controllers of a machine within the slots that are scanned; a
\* function other than 0 counts in a device that says it has several.
AllControllers(space) ==
  {dev \in DOMAIN space :
     /\ space[dev][11] = 1 /\ space[dev][10] = 1 /\ dev[2] < Slots
     /\ dev[3] = 0 \/ space[<<dev[1], dev[2], 0>>][14] >= 128}

\* The header of a function.
LegalHeader(space, dev) ==
  /\ {10, 11, 14} \subseteq DOMAIN space[dev]
  /\ \A n \in DOMAIN space[dev] : space[dev][n] \in 0..255
  /\ getVendor(space, dev) # 65535

\* Function 0 of a device is there if another is.
WellFormed(space) ==
  /\ DOMAIN space \subseteq (0..(Buses - 1)) \X Nat \X (0..7)
  /\ \A dev \in DOMAIN space : LegalHeader(space, dev) /\ <<dev[1], dev[2], 0>> \in DOMAIN space

OwnPorts(space) ==
  \A d, e \in AllControllers(space), k, l \in 1..2 :
    Channels(space, d)[k] = Channels(space, e)[l] => d = e /\ k = l

Connected(drives) ==
  /\ DOMAIN drives \subseteq Nat \X {0, 1}
  /\ \A u \in DOMAIN drives : /\ drives[u].iden \in [lba48 : BOOLEAN, maxLba : Nat, maxLbaExt : Nat]
                               /\ drives[u].mbr \in Seq([id : Nat, lba : Nat])

\* A channel that nobody drives floats to zeros, or with its lowest bit set.
ASSUME MachineAssumption ==
  \A m \in Machines : /\ WellFormed(m.pci) /\ OwnPorts(m.pci)
                      /\ Connected(m.drives)
                      /\ m.floating = {} \/ "ERR" \in m.floating

-----------------------------------------------------------------------------
StartupInit ==
  /\ machine \in Machines
  /\ main = "pci" /\ pciDevices = << >> /\ nextDevice = 1
  /\ todo = << >> /\ driveNo = 0
  /\ phase = [u \in DOMAIN machine.drives |-> "idle"]
  /\ cmd = [u \in DOMAIN machine.drives |-> "none"]
  /\ at = 1 /\ mbr = << >>
  /\ ideDriver = NULL /\ storageDevices = << >> /\ fileSystems = << >>
  /\ late = FALSE /\ mbrFailed = FALSE

Kernel == \/ InitializePCI \/ NewDriver \/ DriversDone \/ Identify \/ IsPresent \/ PollIdentify \/ Signature \/ Sleep
          \/ ReadIdentification \/ ReadMBR \/ Mount \/ Mounted \/ Finish

Answers == \E u \in DOMAIN phase : Answer(u)

StartupNext == Kernel \/ Answers

\* The CPU executes kernel_main, and a drive answers each command.
StartupSpec ==
  /\ StartupInit /\ [][StartupNext]_startupVars
  /\ WF_startupVars(Kernel) /\ WF_startupVars(Answers)

-----------------------------------------------------------------------------
(* What must hold.                                                         *)

\* The places of a channel, counted over all controllers.
Place(dev, k) == 2 * (8 * (Slots * dev[1] + dev[2]) + dev[3]) + k
Places(c) ==
  {Place(p[1], p[2]) : p \in {q \in AllControllers(machine.pci) \X (1..2) :
                               Channels(machine.pci, q[1])[q[2]] = c}}

Attached == {u \in DOMAIN machine.drives :
               Places(u[1]) # {} /\ machine.drives[u].kind \in {"ata", "packet"}}

\* Every drive is in the list once, in the order of controllers, channels and
\* drives, with the size that it has and the type that decides how it is
\* read: no absent or foreign drive is taken for one, whatever a channel
\* floats to, and none is identified before it has answered.
DevicesFound ==
  /\ {storageDevices[n].unit : n \in 1..Len(storageDevices)} = Attached
  /\ \A n \in 1..Len(storageDevices) :
       LET d == storageDevices[n] IN
       /\ d.sectors = Sectors(machine.drives[d.unit].iden)
       /\ (d.type = "IDE_ATA") <=> (machine.drives[d.unit].kind = "ata")
       /\ \A m \in 1..(n - 1) :
            LET u == storageDevices[m].unit IN
            \A p \in Places(u[1]), q \in Places(d.unit[1]) :
              p < q \/ (p = q /\ u[2] < d.unit[2])

\* The file systems are the partitions of type 6 of the disks, in order.
Partition(u, entry) == IF entry.id = 6 THEN << [unit |-> u, lba |-> entry.lba] >> ELSE << >>

Partitions(d) ==
  LET entries == machine.drives[d.unit].mbr IN
  IF d.type = "IDE_ATA" /\ d.sectors # 0
  THEN FlattenSeq([m \in 1..Len(entries) |-> Partition(d.unit, entries[m])]) ELSE << >>

PartitionsFound ==
  fileSystems = FlattenSeq([n \in 1..Len(storageDevices) |-> Partitions(storageDevices[n])])

Inventory ==
  /\ main \in {"scan", "mount", "up"} /\ ~late => DevicesFound
  /\ main = "up" /\ ~late /\ ~mbrFailed => PartitionsFound

\* The probe leaves every drive at rest, as readSectors needs it: none is
\* busy or has data that nobody has taken.
LeavesQuiet ==
  main \in {"scan", "mount", "up"} /\ ~late =>
    \A u \in Attached : phase[u] = "idle"

\* The kernel gets through all of it: no drive that is absent, slow, foreign
\* or failing holds it up, and no packet device is read, for that would wait
\* for an interrupt that nothing handles.  Only a packet device that outlasts
\* the sleep of the probe could be taken for one with sectors.
ComesUp == <>(main = "up" \/ late)
=============================================================================
