--------------------------------- MODULE IDE ---------------------------------
(* IDEDevice::readSectors and writeSectors (kernel/src/IDE.cpp) against the *)
(* drives of one channel.  The driver programs the task file, polls the    *)
(* status and moves a sector at a time through the data register; the      *)
(* drive works on its own in between, keeps written sectors in a cache     *)
(* until it is told to flush it, and may report an error instead.          *)
(*                                                                         *)
(* The widths of the code are constants: ByteValues is 256, HeadValues 16, *)
(* CountLimit 256, HeadsPerCyl 16, SectorsPerTrack 63.                     *)
EXTENDS Naturals, Sequences

CONSTANTS
  Drives,           \* 0 and 1
  Lbas,             \* sectors that exist
  Start,            \* Start[d]: sectors at which calls for drive d begin
  Lengths,          \* numbers of sectors asked for
  LbaCapable,       \* drives with capabilities & 0x200
  Geometry,         \* Geometry[d]: the heads and the sectors per track of drive d
  Types,            \* what the drives may be: functions to "IDE_ATA" and "IDE_ATAPI"
  ByteValues, HeadValues, CountLimit, HeadsPerCyl, SectorsPerTrack,
  Garbage,          \* what the data register gives while there is no data
  MaxCalls          \* bound on the calls

ASSUME DriveAssumption  == Drives # {} /\ Drives \subseteq Nat /\ LbaCapable \subseteq Drives
ASSUME TypeAssumption   == Types \subseteq [Drives -> {"IDE_ATA", "IDE_ATAPI"}]
ASSUME LbaAssumption    == Lbas \subseteq Nat /\ Start \in [Drives -> SUBSET Lbas]
ASSUME LengthAssumption == Lengths \subseteq Nat \ {0} /\ MaxCalls \in Nat
ASSUME WidthAssumption  ==
  {ByteValues, HeadValues, CountLimit, HeadsPerCyl, SectorsPerTrack} \subseteq Nat \ {0}
ASSUME GeometryAssumption ==
  Geometry \in [Drives -> [heads : Nat \ {0}, sectors : Nat \ {0}]]
ASSUME GarbageAssumption == Garbage \notin Nat \X Nat   \* unlike what writes send

VARIABLES
  pc,       \* where the driver is
  call,     \* the call under way: what was asked for
  chunks,   \* the pieces of at most CountLimit sectors still to do
  moved,    \* i: sectors of the piece that the loop has moved
  dest,     \* the caller's buffer
  type,     \* of each device, since the probe
  drive,    \* the drive that HDDEVSEL selects
  dev,      \* the drives
  media,    \* what each drive would still hold without power
  cache,    \* sectors written, not yet flushed
  before,   \* what each sector held when the call began (history)
  failed,   \* a drive has reported an error since then (history)
  wrapped,  \* a piece of CountLimit sectors has been asked for (history)
  calls     \* calls made so far

driverVars == <<pc, call, chunks, moved, dest>>
otherVars == <<type, before, failed, wrapped, calls>>
vars == <<driverVars, drive, dev, media, cache, otherVars>>

-----------------------------------------------------------------------------
(* Addresses.                                                              *)

Power(b, n) == LET p[k \in 0..n] == IF k = 0 THEN 1 ELSE b * p[k - 1] IN p[n]

Digit(lba, n) == (lba \div Power(ByteValues, n)) % ByteValues

\* Addresses below this one fit the 28 bits of READ SECTORS.
Limit28 == Power(ByteValues, 3) * HeadValues

\* Mutant: the branch for 48 bits is taken one sector late.
TaskFile_OffByOne(d, lba) ==
  IF lba > Limit28
  THEN [mode |-> 2, head |-> 0, io |-> [n \in 0..5 |-> Digit(lba, n)]]
  ELSE [mode |-> 1, head |-> (lba \div Power(ByteValues, 3)) % HeadValues,
        io |-> [n \in 0..5 |-> IF n < 3 THEN Digit(lba, n) ELSE 0]]

\* What the code computes for a sector: mode, head and io[0..5].  sect, cyl
\* and head are bytes.
TaskFile(d, lba) ==
  LET sect == (lba % SectorsPerTrack) + 1
      cyl  == ((lba + 1 - sect) \div (HeadsPerCyl * SectorsPerTrack)) % ByteValues
  IN
  CASE lba >= Limit28 ->
         [mode |-> 2, head |-> 0, io |-> [n \in 0..5 |-> Digit(lba, n)]]
    [] lba < Limit28 /\ d \in LbaCapable ->
         [mode |-> 1, head |-> (lba \div Power(ByteValues, 3)) % HeadValues,
          io |-> [n \in 0..5 |-> IF n < 3 THEN Digit(lba, n) ELSE 0]]
    [] OTHER ->
         [mode |-> 0,
          head |-> ((lba + 1 - sect) % (HeadsPerCyl * SectorsPerTrack))
                     \div SectorsPerTrack,
          io |-> [n \in 0..5 |-> CASE n = 0 -> sect
                                   [] n = 1 -> cyl % ByteValues
                                   [] n = 2 -> (cyl \div ByteValues) % ByteValues
                                   [] OTHER -> 0]]

\* The sector that a drive takes a task file to mean: cylinders are counted
\* by the drive's own geometry.
Address(d, f) ==
  LET byte(n) == f.io[n] * Power(ByteValues, n) IN
  CASE f.mode = 2 -> byte(0) + byte(1) + byte(2) + byte(3) + byte(4) + byte(5)
    [] f.mode = 1 -> byte(0) + byte(1) + byte(2) + f.head * Power(ByteValues, 3)
    [] f.mode = 0 ->
         ((f.io[1] + f.io[2] * ByteValues) * Geometry[d].heads + f.head) * Geometry[d].sectors
           + f.io[0] - 1

\* The geometry that the driver takes every drive to have.
Assumed == [heads |-> HeadsPerCyl, sectors |-> SectorsPerTrack]

\* What 48 bits count; and a drive that is addressed by cylinders has the
\* geometry that the driver assumes, and, for cyl is a byte, calls for it end
\* below ByteValues of them (see hazards).
ASSUME AddressAssumption ==
  /\ Lbas \subseteq 0..(Power(ByteValues, 6) - 1)
  /\ \A d \in Drives \ LbaCapable : \A lba \in Start[d] :
       \/ lba >= Limit28
       \/ Geometry[d] = Assumed /\ lba < ByteValues * (HeadsPerCyl * SectorsPerTrack)

\* A count register of 0 asks the drive for the most it can count.
SectorCount(n, mode) ==
  IF n > 0 THEN n ELSE IF mode = 2 THEN CountLimit * CountLimit ELSE CountLimit

-----------------------------------------------------------------------------
(* The drives (external): the protocol of ATA programmed I/O.              *)

Content(d, l) == IF l \in DOMAIN cache[d] THEN cache[d][l] ELSE media[d][l]

Overwrite(f, l, v) == [k \in DOMAIN f \cup {l} |-> IF k = l THEN v ELSE f[k]]

Quiet == [phase |-> "idle", cmd |-> "none", at |-> 0, left |-> 0, wide |-> FALSE,
          word |-> Garbage]

\* A drive ignores a command while it is in the middle of another.
Accept(d, c) ==
  dev' = IF dev[d].phase = "idle"
         THEN [dev EXCEPT ![d] = [c EXCEPT !.phase = "settling"]]
         ELSE dev

Bsy(d) == dev[d].phase = "busy"

\* BSY is up within 400 ns of the command.
Settle(d) ==
  /\ dev[d].phase = "settling"
  /\ dev' = [dev EXCEPT ![d].phase = "busy"]
  /\ UNCHANGED <<driverVars, drive, media, cache, otherVars>>

\* Does the drive have the sector, within reach of the kind of command?
Reachable(d) == dev[d].at \in Lbas /\ (dev[d].wide \/ dev[d].at < Limit28)

\* The drive is ready to move the next sector.
DataReady(d) ==
  /\ Bsy(d) /\ dev[d].cmd \in {"read", "write"} /\ dev[d].left > 0
  /\ dev[d].word = Garbage
  /\ Reachable(d)
  /\ dev' = [dev EXCEPT ![d].phase = "drq",
                        ![d].word = IF dev[d].cmd = "read"
                                    THEN Content(d, dev[d].at) ELSE Garbage]
  /\ UNCHANGED <<driverVars, drive, media, cache, otherVars>>

\* A sector that the driver has sent goes to the cache.
Store(d) ==
  /\ Bsy(d) /\ dev[d].cmd = "write" /\ dev[d].word # Garbage
  /\ cache' = [cache EXCEPT ![d] = Overwrite(cache[d], dev[d].at, dev[d].word)]
  /\ LET c == dev[d] IN
     dev' = [dev EXCEPT ![d] =
               IF c.left = 1 THEN Quiet
               ELSE [c EXCEPT !.at = c.at + 1, !.left = c.left - 1, !.word = Garbage]]
  /\ UNCHANGED <<driverVars, drive, media, otherVars>>

Flushed(d) ==
  /\ Bsy(d) /\ dev[d].cmd = "flush"
  /\ media' = [media EXCEPT ![d] = [l \in Lbas |-> Content(d, l)]]
  /\ cache' = [cache EXCEPT ![d] = <<>>]
  /\ dev' = [dev EXCEPT ![d] = Quiet]
  /\ UNCHANGED <<driverVars, drive, otherVars>>

\* A packet device is ready to send, and interrupts.
PacketReady(d) ==
  /\ Bsy(d) /\ dev[d].cmd = "packet"
  /\ dev' = [dev EXCEPT ![d].phase = "drq"]
  /\ UNCHANGED <<driverVars, drive, media, cache, otherVars>>

\* ERR or DF instead: the command is over.
Fail(d) ==
  /\ Bsy(d)
  /\ dev' = [dev EXCEPT ![d] = Quiet]
  /\ failed' = TRUE
  /\ UNCHANGED <<driverVars, drive, media, cache, type, before, wrapped, calls>>

-----------------------------------------------------------------------------
(* The driver.                                                             *)

\* The recursion of both functions: whole pieces of CountLimit sectors and
\* the rest, when there are more than CountLimit.
Pieces(n) ==
  IF n <= CountLimit THEN <<[from |-> 0, n |-> n]>>
  ELSE LET whole == n \div CountLimit IN
       [i \in 1..whole |-> [from |-> (i - 1) * CountLimit, n |-> CountLimit]]
         \o IF n % CountLimit = 0 THEN <<>>
            ELSE <<[from |-> whole * CountLimit, n |-> n % CountLimit]>>

Call(op, d, lba, n) ==
  /\ pc = "idle"
  /\ calls < MaxCalls
  /\ call' = [op |-> op, drive |-> d, lba |-> lba, n |-> n]
  /\ chunks' = Pieces(n)
  /\ dest' = [i \in 0..(n - 1) |-> Garbage]
  /\ pc' = "program"
  /\ before' = [e \in Drives |-> [l \in Lbas |-> Content(e, l)]]
  /\ failed' = FALSE /\ wrapped' = (wrapped \/ n >= CountLimit) /\ calls' = calls + 1
  /\ UNCHANGED <<moved, type, drive, dev, media, cache>>

\* sectors = numSectors & 0xFF, a uint8_t.
sectors == Head(chunks).n % CountLimit

\* Once BSY is clear on the drive selected until now: HDDEVSEL, the count,
\* the address and the command.
Program ==
  /\ pc = "program" /\ type[call.drive] = "IDE_ATA"
  /\ ~Bsy(drive)
  /\ drive' = call.drive
  /\ LET f == TaskFile(call.drive, call.lba + Head(chunks).from) IN
     Accept(call.drive, [Quiet EXCEPT !.cmd = call.op, !.at = Address(call.drive, f),
                                      !.left = SectorCount(sectors, f.mode),
                                      !.wide = (f.mode = 2)])
  /\ moved' = 0
  /\ pc' = IF sectors = 0 THEN "flush" ELSE "delay"
  /\ UNCHANGED <<call, chunks, dest, media, cache, otherVars>>

\* The branch for a packet device does not look at BSY.  It then waits for
\* ideIRQ, which no line has for a handler: there is no step out of there.
ReadPacket ==
  /\ pc = "program" /\ call.op = "read" /\ type[call.drive] = "IDE_ATAPI"
  /\ drive' = call.drive
  /\ Accept(call.drive, [Quiet EXCEPT !.cmd = "packet"])
  /\ pc' = "waitIDEIRQ"
  /\ UNCHANGED <<call, chunks, moved, dest, media, cache, otherVars>>

\* The next piece, or the return.
NextPiece == /\ chunks' = Tail(chunks)
             /\ pc' = IF Len(chunks) = 1 THEN "idle" ELSE "program"

\* writeSectors does nothing to a packet device.
WritePacket ==
  /\ pc = "program" /\ call.op = "write" /\ type[call.drive] = "IDE_ATAPI"
  /\ NextPiece
  /\ UNCHANGED <<call, moved, dest, drive, dev, media, cache, otherVars>>

\* Mutant: poll without the four reads of ALTSTATUS.
Delay_Dropped ==
  /\ pc = "delay"
  /\ pc' = "poll"
  /\ UNCHANGED <<call, chunks, moved, dest, drive, dev, media, cache, otherVars>>

\* poll: the four reads of ALTSTATUS last for the 400 ns.
Delay ==
  /\ pc = "delay"
  /\ dev[drive].phase # "settling"
  /\ pc' = "poll"
  /\ UNCHANGED <<call, chunks, moved, dest, drive, dev, media, cache, otherVars>>

\* Mutant: poll waits for DRQ.
Poll_ForDRQ ==
  /\ pc = "poll"
  /\ dev[drive].phase = "drq"
  /\ pc' = "transfer"
  /\ UNCHANGED <<call, chunks, moved, dest, drive, dev, media, cache, otherVars>>

\* poll waits for BSY to go; what it then returns is not looked at.
Poll ==
  /\ pc = "poll"
  /\ ~Bsy(drive)
  /\ pc' = "transfer"
  /\ UNCHANGED <<call, chunks, moved, dest, drive, dev, media, cache, otherVars>>

\* Mutant: the loop ends one sector early, if there is more than one.
AfterSector_Early == /\ moved' = moved + 1
                     /\ pc' = IF moved + 2 >= sectors THEN "flush" ELSE "delay"

AfterSector == /\ moved' = moved + 1
               /\ pc' = IF moved + 1 = sectors THEN "flush" ELSE "delay"

\* rep insw of 256 words.
ReadSector ==
  /\ pc = "transfer" /\ call.op = "read"
  /\ LET d == dev[drive] IN
     /\ dest' = [dest EXCEPT ![Head(chunks).from + moved] =
                   IF d.phase = "drq" THEN d.word ELSE Garbage]
     /\ dev' = [dev EXCEPT ![drive] =
                  IF d.phase # "drq" THEN d
                  ELSE IF d.left = 1 THEN Quiet
                  ELSE [d EXCEPT !.phase = "busy", !.at = @ + 1, !.left = @ - 1,
                                 !.word = Garbage]]
  /\ AfterSector
  /\ UNCHANGED <<call, chunks, drive, media, cache, otherVars>>

\* rep outsw of 256 words; the buffer holds <<number of the call, i>>.
WriteSector ==
  /\ pc = "transfer" /\ call.op = "write"
  /\ dev' = [dev EXCEPT ![drive] =
               IF @.phase # "drq" THEN @
               ELSE [@ EXCEPT !.phase = "busy",
                              !.word = <<calls, Head(chunks).from + moved>>]]
  /\ AfterSector
  /\ UNCHANGED <<call, chunks, dest, drive, media, cache, otherVars>>

\* Mutant: no flush after the last sector.
CacheFlush_Dropped ==
  /\ pc = "flush"
  /\ pc' = "flushDelay"
  /\ UNCHANGED <<call, chunks, moved, dest, drive, dev, media, cache, otherVars>>

\* CACHE_FLUSH, after a read too.  Nothing waits for the drive to be done
\* with the last sector written: if it is not, the command is lost.
CacheFlush ==
  /\ pc = "flush"
  /\ Accept(drive, [Quiet EXCEPT !.cmd = "flush"])
  /\ pc' = "flushDelay"
  /\ UNCHANGED <<call, chunks, moved, dest, drive, media, cache, otherVars>>

FlushDelay ==
  /\ pc = "flushDelay"
  /\ dev[drive].phase # "settling"
  /\ pc' = "flushPoll"
  /\ UNCHANGED <<call, chunks, moved, dest, drive, dev, media, cache, otherVars>>

\* poll(false).
Return ==
  /\ pc = "flushPoll"
  /\ ~Bsy(drive)
  /\ NextPiece
  /\ UNCHANGED <<call, moved, dest, drive, dev, media, cache, otherVars>>

-----------------------------------------------------------------------------

Init ==
  /\ pc = "idle"
  /\ call = [op |-> "none"]
  /\ chunks = <<>> /\ moved = 0 /\ dest = <<>>
  /\ type \in Types
  /\ drive = CHOOSE d \in Drives : TRUE
  /\ dev = [d \in Drives |-> Quiet]
  /\ media = [d \in Drives |-> [l \in Lbas |-> <<"old", d, l>>]]
  /\ cache = [d \in Drives |-> <<>>]
  /\ before = media
  /\ failed = FALSE /\ wrapped = FALSE /\ calls = 0

Driver == Program \/ ReadPacket \/ WritePacket \/ Delay \/ Poll \/ ReadSector \/ WriteSector
          \/ CacheFlush \/ FlushDelay \/ Return

Device(d) == Settle(d) \/ DataReady(d) \/ Store(d) \/ Flushed(d) \/ PacketReady(d) \/ Fail(d)

Next ==
  \/ \E op \in {"read", "write"}, d \in Drives, n \in Lengths :
       \E lba \in Start[d] : Call(op, d, lba, n)
  \/ Driver
  \/ \E d \in Drives : Device(d)

Spec == Init /\ [][Next]_vars

\* The CPU executes the driver, and a drive answers each command, if only
\* with an error.
FairSpec == Spec /\ WF_vars(Driver) /\ \A d \in Drives : WF_vars(Device(d))

-----------------------------------------------------------------------------
(* What must hold.                                                         *)

Asked == call.lba..(call.lba + call.n - 1)

\* Left out below: a piece of CountLimit sectors wraps to a count of 0, so
\* that it moves nothing and leaves its command open; a packet device that is
\* read or written.
Countable == call.op # "none" /\ ~wrapped /\ type[call.drive] = "IDE_ATA"

\* A call that no drive has answered with an error has done what it was
\* asked: the buffer holds the sectors asked for and no sector has changed,
\* or the sectors hold the buffer and no other of either drive has changed.
Exact ==
  pc = "idle" /\ Countable /\ ~failed =>
    /\ call.op = "read" =>
         /\ dest = [i \in 0..(call.n - 1) |-> before[call.drive][call.lba + i]]
         /\ \A d \in Drives, l \in Lbas : Content(d, l) = before[d][l]
    /\ call.op = "write" =>
         \A l \in Asked : Content(call.drive, l) = <<calls, l - call.lba>>

\* The drive is putting the last sector of a write into its cache.
Storing(d) == dev[d].phase = "busy" /\ dev[d].cmd = "write" /\ dev[d].left = 1

\* readSectors and writeSectors send a read or a write only when both drives
\* are done with the last command, and are done with it when they return.
\* Their CACHE_FLUSH may meet a drive that is storing the last sector of the
\* write, and then is lost, but no drive that does anything else.  They move
\* data only when the drive asks for it, if it has not reported an error.
InStep ==
  Countable =>
    /\ pc \in {"idle", "program"} => \A d \in Drives : dev[d] = Quiet
    /\ pc = "flush" => \A d \in Drives : dev[d] = Quiet \/ (d = drive /\ Storing(d))
    /\ pc = "transfer" /\ ~failed => dev[drive].phase = "drq"

\* At no moment of a write, whether the drive fails it or not, has a sector
\* of either drive changed that was not asked for, and a packet device is
\* never written; nor does a read change anything.
Confined ==
  call.op # "none" /\ ~wrapped =>
    \A d \in Drives, l \in Lbas :
      (call.op = "read" \/ d # call.drive \/ l \notin Asked \/ type[d] = "IDE_ATAPI")
        => Content(d, l) = before[d][l]

\* When a read returns, everything written to that drive earlier outlives
\* the power: its flush is not lost, as the one of a write may be.
ReadFlushes ==
  pc = "idle" /\ call.op = "read" /\ Countable /\ ~failed
    => cache[call.drive] = <<>>

\* Every call returns, whatever the number of sectors and the calls before,
\* also when drives answer with errors: no loop on BSY waits for a drive that
\* is not working.  Only the read of a packet device waits for ever.
Returns == pc # "idle" ~> pc \in {"idle", "waitIDEIRQ"}
=============================================================================
