------------------------------ MODULE IDEProofs ------------------------------
(* Driver and drives stay in step, and calls move the sectors asked for and *)
(* no others, whatever the widths of the registers, the number of drives   *)
(* and of calls, and the sectors asked for; that the probe of Startup       *)
(* leaves the drives at rest; at the end, that Startup lists the drives it  *)
(* finds, and mounts their FAT16 partitions, in the order of the machine.   *)
EXTENDS IDE, Startup, Induction, SequenceTheorems

\* The places in the loop over the sectors, and behind it.
Moving   == {"delay", "poll", "transfer"}
Flushing == {"flush", "flushDelay", "flushPoll"}

Fields == {"phase", "cmd", "at", "left", "wide", "word"}

TypeInv ==
  /\ drive \in Drives
  /\ DOMAIN dev = Drives
  /\ \A d \in Drives : DOMAIN dev[d] = Fields
  /\ calls \in Nat /\ failed \in BOOLEAN /\ wrapped \in BOOLEAN
  /\ pc \in {"idle", "program", "waitIDEIRQ"} \cup Moving \cup Flushing
  /\ pc # "idle" => call.drive \in Drives

\* A call of less than CountLimit sectors is one piece.
CallOK ==
  pc # "idle" =>
    /\ call.op \in {"read", "write"}
    /\ call.n \in 1..(CountLimit - 1)
    /\ chunks = <<[from |-> 0, n |-> call.n]>>

\* The driver has sent a sector that the drive has not stored.
Sent(c) == c.cmd = "write" /\ c.phase = "busy" /\ c.word # Garbage

\* Between two sectors, the drive has left to move what the driver has.
MovingOK ==
  LET c == dev[drive] IN
  /\ moved \in 0..(call.n - 1)
  /\ failed => c = Quiet
  /\ ~failed =>
       /\ c.cmd = call.op
       /\ c.phase \in {"settling", "busy", "drq"}
       /\ pc = "poll" => c.phase # "settling"
       /\ pc = "transfer" => c.phase = "drq"
       /\ c.cmd = "write" /\ c.phase # "busy" => c.word = Garbage
       /\ c.left = IF Sent(c) THEN call.n - moved + 1 ELSE call.n - moved

\* Behind the last sector, it is still to store it at most.
FlushingOK ==
  LET c == dev[drive] IN
  \/ c = Quiet
  \/ Sent(c) /\ c.left = 1
  \/ /\ pc # "flush"
     /\ c.cmd = "flush" /\ c.phase \in {"settling", "busy"}
     /\ pc = "flushPoll" => c.phase = "busy"

IInv ==
  /\ TypeInv
  /\ ~wrapped =>
       /\ CallOK
       /\ pc \in {"idle", "program"} => \A d \in Drives : dev[d] = Quiet
       /\ pc = "program" => ~failed
       /\ pc \in Moving \cup Flushing => \A d \in Drives \ {drive} : dev[d] = Quiet
       /\ pc \in Moving => MovingOK
       /\ pc \in Flushing => FlushingOK

-----------------------------------------------------------------------------
LEMMA QuietFields ==
  /\ DOMAIN Quiet = Fields
  /\ Quiet.phase = "idle" /\ Quiet.cmd = "none" /\ Quiet.left = 0
  BY DEF Quiet, Fields

LEMMA InitIInv ==
  ASSUME Init
  PROVE  IInv
  <1>1. TypeInv
    BY DriveAssumption, QuietFields DEF Init, TypeInv
  <1> QED
    BY <1>1 DEF Init, IInv, CallOK, Moving, Flushing

\* A call that does not wrap is counted in one byte.
LEMMA CallStep ==
  ASSUME IInv, NEW op \in {"read", "write"}, NEW d \in Drives, NEW n \in Lengths, NEW lba,
         Call(op, d, lba, n)
  PROVE  IInv'
  <1> USE DEF Moving, Flushing
  <1>1. TypeInv'
    <2>1. /\ UNCHANGED <<drive, dev>> /\ pc' = "program" /\ calls' = calls + 1
          /\ failed' \in BOOLEAN /\ wrapped' \in BOOLEAN
      BY DEF Call
    <2>2. call'.drive = d
      BY DEF Call
    <2> QED
      BY <2>1, <2>2 DEF IInv, TypeInv
  <1>2. ASSUME ~wrapped' PROVE CallOK'
    <2>1. n \in Nat \ {0} /\ CountLimit \in Nat \ {0}
      BY LengthAssumption, WidthAssumption
    <2>2. n < CountLimit
      <3>1. ~(n >= CountLimit)
        BY <1>2 DEF Call, IInv, TypeInv
      <3> QED
        BY <2>1, <3>1
    <2>3. Pieces(n) = <<[from |-> 0, n |-> n]>>
      BY <2>1, <2>2 DEF Pieces
    <2> QED
      BY <2>1, <2>2, <2>3 DEF Call, CallOK
  <1>3. ~wrapped' => ~wrapped /\ UNCHANGED <<dev, drive>> /\ pc = "idle" /\ pc' = "program" /\ ~failed'
    BY DEF Call
  <1> QED
    BY <1>1, <1>2, <1>3 DEF IInv

-----------------------------------------------------------------------------
(* The driver's steps.                                                     *)

\* What a drive takes of a command that it is sent.
LEMMA AcceptQuiet ==
  ASSUME TypeInv, NEW d \in Drives, NEW c, DOMAIN c = Fields, Accept(d, c)
  PROVE  /\ DOMAIN dev' = Drives /\ \A e \in Drives : DOMAIN dev'[e] = Fields
         /\ \A e \in Drives \ {d} : dev'[e] = dev[e]
         /\ dev[d].phase # "idle" => dev'[d] = dev[d]
         /\ dev[d].phase = "idle" =>
              /\ dev'[d].phase = "settling" /\ dev'[d].cmd = c.cmd
              /\ dev'[d].at = c.at /\ dev'[d].left = c.left /\ dev'[d].word = c.word
  BY DEF Accept, TypeInv, Fields

LEMMA ProgramStep ==
  ASSUME IInv, Program
  PROVE  IInv'
  <1> USE DEF Moving, Flushing
  <1> DEFINE f == TaskFile(call.drive, call.lba + Head(chunks).from)
             c == [Quiet EXCEPT !.cmd = call.op, !.at = Address(call.drive, f),
                                !.left = SectorCount(sectors, f.mode), !.wide = (f.mode = 2)]
  <1>1. DOMAIN c = Fields /\ c.cmd = call.op /\ c.left = SectorCount(sectors, f.mode)
        /\ c.word = Garbage
    BY DEF Quiet, Fields
  <1>2. Accept(call.drive, c)
    BY DEF Program
  <1> HIDE DEF c, f
  <1>3. /\ drive' = call.drive /\ moved' = 0
        /\ pc = "program" /\ pc' = IF sectors = 0 THEN "flush" ELSE "delay"
        /\ UNCHANGED <<call, chunks, failed, wrapped, calls>>
    BY DEF Program, otherVars
  <1>4. CASE wrapped
    BY <1>1, <1>2, <1>3, <1>4, AcceptQuiet DEF IInv, TypeInv
  <1>5. CASE ~wrapped
    <2>1. CallOK /\ CallOK' /\ \A d \in Drives : dev[d] = Quiet
      BY <1>3, <1>5 DEF IInv, CallOK
    <2>2. /\ call.drive \in Drives /\ call.n \in 1..(CountLimit - 1) /\ ~failed
          /\ call.op \in {"read", "write"} /\ CountLimit \in Nat \ {0}
      BY <1>3, <1>5, <2>1, WidthAssumption DEF CallOK, IInv, TypeInv
    <2>3. sectors = call.n
      <3>1. Head(chunks).n = call.n
        BY <1>3, <2>1 DEF CallOK
      <3> QED
        BY <2>2, <3>1 DEF sectors
    <2>4. c.left = call.n
      BY <1>1, <2>2, <2>3 DEF SectorCount
    <2>5. /\ DOMAIN dev' = Drives /\ \A e \in Drives : DOMAIN dev'[e] = Fields
          /\ \A e \in Drives \ {call.drive} : dev'[e] = Quiet
          /\ dev'[call.drive].phase = "settling" /\ dev'[call.drive].cmd = call.op
          /\ dev'[call.drive].left = call.n /\ dev'[call.drive].word = Garbage
      BY <1>1, <1>2, <2>1, <2>2, <2>4, AcceptQuiet, QuietFields DEF IInv
    <2>6. TypeInv'
      BY <1>3, <2>2, <2>5 DEF IInv, TypeInv
    <2>7. pc' = "delay"
      BY <1>3, <2>2, <2>3
    <2>8. MovingOK'
      BY <1>3, <2>2, <2>5, <2>7 DEF MovingOK, Sent
    <2> QED
      BY <1>3, <2>1, <2>2, <2>5, <2>6, <2>7, <2>8 DEF IInv
  <1> QED
    BY <1>4, <1>5
\* Packet devices: reading leaves for a place that nothing leaves, writing
\* does not touch the device.
LEMMA PacketStep ==
  ASSUME IInv, ReadPacket \/ WritePacket
  PROVE  IInv'
  <1> USE DEF Moving, Flushing
  <1>1. CASE ReadPacket
    <2> DEFINE c == [Quiet EXCEPT !.cmd = "packet"]
    <2>1. DOMAIN c = Fields
      BY DEF Quiet, Fields
    <2>2. Accept(call.drive, c)
      BY <1>1 DEF ReadPacket
    <2> HIDE DEF c
    <2>3. /\ drive' = call.drive /\ pc = "program" /\ pc' = "waitIDEIRQ"
          /\ UNCHANGED <<call, chunks, failed, wrapped, calls>>
      BY <1>1 DEF ReadPacket, otherVars
    <2>4. TypeInv'
      BY <2>1, <2>2, <2>3, AcceptQuiet DEF IInv, TypeInv
    <2> QED
      BY <2>3, <2>4 DEF IInv, CallOK
  <1>2. CASE WritePacket
    <2>1. /\ UNCHANGED <<call, drive, dev, failed, wrapped, calls>>
          /\ pc = "program" /\ chunks' = Tail(chunks)
          /\ pc' = IF Len(chunks) = 1 THEN "idle" ELSE "program"
      BY <1>2 DEF WritePacket, NextPiece, otherVars
    <2>2. TypeInv'
      BY <2>1 DEF IInv, TypeInv
    <2>3. ~wrapped => Len(chunks) = 1
      BY <2>1 DEF IInv, CallOK
    <2> QED
      BY <2>1, <2>2, <2>3 DEF IInv, CallOK
  <1> QED
    BY <1>1, <1>2

\* poll has waited for the 400 ns, and then for BSY to go: between sectors
\* nothing but the drive's request for data can have made it go.
LEMMA WaitStep ==
  ASSUME IInv, Delay \/ Poll \/ FlushDelay
  PROVE  IInv'
  <1> USE DEF Moving, Flushing
  <1>1. /\ UNCHANGED <<call, chunks, moved, drive, dev, failed, wrapped, calls>>
        /\ \/ pc = "delay" /\ pc' = "poll" /\ dev[drive].phase # "settling"
           \/ pc = "poll" /\ pc' = "transfer" /\ dev[drive].phase # "busy"
           \/ pc = "flushDelay" /\ pc' = "flushPoll" /\ dev[drive].phase # "settling"
    BY DEF Delay, Poll, FlushDelay, Bsy, otherVars
  <1>2. TypeInv' /\ (~wrapped' => CallOK')
    BY <1>1 DEF IInv, TypeInv, CallOK
  <1>3. ~wrapped /\ pc \in Moving => MovingOK'
    BY <1>1 DEF IInv, MovingOK, Sent
  <1>4. ~wrapped /\ pc \in Flushing => FlushingOK'
    BY <1>1 DEF IInv, FlushingOK, Sent
  <1> QED
    BY <1>1, <1>2, <1>3, <1>4 DEF IInv

\* A sector read: the drive goes on to the next, or is done with the last.
LEMMA ReadSectorStep ==
  ASSUME IInv, ReadSector
  PROVE  IInv'
  <1> USE DEF Moving, Flushing
  <1> DEFINE c == dev[drive]
             e == IF c.phase # "drq" THEN c
                  ELSE IF c.left = 1 THEN Quiet
                  ELSE [c EXCEPT !.phase = "busy", !.at = @ + 1, !.left = @ - 1, !.word = Garbage]
  <1>1. /\ UNCHANGED <<call, chunks, drive, failed, wrapped, calls>>
        /\ pc = "transfer" /\ call.op = "read"
        /\ moved' = moved + 1 /\ pc' = IF moved + 1 = sectors THEN "flush" ELSE "delay"
    BY DEF ReadSector, AfterSector, otherVars
  <1>2. dev' = [dev EXCEPT ![drive] = e]
    BY DEF ReadSector
  <1>3. DOMAIN e = Fields
    BY QuietFields DEF IInv, TypeInv, Fields
  <1>4. TypeInv'
    BY <1>1, <1>2, <1>3 DEF IInv, TypeInv
  <1>5. CASE ~wrapped
    <2>1. MovingOK /\ CallOK /\ CallOK' /\ \A d \in Drives \ {drive} : dev[d] = Quiet
      BY <1>1, <1>5 DEF IInv, CallOK
    <2>2. call.n \in 1..(CountLimit - 1) /\ CountLimit \in Nat /\ Head(chunks).n = call.n
      BY <1>1, <2>1, WidthAssumption DEF CallOK
    <2>3. sectors = call.n /\ moved \in 0..(call.n - 1) /\ failed \in BOOLEAN
      BY <2>1, <2>2 DEF sectors, MovingOK, IInv, TypeInv
    <2>4. dev'[drive] = e /\ \A d \in Drives \ {drive} : dev'[d] = Quiet
      BY <1>2, <2>1 DEF IInv, TypeInv
    <2>5. ~failed => c.cmd = "read" /\ c.phase = "drq" /\ c.left = call.n - moved
      BY <1>1, <2>1 DEF MovingOK, Sent
    <2>6. failed => e = Quiet
      BY <2>1, QuietFields DEF MovingOK
    <2>7. ~failed /\ moved + 1 = call.n => e = Quiet
      BY <2>2, <2>3, <2>5
    <2>8. ~failed /\ moved + 1 # call.n =>
            e.cmd = "read" /\ e.phase = "busy" /\ e.left = call.n - (moved + 1)
      BY <2>2, <2>3, <2>5 DEF IInv, TypeInv, Fields
    <2> HIDE DEF e
    <2>9. pc' = "flush" => FlushingOK'
      BY <1>1, <2>3, <2>4, <2>6, <2>7 DEF FlushingOK
    <2>10. pc' = "delay" => MovingOK'
      BY <1>1, <2>2, <2>3, <2>4, <2>6, <2>8 DEF MovingOK, Sent
    <2> QED
      BY <1>1, <1>4, <2>1, <2>4, <2>9, <2>10 DEF IInv
  <1> QED
    BY <1>1, <1>4, <1>5 DEF IInv
\* A sector sent: the drive is busy with it, the last one included.
LEMMA WriteSectorStep ==
  ASSUME IInv, WriteSector
  PROVE  IInv'
  <1> USE DEF Moving, Flushing
  <1> DEFINE c == dev[drive]
             w == <<calls, Head(chunks).from + moved>>
             e == IF c.phase # "drq" THEN c
                  ELSE [c EXCEPT !.phase = "busy", !.word = w]
  <1>1. /\ UNCHANGED <<call, chunks, drive, failed, wrapped, calls>>
        /\ pc = "transfer" /\ call.op = "write"
        /\ moved' = moved + 1 /\ pc' = IF moved + 1 = sectors THEN "flush" ELSE "delay"
    BY DEF WriteSector, AfterSector, otherVars
  <1>2. dev' = [dev EXCEPT ![drive] = e]
    BY DEF WriteSector
  <1>3. DOMAIN e = Fields
    BY DEF IInv, TypeInv, Fields
  <1>4. TypeInv'
    BY <1>1, <1>2, <1>3 DEF IInv, TypeInv
  <1>5. CASE ~wrapped
    <2>1. MovingOK /\ CallOK /\ CallOK' /\ \A d \in Drives \ {drive} : dev[d] = Quiet
      BY <1>1, <1>5 DEF IInv, CallOK
    <2>2. /\ call.n \in 1..(CountLimit - 1) /\ CountLimit \in Nat
          /\ Head(chunks).n = call.n /\ Head(chunks).from = 0
      BY <1>1, <2>1, WidthAssumption DEF CallOK
    <2>3. sectors = call.n /\ moved \in 0..(call.n - 1) /\ failed \in BOOLEAN
      BY <2>1, <2>2 DEF sectors, MovingOK, IInv, TypeInv
    <2>4. dev'[drive] = e /\ \A d \in Drives \ {drive} : dev'[d] = Quiet
      BY <1>2, <2>1 DEF IInv, TypeInv
    <2>5. ~failed => c.cmd = "write" /\ c.phase = "drq" /\ c.left = call.n - moved
      BY <1>1, <2>1 DEF MovingOK, Sent
    <2>6. failed => e = Quiet
      BY <2>1, QuietFields DEF MovingOK
    <2>7. w # Garbage
      <3>1. calls \in Nat /\ Head(chunks).from + moved \in Nat
        BY <2>2, <2>3 DEF IInv, TypeInv
      <3> QED
        BY <3>1, GarbageAssumption
    <2> HIDE DEF w
    <2>8. ~failed => e.cmd = "write" /\ e.phase = "busy" /\ e.word # Garbage
                       /\ e.left = call.n - moved
      BY <2>5, <2>7 DEF IInv, TypeInv, Fields
    <2> HIDE DEF e
    <2>9. pc' = "flush" => FlushingOK'
      <3>1. pc' = "flush" => moved + 1 = call.n
        BY <1>1, <2>3
      <3>2. pc' = "flush" /\ ~failed => e.left = 1
        BY <2>2, <2>3, <2>8, <3>1
      <3>3. failed => FlushingOK'
        BY <2>4, <2>6, <1>1 DEF FlushingOK
      <3>4. pc' = "flush" /\ ~failed => FlushingOK'
        BY <1>1, <2>4, <2>8, <3>2 DEF FlushingOK, Sent
      <3> QED
        BY <3>3, <3>4
    <2>10. pc' = "delay" => MovingOK'
      BY <1>1, <2>2, <2>3, <2>4, <2>6, <2>8 DEF MovingOK, Sent
    <2> QED
      BY <1>1, <1>4, <2>1, <2>4, <2>9, <2>10 DEF IInv
  <1> QED
    BY <1>1, <1>4, <1>5 DEF IInv

\* The flush is taken, or lost on a drive that still stores the last sector.
LEMMA CacheFlushStep ==
  ASSUME IInv, CacheFlush
  PROVE  IInv'
  <1> USE DEF Moving, Flushing
  <1> DEFINE c == [Quiet EXCEPT !.cmd = "flush"]
  <1>1. DOMAIN c = Fields /\ c.cmd = "flush"
    BY DEF Quiet, Fields
  <1>2. Accept(drive, c)
    BY DEF CacheFlush
  <1> HIDE DEF c
  <1>3. /\ UNCHANGED <<call, chunks, drive, failed, wrapped, calls>>
        /\ pc = "flush" /\ pc' = "flushDelay"
    BY DEF CacheFlush, otherVars
  <1>4. TypeInv'
    BY <1>1, <1>2, <1>3, AcceptQuiet DEF IInv, TypeInv
  <1>5. CASE ~wrapped
    <2>1. FlushingOK /\ CallOK /\ \A d \in Drives \ {drive} : dev[d] = Quiet
      BY <1>3, <1>5 DEF IInv
    <2>2. \A d \in Drives \ {drive} : dev'[d] = Quiet
      BY <1>1, <1>2, <2>1, AcceptQuiet DEF IInv, TypeInv
    <2>3. CASE dev[drive] = Quiet
      <3>1. dev'[drive].cmd = "flush" /\ dev'[drive].phase = "settling"
        BY <1>1, <1>2, <2>3, AcceptQuiet, QuietFields DEF IInv, TypeInv
      <3>2. FlushingOK'
        BY <1>3, <3>1 DEF FlushingOK
      <3> QED
        BY <1>3, <1>4, <2>1, <2>2, <3>2 DEF IInv, CallOK
    <2>4. CASE Sent(dev[drive]) /\ dev[drive].left = 1
      <3>1. dev'[drive] = dev[drive]
        BY <1>1, <1>2, <2>4, AcceptQuiet DEF IInv, TypeInv, Sent
      <3>2. FlushingOK'
        BY <1>3, <2>4, <3>1 DEF FlushingOK, Sent
      <3> QED
        BY <1>3, <1>4, <2>1, <2>2, <3>2 DEF IInv, CallOK
    <2> QED
      BY <1>3, <2>1, <2>3, <2>4 DEF FlushingOK
  <1> QED
    BY <1>3, <1>4, <1>5 DEF IInv

\* BSY is clear, so that the drive is done with everything.
LEMMA ReturnStep ==
  ASSUME IInv, Return
  PROVE  IInv'
  <1> USE DEF Moving, Flushing
  <1>1. /\ UNCHANGED <<call, drive, dev, failed, wrapped, calls>>
        /\ pc = "flushPoll" /\ dev[drive].phase # "busy"
        /\ pc' = IF Len(chunks) = 1 THEN "idle" ELSE "program"
    BY DEF Return, NextPiece, Bsy, otherVars
  <1>2. TypeInv'
    BY <1>1 DEF IInv, TypeInv
  <1>3. CASE ~wrapped
    <2>1. Len(chunks) = 1
      BY <1>1, <1>3 DEF IInv, CallOK
    <2>2. FlushingOK /\ \A d \in Drives \ {drive} : dev[d] = Quiet
      BY <1>1, <1>3 DEF IInv
    <2>3. dev[drive] = Quiet
      BY <1>1, <2>2 DEF FlushingOK, Sent
    <2> QED
      BY <1>1, <1>2, <2>1, <2>2, <2>3 DEF IInv, CallOK
  <1> QED
    BY <1>1, <1>2, <1>3 DEF IInv

-----------------------------------------------------------------------------
(* The drives' steps.                                                      *)

\* Nothing moves in a drive that is quiet.
LEMMA DeviceTypes ==
  ASSUME IInv, NEW d \in Drives, Device(d)
  PROVE  /\ TypeInv'
         /\ UNCHANGED <<pc, call, chunks, moved, drive, wrapped, calls>>
         /\ \A e \in Drives \ {d} : dev'[e] = dev[e]
         /\ dev[d].phase \in {"settling", "busy"} /\ dev[d] # Quiet
  <1>1. UNCHANGED <<pc, call, chunks, moved, drive, wrapped, calls>> /\ failed' \in BOOLEAN
    BY DEF Device, Settle, DataReady, Store, Flushed, PacketReady, Fail, driverVars, otherVars,
           IInv, TypeInv
  <1>2. dev[d].phase \in {"settling", "busy"}
    BY DEF Device, Settle, DataReady, Store, Flushed, PacketReady, Fail, Bsy
  <1>3. /\ DOMAIN dev' = Drives /\ DOMAIN dev'[d] = Fields
        /\ \A e \in Drives \ {d} : dev'[e] = dev[e]
    <2>1. CASE Settle(d) \/ DataReady(d) \/ PacketReady(d)
      BY <2>1 DEF Settle, DataReady, PacketReady, IInv, TypeInv
    <2>2. CASE Store(d)
      BY <2>2, QuietFields DEF Store, IInv, TypeInv
    <2>3. CASE Flushed(d) \/ Fail(d)
      BY <2>3, QuietFields DEF Flushed, Fail, IInv, TypeInv
    <2> QED
      BY <2>1, <2>2, <2>3 DEF Device
  <1>4. TypeInv'
    BY <1>1, <1>3 DEF IInv, TypeInv
  <1> QED
    BY <1>1, <1>2, <1>3, <1>4, QuietFields
\* While the driver moves sectors: what is still to do is said by `left`
\* alone, until the sector sent is stored.
LEMMA DeviceMoving ==
  ASSUME IInv, NEW d \in Drives, Device(d), ~wrapped, pc \in Moving
  PROVE  MovingOK'
  <1> DEFINE c == dev[drive]
  <1>1. /\ MovingOK /\ drive \in Drives /\ failed \in BOOLEAN
        /\ call.op \in {"read", "write"} /\ call.n \in 1..(CountLimit - 1) /\ CountLimit \in Nat
        /\ DOMAIN c = Fields /\ DOMAIN dev = Drives
    BY WidthAssumption DEF IInv, TypeInv, CallOK, Moving
  <1>2. d = drive
    BY DeviceTypes DEF IInv
  <1>3. UNCHANGED <<pc, call, moved, drive>> /\ c # Quiet
    BY <1>2, DeviceTypes
  <1>4. /\ ~failed /\ c.cmd \in {"read", "write"} /\ c.cmd = call.op /\ pc # "transfer"
        /\ moved \in 0..(call.n - 1)
    BY <1>1, <1>2, <1>3, DeviceTypes DEF MovingOK
  <1>5. CASE Settle(d)
    <2>1. dev'[drive] = [c EXCEPT !.phase = "busy"] /\ UNCHANGED failed
      BY <1>1, <1>2, <1>5 DEF Settle, otherVars
    <2>2. c.phase = "settling"
      BY <1>2, <1>5 DEF Settle
    <2> QED
      BY <1>1, <1>3, <1>4, <2>1, <2>2 DEF MovingOK, Sent, Fields
  <1>6. CASE DataReady(d)
    <2>1. PICK w : dev'[drive] = [c EXCEPT !.phase = "drq", !.word = w]
                   /\ (c.cmd = "write" => w = Garbage)
      BY <1>1, <1>2, <1>6 DEF DataReady
    <2>2. c.phase = "busy" /\ c.word = Garbage /\ UNCHANGED failed
      BY <1>2, <1>6 DEF DataReady, Bsy, otherVars
    <2> QED
      BY <1>1, <1>3, <1>4, <2>1, <2>2 DEF MovingOK, Sent, Fields
  <1>7. CASE Store(d)
    <2>1. Sent(c) /\ UNCHANGED failed
      BY <1>2, <1>7 DEF Store, Sent, Bsy, otherVars
    <2>2. c.left = call.n - moved + 1 /\ c.left # 1
      BY <1>1, <1>4, <2>1 DEF MovingOK
    <2>3. dev'[drive] = [c EXCEPT !.at = @ + 1, !.left = @ - 1, !.word = Garbage]
      BY <1>1, <1>2, <1>7, <2>2 DEF Store
    <2> QED
      BY <1>1, <1>3, <1>4, <2>1, <2>2, <2>3 DEF MovingOK, Sent, Fields
  <1>8. CASE Fail(d)
    BY <1>1, <1>2, <1>3, <1>4, <1>8 DEF Fail, MovingOK
  <1> QED
    BY <1>2, <1>4, <1>5, <1>6, <1>7, <1>8 DEF Device, Flushed, PacketReady

LEMMA DeviceFlushing ==
  ASSUME IInv, NEW d \in Drives, Device(d), ~wrapped, pc \in Flushing
  PROVE  FlushingOK'
  <1> DEFINE c == dev[drive]
  <1>1. /\ FlushingOK /\ drive \in Drives
        /\ DOMAIN c = Fields /\ DOMAIN dev = Drives
    BY DEF IInv, TypeInv
  <1>2. d = drive
    BY DeviceTypes DEF IInv
  <1>3. UNCHANGED <<pc, drive>> /\ c # Quiet
    BY <1>2, DeviceTypes
  <1>4. CASE Sent(c) /\ c.left = 1
    <2>1. dev'[drive] = Quiet
      BY <1>1, <1>2, <1>4
         DEF Device, Settle, DataReady, Store, Flushed, PacketReady, Fail, Sent, Bsy
    <2> QED
      BY <1>3, <2>1 DEF FlushingOK
  <1>5. CASE pc # "flush" /\ c.cmd = "flush" /\ c.phase \in {"settling", "busy"}
    <2>1. \/ dev'[drive] = Quiet
          \/ c.phase = "settling" /\ dev'[drive] = [c EXCEPT !.phase = "busy"]
      BY <1>1, <1>2, <1>5
         DEF Device, Settle, DataReady, Store, Flushed, PacketReady, Fail
    <2> QED
      BY <1>1, <1>3, <1>5, <2>1 DEF FlushingOK, Fields
  <1> QED
    BY <1>1, <1>3, <1>4, <1>5 DEF FlushingOK

LEMMA DeviceStep ==
  ASSUME IInv, NEW d \in Drives, Device(d)
  PROVE  IInv'
  <1> USE DeviceTypes DEF Moving, Flushing
  <1>1. CASE ~wrapped
    <2>1. CallOK' /\ pc \notin {"idle", "program"}
      BY <1>1 DEF IInv, CallOK
    <2>2. pc \in Moving \cup Flushing => d = drive /\ \A e \in Drives \ {drive} : dev'[e] = Quiet
      BY <1>1 DEF IInv
    <2> QED
      BY <1>1, <2>1, <2>2, DeviceMoving, DeviceFlushing DEF IInv
  <1> QED
    BY <1>1 DEF IInv

-----------------------------------------------------------------------------
LEMMA NextIInv ==
  ASSUME IInv, [Next]_vars
  PROVE  IInv'
  <1>1. CASE \E op \in {"read", "write"}, d \in Drives, n \in Lengths :
               \E lba \in Start[d] : Call(op, d, lba, n)
    BY <1>1, CallStep
  <1>2. CASE Driver
    BY <1>2, ProgramStep, PacketStep, WaitStep, ReadSectorStep, WriteSectorStep,
       CacheFlushStep, ReturnStep DEF Driver
  <1>3. CASE \E d \in Drives : Device(d)
    BY <1>3, DeviceStep
  <1>4. CASE UNCHANGED vars
    BY <1>4 DEF vars, driverVars, otherVars, IInv, TypeInv, CallOK, MovingOK, FlushingOK, Sent,
                Moving, Flushing
  <1> QED
    BY <1>1, <1>2, <1>3, <1>4 DEF Next

\* readSectors and writeSectors send reads and writes only to drives that are
\* done with the last command, a flush at worst to one that is storing the last
\* sector of the write, and move data only when the drive asks for it.
THEOREM StaysInStep == Spec => []InStep
  <1>1. ASSUME IInv, Countable, pc = "flush", NEW d \in Drives
        PROVE  dev[d] = Quiet \/ (d = drive /\ Storing(d))
    <2>1. FlushingOK /\ \A e \in Drives \ {drive} : dev[e] = Quiet
      BY <1>1 DEF IInv, Countable, Flushing
    <2> QED
      BY <1>1, <2>1 DEF FlushingOK, Sent, Storing
  <1>2. IInv => InStep
    BY <1>1 DEF IInv, InStep, Countable, MovingOK, Moving
  <1> QED
    BY <1>2, InitIInv, NextIInv, PTL DEF Spec

-----------------------------------------------------------------------------
(* Addresses.                                                              *)

\* The quotient and the rest are the only ones.
LEMMA Divided ==
  ASSUME NEW b \in Nat \ {0}, NEW x \in Nat
  PROVE  x \div b \in Nat /\ x % b \in 0..(b - 1) /\ x = b * (x \div b) + (x % b)
  OBVIOUS

LEMMA DivisionUnique ==
  ASSUME NEW b \in Nat \ {0}, NEW x \in Nat, NEW q \in Nat, NEW r \in 0..(b - 1), x = b * q + r
  PROVE  x \div b = q /\ x % b = r
  <1> DEFINE u == x \div b
             v == x % b
  <1>1. u \in Nat /\ v \in 0..(b - 1) /\ x = b * u + v
    BY Divided
  <1> HIDE DEF u, v
  <1>2. ASSUME NEW m \in Nat, NEW n \in Nat, m + 1 <= n PROVE b * m + b <= b * n
    <2>1. PICK k \in Nat : n = m + 1 + k
      <3>1. n - m - 1 \in Nat /\ n = m + 1 + (n - m - 1)
        BY <1>2
      <3> QED
        BY <3>1
    <2>2. b * n = b * m + b + b * k /\ b * k \in Nat
      BY <2>1
    <2> QED
      BY <2>2
  <1>3. ~(u + 1 <= q)
    BY <1>1, <1>2
  <1>4. ~(q + 1 <= u)
    BY <1>1, <1>2
  <1>5. u = q
    BY <1>1, <1>3, <1>4
  <1>6. b * q \in Nat
    OBVIOUS
  <1>7. v = r
    BY <1>1, <1>5, <1>6
  <1> QED
    BY <1>5, <1>7 DEF u, v

\* Dividing twice.
LEMMA DivisionTwice ==
  ASSUME NEW p \in Nat \ {0}, NEW b \in Nat \ {0}, NEW x \in Nat
  PROVE  /\ p * b \in Nat \ {0}
         /\ x \div p = b * (x \div (p * b)) + ((x \div p) % b)
         /\ (x \div p) \div b = x \div (p * b)
  <1> DEFINE u == x \div p
             v == x % p
             s == u \div b
             t == u % b
  <1>1. u \in Nat /\ v \in 0..(p - 1) /\ x = p * u + v
    BY Divided
  <1>2. s \in Nat /\ t \in 0..(b - 1) /\ u = b * s + t
    BY <1>1, Divided
  <1> HIDE DEF u, v, s, t
  <1>3. x = (p * b) * s + (p * t + v)
    BY <1>1, <1>2
  <1>4. p * b \in Nat \ {0}
    OBVIOUS
  <1>5. p * t + v \in 0..(p * b - 1)
    <2>1. PICK k \in Nat : b = t + 1 + k
      <3>1. b - t - 1 \in Nat /\ b = t + 1 + (b - t - 1)
        BY <1>2
      <3> QED
        BY <3>1
    <2>2. p * b = p * t + p + p * k /\ p * k \in Nat /\ p * t \in Nat
      BY <2>1, <1>2
    <2> QED
      BY <1>1, <2>2
  <1>6. x \div (p * b) = s
    BY <1>2, <1>3, <1>4, <1>5, DivisionUnique
  <1> QED
    BY <1>2, <1>4, <1>6 DEF u, s, t

\* Powers are what is multiplied up.
LEMMA Powers ==
  ASSUME NEW b \in Nat \ {0}
  PROVE  /\ \A n \in 0..6 : Power(b, n) \in Nat \ {0}
         /\ Power(b, 0) = 1
         /\ \A n \in 0..5 : Power(b, n + 1) = Power(b, n) * b
  <1> DEFINE w == [k \in 0..6 |-> IF k = 0 THEN 1 ELSE IF k = 1 THEN b ELSE IF k = 2 THEN b * b
                     ELSE IF k = 3 THEN b * (b * b) ELSE IF k = 4 THEN b * (b * (b * b))
                     ELSE IF k = 5 THEN b * (b * (b * (b * b)))
                     ELSE b * (b * (b * (b * (b * b))))]
  <1>1. ASSUME NEW n \in 0..6
        PROVE  Power(b, n) = w[n]
    <2> DEFINE Rec(p) == p = [k \in 0..n |-> IF k = 0 THEN 1 ELSE b * p[k - 1]]
               f == CHOOSE p : Rec(p)
               g == [k \in 0..n |-> w[k]]
    <2>1. Power(b, n) = f[n]
      BY DEF Power
    <2>2. Rec(g)
      <3>1. ASSUME NEW k \in 0..n PROVE g[k] = IF k = 0 THEN 1 ELSE b * g[k - 1]
        <4>1. k \in 0..6 /\ (k # 0 => k - 1 \in 0..n /\ k - 1 \in 0..6)
          OBVIOUS
        <4>2. k = 0 \/ k = 1 \/ k = 2 \/ k = 3 \/ k = 4 \/ k = 5 \/ k = 6
          BY <4>1
        <4>3. k # 0 => w[k] = b * w[k - 1]
          BY <4>1, <4>2
        <4>4. g[k] = w[k] /\ (k # 0 => g[k - 1] = w[k - 1]) /\ w[0] = 1
          BY <4>1
        <4> QED
          BY <4>3, <4>4
      <3> QED
        BY <3>1
    <2>3. Rec(f)
      BY <2>2
    <2> HIDE DEF f
    <2>4. \A k \in 0..n : f[k] = IF k = 0 THEN 1 ELSE b * f[k - 1]
      BY <2>3
    <2> HIDE DEF Rec, g
    <2>5. f[0] = 1 /\ (n >= 1 => f[1] = b * f[0]) /\ (n >= 2 => f[2] = b * f[1])
          /\ (n >= 3 => f[3] = b * f[2]) /\ (n >= 4 => f[4] = b * f[3])
          /\ (n >= 5 => f[5] = b * f[4]) /\ (n >= 6 => f[6] = b * f[5])
      BY <2>4
    <2>6. n = 0 \/ n = 1 \/ n = 2 \/ n = 3 \/ n = 4 \/ n = 5 \/ n = 6
      OBVIOUS
    <2>7. f[n] = w[n]
      BY <2>5, <2>6
    <2> QED
      BY <2>1, <2>7
  <1>2. \A n \in 0..6 : w[n] \in Nat \ {0}
    <2>1. /\ b * b \in Nat \ {0} /\ b * (b * b) \in Nat \ {0} /\ b * (b * (b * b)) \in Nat \ {0}
      OBVIOUS
    <2>2. b * (b * (b * (b * b))) \in Nat \ {0}
      BY <2>1
    <2>3. b * (b * (b * (b * (b * b)))) \in Nat \ {0}
      BY <2>2
    <2> QED
      BY <2>1, <2>2, <2>3
  <1>3. ASSUME NEW n \in 0..5 PROVE w[n + 1] = w[n] * b
    <2>1. n = 0 \/ n = 1 \/ n = 2 \/ n = 3 \/ n = 4 \/ n = 5
      OBVIOUS
    <2>2. w[n + 1] = b * w[n]
      BY <2>1
    <2>3. w[n] \in Nat
      BY <1>2
    <2> HIDE DEF w
    <2> QED
      BY <2>2, <2>3
  <1>4. w[0] = 1
    OBVIOUS
  <1> HIDE DEF w
  <1>5. \A n \in 0..5 : n \in 0..6 /\ n + 1 \in 0..6
    OBVIOUS
  <1> QED
    BY <1>1, <1>2, <1>3, <1>4, <1>5

\* A digit takes off the value of the digits above it.
LEMMA DigitTaken ==
  ASSUME NEW x \in Nat, NEW n \in 0..5
  PROVE  /\ Digit(x, n) \in Nat
         /\ (x \div Power(ByteValues, n)) * Power(ByteValues, n) =
              (x \div Power(ByteValues, n + 1)) * Power(ByteValues, n + 1)
                + Digit(x, n) * Power(ByteValues, n)
  <1> DEFINE p == Power(ByteValues, n)
             u == x \div p
             s == x \div (p * ByteValues)
  <1>1. ByteValues \in Nat \ {0} /\ n \in 0..6
    BY WidthAssumption
  <1>2. p \in Nat \ {0} /\ Power(ByteValues, n + 1) = p * ByteValues
    BY <1>1, Powers
  <1> HIDE DEF p
  <1>3. p * ByteValues \in Nat \ {0} /\ u = ByteValues * s + (u % ByteValues)
    BY <1>1, <1>2, DivisionTwice
  <1>4. u \in Nat /\ s \in Nat /\ u % ByteValues \in Nat
    <2>1. u \in Nat /\ s \in Nat
      BY <1>2, <1>3, Divided
    <2> QED
      BY <1>1, <2>1, Divided
  <1>5. Digit(x, n) = u % ByteValues
    BY DEF Digit, p
  <1> HIDE DEF u, s
  <1>6. \A d \in Nat : u = ByteValues * s + d => u * p = s * (p * ByteValues) + d * p
    BY <1>1, <1>2, <1>4
  <1>7. u * p = s * (p * ByteValues) + (u % ByteValues) * p
    BY <1>3, <1>4, <1>6
  <1> QED
    BY <1>2, <1>4, <1>5, <1>7 DEF u, s, p

LEMMA LimitTypes ==
  Limit28 \in Nat /\ Power(ByteValues, 3) \in Nat \ {0} /\ Limit28 = Power(ByteValues, 3) * HeadValues
  <1>1. ByteValues \in Nat \ {0} /\ HeadValues \in Nat /\ 3 \in 0..6
    BY WidthAssumption
  <1>2. Power(ByteValues, 3) \in Nat \ {0}
    BY <1>1, Powers
  <1> QED
    BY <1>1, <1>2 DEF Limit28

\* With 48 bits.
LEMMA AddressWide ==
  ASSUME NEW d, NEW x \in 0..(Power(ByteValues, 6) - 1), x >= Limit28
  PROVE  Address(d, TaskFile(d, x)) = x
  <1> DEFINE f == TaskFile(d, x)
             q(n) == (x \div Power(ByteValues, n)) * Power(ByteValues, n)
             e(n) == Digit(x, n) * Power(ByteValues, n)
  <1>1. /\ ByteValues \in Nat \ {0} /\ Power(ByteValues, 6) \in Nat \ {0} /\ x \in Nat
        /\ Power(ByteValues, 0) = 1
    <2>1. ByteValues \in Nat \ {0} /\ 6 \in 0..6
      BY WidthAssumption
    <2>2. Power(ByteValues, 6) \in Nat \ {0} /\ Power(ByteValues, 0) = 1
      BY <2>1, Powers
    <2> QED
      BY <2>1, <2>2
  <1>2. f = [mode |-> 2, head |-> 0, io |-> [n \in 0..5 |-> Digit(x, n)]]
    <2>1. ~(x < Limit28)
      BY <1>1, LimitTypes
    <2> QED
      BY <2>1 DEF TaskFile
  <1>3. Address(d, f) = e(0) + e(1) + e(2) + e(3) + e(4) + e(5)
    <2>1. f.mode = 2 /\ \A n \in 0..5 : f.io[n] = Digit(x, n)
      BY <1>2
    <2> HIDE DEF f
    <2> QED
      BY <2>1 DEF Address
  <1>4. \A n \in 0..5 : q(n) = q(n + 1) + e(n)
    BY <1>1, DigitTaken
  <1>5. \A n \in 0..6 : q(n) \in Nat
    <2>1. ASSUME NEW n \in 0..6 PROVE q(n) \in Nat
      <3>1. Power(ByteValues, n) \in Nat \ {0}
        BY <1>1, Powers
      <3>2. x \div Power(ByteValues, n) \in Nat
        BY <1>1, <3>1, Divided
      <3> QED
        BY <3>1, <3>2
    <2> QED
      BY <2>1
  <1>6. \A n \in 0..5 : e(n) \in Nat
    <2>1. ASSUME NEW n \in 0..5 PROVE e(n) \in Nat
      <3>1. n \in 0..6
        OBVIOUS
      <3>2. Power(ByteValues, n) \in Nat \ {0} /\ Digit(x, n) \in Nat
        BY <1>1, <3>1, Powers, DigitTaken
      <3> QED
        BY <3>2
    <2> QED
      BY <2>1
  <1>7. q(0) = x /\ q(6) = 0
    <2>1. x \div 1 = x
      BY <1>1
    <2>2. x = Power(ByteValues, 6) * 0 + x
      BY <1>1
    <2>3. x \div Power(ByteValues, 6) = 0
      BY <1>1, <2>2, DivisionUnique
    <2> QED
      BY <1>1, <2>1, <2>3
  <1> HIDE DEF q, e, f
  <1>8. /\ q(0) = q(1) + e(0) /\ q(1) = q(2) + e(1) /\ q(2) = q(3) + e(2) /\ q(3) = q(4) + e(3)
        /\ q(4) = q(5) + e(4) /\ q(5) = q(6) + e(5)
    BY <1>4
  <1>9. x = e(0) + e(1) + e(2) + e(3) + e(4) + e(5)
    BY <1>5, <1>6, <1>7, <1>8
  <1> QED
    BY <1>3, <1>9 DEF f

\* With 28 bits, the last four of them in the register of the head.
LEMMA AddressNarrow ==
  ASSUME NEW d \in LbaCapable, NEW x \in Nat, x < Limit28
  PROVE  Address(d, TaskFile(d, x)) = x
  <1> DEFINE f == TaskFile(d, x)
             p == Power(ByteValues, 3)
             u == x \div p
             q(n) == (x \div Power(ByteValues, n)) * Power(ByteValues, n)
             e(n) == Digit(x, n) * Power(ByteValues, n)
  <1>1. /\ ByteValues \in Nat \ {0} /\ HeadValues \in Nat \ {0} /\ p \in Nat \ {0}
        /\ Power(ByteValues, 0) = 1
    BY WidthAssumption, Powers
  <1>2. Limit28 = p * HeadValues /\ Limit28 \in Nat
    BY <1>1 DEF Limit28
  <1>3. u \in Nat /\ u < HeadValues
    <2>1. x % p \in 0..(p - 1) /\ u \in Nat /\ x = p * u + (x % p)
      BY <1>1, Divided
    <2> HIDE DEF u, p
    <2>2. ASSUME u >= HeadValues PROVE FALSE
      <3>1. PICK k \in Nat : u = HeadValues + k
        <4>1. u - HeadValues \in Nat /\ u = HeadValues + (u - HeadValues)
          BY <1>1, <2>1, <2>2
        <4> QED
          BY <4>1
      <3>2. p * u = p * HeadValues + p * k /\ p * k \in Nat
        BY <1>1, <3>1
      <3> QED
        BY <1>1, <1>2, <2>1, <3>2
    <2> QED
      BY <1>1, <2>1, <2>2
  <1>4. u % HeadValues = u
    BY <1>1, <1>3
  <1>5. f = [mode |-> 1, head |-> u, io |-> [n \in 0..5 |-> IF n < 3 THEN Digit(x, n) ELSE 0]]
    <2>1. ~(x >= Limit28)
      BY <1>2
    <2> QED
      BY <1>4, <2>1 DEF TaskFile
  <1>6. Address(d, f) = e(0) + e(1) + e(2) + u * p
    <2>1. f.mode = 1 /\ f.head = u /\ \A n \in 0..2 : f.io[n] = Digit(x, n)
      BY <1>5
    <2> HIDE DEF f, u, p
    <2>2. Address(d, f) = f.io[0] * Power(ByteValues, 0) + f.io[1] * Power(ByteValues, 1)
                         + f.io[2] * Power(ByteValues, 2) + f.head * Power(ByteValues, 3)
      BY <2>1 DEF Address
    <2> QED
      BY <2>1, <2>2 DEF p
  <1>7. \A n \in 0..2 : q(n) = q(n + 1) + e(n) /\ e(n) \in Nat /\ q(n) \in Nat
    <2>1. ASSUME NEW n \in 0..2 PROVE q(n) = q(n + 1) + e(n) /\ e(n) \in Nat /\ q(n) \in Nat
      <3>1. n \in 0..5 /\ n \in 0..6
        OBVIOUS
      <3>2. Power(ByteValues, n) \in Nat \ {0} /\ Digit(x, n) \in Nat /\ q(n) = q(n + 1) + e(n)
        BY <1>1, <3>1, Powers, DigitTaken
      <3>3. x \div Power(ByteValues, n) \in Nat
        BY <3>2, Divided
      <3>4. e(n) \in Nat /\ q(n) \in Nat
        BY <3>2, <3>3
      <3> QED
        BY <3>2, <3>4
    <2> QED
      BY <2>1
  <1>8. q(0) = x /\ q(3) = u * p /\ u * p \in Nat
    <2>1. x \div 1 = x
      OBVIOUS
    <2> QED
      BY <1>1, <1>3, <2>1
  <1> HIDE DEF q, e, f, u, p
  <1>9. q(0) = q(1) + e(0) /\ q(1) = q(2) + e(1) /\ q(2) = q(3) + e(2)
    BY <1>7
  <1>10. x = e(0) + e(1) + e(2) + u * p
    <2>1. e(0) \in Nat /\ e(1) \in Nat /\ e(2) \in Nat /\ q(0) \in Nat /\ q(1) \in Nat /\ q(2) \in Nat
      BY <1>7
    <2>2. PICK z \in Nat : z = u * p
      BY <1>8
    <2> QED
      BY <1>8, <1>9, <2>1, <2>2
  <1> QED
    BY <1>6, <1>10 DEF f

\* By cylinder, head and sector: of the cylinder, the byte that fits.
LEMMA AddressCHS ==
  ASSUME NEW d \in Drives, d \notin LbaCapable, Geometry[d] = Assumed, NEW x \in Nat, x < Limit28
  PROVE  Address(d, TaskFile(d, x)) = x % (ByteValues * (HeadsPerCyl * SectorsPerTrack))
  <1> DEFINE T == SectorsPerTrack
             H == HeadsPerCyl
             B == ByteValues
             f == TaskFile(d, x)
             s == x % T
             u == x \div T
             c == u \div H
             h == u % H
             q == c \div B
             g == c % B
  <1>1. T \in Nat \ {0} /\ H \in Nat \ {0} /\ B \in Nat \ {0} /\ Limit28 \in Nat
    <2>1. B \in Nat \ {0} /\ Power(B, 3) \in Nat \ {0} /\ HeadValues \in Nat
      BY WidthAssumption, Powers
    <2> QED
      BY <2>1, WidthAssumption DEF Limit28
  <1> HIDE DEF T, H, B
  <1>2. u \in Nat /\ s \in 0..(T - 1) /\ x = T * u + s
    BY <1>1, Divided
  <1>3. c \in Nat /\ h \in 0..(H - 1) /\ u = H * c + h
    BY <1>1, <1>2, Divided
  <1>4. x + 1 - (s + 1) = T * u /\ T * u \in Nat
    BY <1>1, <1>2
  <1> HIDE DEF u, s, c, h, q, g
  <1>5. H * T \in Nat \ {0}
    BY <1>1
  <1>6. T * u = (H * T) * c + T * h
    BY <1>1, <1>2, <1>3
  <1>7. T * h \in 0..(H * T - 1)
    <2>1. PICK k \in Nat : H = h + 1 + k
      <3>1. H - h - 1 \in Nat /\ H = h + 1 + (H - h - 1)
        BY <1>1, <1>3
      <3> QED
        BY <3>1
    <2>2. H * T = T * h + T + T * k /\ T * k \in Nat /\ T * h \in Nat
      BY <1>1, <1>3, <2>1
    <2> QED
      BY <1>1, <1>5, <2>2
  <1>8. (T * u) \div (H * T) = c /\ (T * u) % (H * T) = T * h
    BY <1>3, <1>4, <1>5, <1>6, <1>7, DivisionUnique
  <1>9. (T * h) \div T = h
    <2>1. T * h = T * h + 0 /\ T * h \in Nat /\ h \in Nat /\ 0 \in 0..(T - 1)
      BY <1>1, <1>3
    <2> QED
      BY <1>1, <2>1, DivisionUnique
  <1>10. q \in Nat /\ g \in 0..(B - 1) /\ c = B * q + g
    BY <1>1, <1>3, Divided DEF q, g
  <1>11. g % B = g /\ g \div B = 0
    <2>1. g = B * 0 + g
      BY <1>1, <1>10
    <2> QED
      BY <1>1, <1>10, <2>1, DivisionUnique
  <1>12. 0 % B = 0
    BY <1>1
  <1>13. f.mode = 0 /\ f.head = h /\ f.io[0] = s + 1 /\ f.io[1] = g /\ f.io[2] = 0
    <2>1. f = LET sect == s + 1
                  cyl  == ((x + 1 - sect) \div (H * T)) % B
              IN [mode |-> 0, head |-> ((x + 1 - sect) % (H * T)) \div T,
                  io |-> [n \in 0..5 |-> CASE n = 0 -> sect
                                           [] n = 1 -> cyl % B
                                           [] n = 2 -> (cyl \div B) % B
                                           [] OTHER -> 0]]
      <3>1. ~(x >= Limit28)
        BY <1>1
      <3> QED
        BY <3>1 DEF TaskFile, s, T, H, B
    <2> HIDE DEF f
    <2> QED
      BY <1>4, <1>8, <1>9, <1>11, <1>12, <2>1 DEF g
  <1>14. Address(d, f) = ((f.io[1] + f.io[2] * B) * H + f.head) * T + f.io[0] - 1
    <2> HIDE DEF f
    <2>1. Geometry[d].heads = H /\ Geometry[d].sectors = T
      BY DEF Assumed, H, T
    <2> QED
      BY <1>13, <2>1 DEF Address, B
  <1> HIDE DEF f
  <1>15. PICK y \in Nat \ {0}, z \in Nat, k \in Nat : y = H * T /\ z = T * h /\ k = y * g /\ z <= y - T
    <2>1. PICK l \in Nat : H = h + 1 + l
      <3>1. H - h - 1 \in Nat /\ H = h + 1 + (H - h - 1)
        BY <1>1, <1>3
      <3> QED
        BY <3>1
    <2>2. H * T = T * h + T + T * l /\ T * l \in Nat /\ T * h \in Nat
      BY <1>1, <1>3, <2>1
    <2>3. (H * T) * g \in Nat
      BY <1>5, <1>10
    <2> QED
      BY <1>1, <1>5, <2>2, <2>3
  <1>16. Address(d, f) = k + z + s
    <2>1. Address(d, f) = (g * H + h) * T + (s + 1) - 1
      <3>1. 0 * B = 0 /\ g + 0 = g
        BY <1>1, <1>10
      <3> QED
        BY <1>13, <1>14, <3>1
    <2>2. (g * H + h) * T = y * g + z
      <3>1. (g * H + h) * T = (H * T) * g + T * h
        BY <1>1, <1>3, <1>10
      <3> QED
        BY <1>15, <3>1
    <2> QED
      BY <1>2, <1>15, <2>1, <2>2
  <1>17. PICK m \in Nat : m = (B * y) * q /\ x = m + (k + z + s)
    <2>1. x = y * c + z + s
      BY <1>2, <1>6, <1>15
    <2>2. y * c = (B * y) * q + y * g /\ (B * y) * q \in Nat
      BY <1>1, <1>10
    <2> QED
      BY <1>2, <1>15, <2>1, <2>2
  <1>18. k + z + s \in 0..(B * y - 1)
    <2>1. PICK l \in Nat : B = g + 1 + l
      <3>1. B - g - 1 \in Nat /\ B = g + 1 + (B - g - 1)
        BY <1>1, <1>10
      <3> QED
        BY <3>1
    <2>2. B * y = y * g + y + y * l /\ y * l \in Nat
      BY <1>10, <2>1
    <2> QED
      BY <1>1, <1>2, <1>15, <2>2
  <1>19. x % (B * y) = k + z + s
    <2>1. B * y \in Nat \ {0}
      BY <1>1
    <2> QED
      BY <1>10, <1>17, <1>18, <2>1, DivisionUnique
  <1> QED
    BY <1>15, <1>16, <1>19 DEF f, B, H, T

\* What the code computes for a sector that 48 bits count is taken by the drive
\* to mean that sector, if the sector is beyond 28 bits or the drive has LBA.
\* If not, and the drive has the geometry that the driver assumes, it is taken
\* to mean the sector that is left of it when whole rounds of ByteValues
\* cylinders are taken away: one byte of the cylinder is kept.
THEOREM AddressRight ==
  ASSUME NEW d \in Drives, NEW x \in 0..(Power(ByteValues, 6) - 1)
  PROVE  /\ x >= Limit28 \/ d \in LbaCapable => Address(d, TaskFile(d, x)) = x
         /\ x < Limit28 /\ d \notin LbaCapable /\ Geometry[d] = Assumed =>
              Address(d, TaskFile(d, x)) = x % (ByteValues * (HeadsPerCyl * SectorsPerTrack))
  <1>1. x \in Nat /\ Limit28 \in Nat
    <2>1. ByteValues \in Nat \ {0}
      BY WidthAssumption
    <2>2. Power(ByteValues, 6) \in Nat
      BY <2>1, Powers
    <2> QED
      BY <2>2, LimitTypes
  <1>2. CASE x >= Limit28
    BY <1>1, <1>2, AddressWide
  <1>3. CASE x < Limit28 /\ d \in LbaCapable
    BY <1>1, <1>3, AddressNarrow
  <1>4. CASE x < Limit28 /\ d \notin LbaCapable
    BY <1>1, <1>4, AddressCHS
  <1> QED
    BY <1>1, <1>2, <1>3, <1>4

\* The drive takes the task file of a call to mean the sector asked for.
LEMMA AddressOfCall ==
  ASSUME NEW d \in Drives, NEW x \in Start[d]
  PROVE  x \in Nat /\ Address(d, TaskFile(d, x)) = x
  <1>1. x \in 0..(Power(ByteValues, 6) - 1) /\ x \in Nat /\ Limit28 \in Nat
    <2>1. x \in Lbas
      BY LbaAssumption
    <2> QED
      BY <2>1, LbaAssumption, AddressAssumption, LimitTypes
  <1>2. CASE x >= Limit28 \/ d \in LbaCapable
    BY <1>1, <1>2, AddressRight
  <1>3. CASE x < Limit28 /\ d \notin LbaCapable
    <2>1. Geometry[d] = Assumed /\ x < ByteValues * (HeadsPerCyl * SectorsPerTrack)
      BY <1>1, <1>3, AddressAssumption
    <2>2. PICK b \in Nat \ {0} : b = ByteValues * (HeadsPerCyl * SectorsPerTrack)
      BY WidthAssumption
    <2>3. x % b = x
      BY <1>1, <2>1, <2>2
    <2> QED
      BY <1>1, <1>3, <2>1, <2>2, <2>3, AddressRight
  <1> QED
    BY <1>1, <1>2, <1>3

-----------------------------------------------------------------------------
(* The data.                                                               *)

Active == pc \in Moving \cup Flushing

\* The sector the drive is at, and what is in its buffer.
CarriedOK ==
  LET c == dev[drive] IN
  /\ c.cmd \in {"none", "flush", call.op}
  /\ c.cmd \in {"read", "write"} =>
       /\ c.at \in Nat /\ c.at >= call.lba /\ c.at + c.left = call.lba + call.n
       /\ c.phase = "drq" \/ Sent(c) => c.at \in Lbas
       /\ Sent(c) => c.word = <<calls, c.at - call.lba>>
       /\ c.cmd = "read" /\ c.phase = "drq" => c.word = before[drive][c.at]

\* How many sectors are in the caller's buffer, and up to which the drive has
\* taken those of a write.
Moved  == IF pc \in Moving THEN moved ELSE call.n
Stored == IF Active /\ dev[drive].cmd = "write" THEN dev[drive].at ELSE call.lba + call.n

ReadOK ==
  /\ \A i \in 0..(Moved - 1) : dest[i] = before[call.drive][call.lba + i]
  /\ pc \in {"flushDelay", "flushPoll"} => dev[drive].cmd = "flush" \/ cache[drive] = <<>>
  /\ pc = "idle" => cache[call.drive] = <<>>

WriteOK ==
  \A l \in call.lba..(Stored - 1) :
    l \in Lbas /\ Content(call.drive, l) = <<calls, l - call.lba>>

\* What is asked for is one of the calls that Next has.
AskedOK ==
  call.op # "none" =>
    /\ call.drive \in Drives /\ call.op \in {"read", "write"}
    /\ call.n \in Nat \ {0} /\ call.lba \in Start[call.drive]
    /\ dest = [i \in 0..(call.n - 1) |-> dest[i]]

ActiveOK == Active => drive = call.drive /\ type[drive] = "IDE_ATA" /\ CarriedOK

WaitingOK == pc = "waitIDEIRQ" => \A d \in Drives : dev[d].cmd \in {"none", "packet"}

DoneOK ==
  (Active \/ pc = "idle") /\ Countable /\ ~failed =>
    /\ call.op = "read" => ReadOK
    /\ call.op = "write" => WriteOK

SectorsOK == DOMAIN media = Drives /\ DOMAIN cache = Drives /\ Confined

DataInv ==
  ~wrapped => /\ pc = "idle" \/ call.op # "none"
              /\ AskedOK /\ ActiveOK /\ WaitingOK /\ DoneOK /\ SectorsOK

LEMMA InitData ==
  ASSUME Init
  PROVE  DataInv
  BY DEF Init, DataInv, SectorsOK, AskedOK, ActiveOK, WaitingOK, DoneOK, Confined, Countable, Active, Moving,
         Flushing

\* A call starts from what the sectors hold then.
LEMMA CallData ==
  ASSUME DataInv, NEW op \in {"read", "write"}, NEW d \in Drives, NEW n \in Lengths,
         NEW lba \in Start[d], Call(op, d, lba, n)
  PROVE  DataInv'
  <1> SUFFICES ASSUME ~wrapped' PROVE DataInv'
    BY DEF DataInv
  <1> USE DEF Call, Moving, Flushing
  <1>1. /\ call' = [op |-> op, drive |-> d, lba |-> lba, n |-> n] /\ pc' = "program"
        /\ DOMAIN dest' = 0..(n - 1)
    OBVIOUS
  <1>2. AskedOK'
    BY <1>1, LengthAssumption DEF AskedOK
  <1>3. \A e \in Drives, l \in Lbas : Content(e, l)' = before'[e][l]
    BY DEF Content
  <1>4. SectorsOK'
    <2>1. SectorsOK
      BY DEF DataInv
    <2> QED
      BY <1>3, <2>1 DEF SectorsOK, Confined
  <1>5. call'.op # "none"
    BY <1>1
  <1>6. ActiveOK' /\ WaitingOK' /\ DoneOK'
    BY <1>1 DEF ActiveOK, WaitingOK, DoneOK, Active
  <1> QED
    BY <1>2, <1>4, <1>5, <1>6 DEF DataInv

\* The driver's steps change no sector.
LEMMA ConfinedKept ==
  ASSUME SectorsOK, UNCHANGED <<call, wrapped, type, before, media, cache>>
  PROVE  SectorsOK' /\ \A d, l : Content(d, l)' = Content(d, l)
  BY DEF SectorsOK, Confined, Content, Asked

\* The drive is told the first sector of the call.
LEMMA ProgramData ==
  ASSUME IInv, DataInv, ~wrapped, Program
  PROVE  DataInv'
  <1> USE DEF Moving, Flushing
  <1> DEFINE f == TaskFile(call.drive, call.lba + Head(chunks).from)
             c == [Quiet EXCEPT !.cmd = call.op, !.at = Address(call.drive, f),
                                !.left = SectorCount(sectors, f.mode), !.wide = (f.mode = 2)]
  <1>1. /\ DOMAIN c = Fields /\ c.cmd = call.op /\ c.at = Address(call.drive, f)
        /\ c.left = SectorCount(sectors, f.mode) /\ c.word = Garbage
    BY DEF Quiet, Fields
  <1>2. Accept(call.drive, c)
    BY DEF Program
  <1> HIDE DEF c, f
  <1>3. /\ drive' = call.drive /\ moved' = 0 /\ type[call.drive] = "IDE_ATA"
        /\ pc = "program" /\ pc' = IF sectors = 0 THEN "flush" ELSE "delay"
        /\ UNCHANGED <<call, dest, media, cache, type, before, failed, wrapped, calls>>
    BY DEF Program, otherVars
  <1>4. /\ \A d \in Drives : dev[d] = Quiet
        /\ call.n \in 1..(CountLimit - 1) /\ CountLimit \in Nat
        /\ chunks = <<[from |-> 0, n |-> call.n]>>
    BY <1>3, WidthAssumption DEF IInv, CallOK
  <1>5. AskedOK /\ call.drive \in Drives /\ call.lba \in Start[call.drive]
        /\ call.op \in {"read", "write"}
    BY <1>3 DEF DataInv, AskedOK
  <1>6. sectors = call.n /\ call.n # 0 /\ Head(chunks).from = 0
    BY <1>4 DEF sectors
  <1>7. call.lba \in Nat /\ c.at = call.lba /\ c.left = call.n
    <2>1. call.lba \in Nat /\ call.lba + 0 = call.lba /\ Address(call.drive, TaskFile(call.drive, call.lba)) = call.lba
      BY <1>5, AddressOfCall
    <2> QED
      BY <1>1, <1>4, <1>6, <2>1 DEF f, SectorCount
  <1>8. /\ dev'[call.drive].phase = "settling" /\ dev'[call.drive].cmd = call.op
        /\ dev'[call.drive].at = call.lba /\ dev'[call.drive].left = call.n
    BY <1>1, <1>2, <1>4, <1>5, <1>7, AcceptQuiet, QuietFields DEF IInv
  <1>9. pc' = "delay"
    BY <1>3, <1>6
  <1>10. CarriedOK'
    BY <1>3, <1>4, <1>7, <1>8 DEF CarriedOK, Sent
  <1>11. ReadOK'
    BY <1>3, <1>9 DEF ReadOK, Moved
  <1>12. WriteOK' \/ call.op # "write"
    BY <1>3, <1>7, <1>8, <1>9 DEF WriteOK, Stored, Active
  <1>13. AskedOK' /\ ActiveOK' /\ WaitingOK' /\ DoneOK'
    BY <1>3, <1>5, <1>9, <1>10, <1>11, <1>12 DEF AskedOK, ActiveOK, WaitingOK, DoneOK
  <1>14. SectorsOK' /\ call'.op # "none"
    BY <1>3, <1>5, ConfinedKept DEF DataInv
  <1> QED
    BY <1>13, <1>14 DEF DataInv

\* A packet device is neither written nor given a command that writes.
LEMMA PacketData ==
  ASSUME IInv, DataInv, ~wrapped, ReadPacket \/ WritePacket
  PROVE  DataInv'
  <1> USE DEF Moving, Flushing
  <1>1. /\ UNCHANGED <<call, dest, media, cache, type, before, failed, wrapped>>
        /\ pc = "program" /\ type[call.drive] = "IDE_ATAPI"
    BY DEF ReadPacket, WritePacket, otherVars
  <1>2. AskedOK' /\ SectorsOK' /\ call'.op # "none"
    BY <1>1, ConfinedKept DEF DataInv, AskedOK
  <1>3. pc' \in {"idle", "waitIDEIRQ"} /\ ~Countable'
    <2>1. Len(chunks) = 1
      BY <1>1 DEF IInv, CallOK
    <2> QED
      BY <1>1, <2>1 DEF ReadPacket, WritePacket, NextPiece, Countable
  <1>4. WaitingOK'
    <2>1. CASE ReadPacket
      <3> DEFINE c == [Quiet EXCEPT !.cmd = "packet"]
      <3>1. DOMAIN c = Fields /\ c.cmd = "packet" /\ Accept(call.drive, c)
        BY <2>1 DEF Quiet, Fields, ReadPacket
      <3> HIDE DEF c
      <3>2. call.drive \in Drives /\ \A d \in Drives : dev[d] = Quiet
        BY <1>1 DEF DataInv, AskedOK, IInv
      <3>3. \A d \in Drives : dev'[d].cmd \in {"none", "packet"}
        BY <3>1, <3>2, AcceptQuiet, QuietFields DEF IInv
      <3> QED
        BY <3>3 DEF WaitingOK
    <2>2. CASE WritePacket
      <3>1. Len(chunks) = 1
        BY <1>1 DEF IInv, CallOK
      <3> QED
        BY <2>2, <3>1 DEF WritePacket, NextPiece, WaitingOK
    <2> QED
      BY <2>1, <2>2
  <1>5. ActiveOK' /\ DoneOK'
    BY <1>3 DEF ActiveOK, DoneOK, Active
  <1> QED
    BY <1>2, <1>4, <1>5 DEF DataInv

LEMMA WaitData ==
  ASSUME IInv, DataInv, ~wrapped, Delay \/ Poll \/ FlushDelay
  PROVE  DataInv'
  <1> USE DEF Moving, Flushing
  <1>1. /\ UNCHANGED <<call, moved, dest, drive, dev, media, cache, type, before, failed, wrapped, calls>>
        /\ \/ pc = "delay" /\ pc' = "poll"
           \/ pc = "poll" /\ pc' = "transfer"
           \/ pc = "flushDelay" /\ pc' = "flushPoll"
    BY DEF Delay, Poll, FlushDelay, otherVars
  <1>2. AskedOK' /\ SectorsOK' /\ call'.op # "none" /\ WaitingOK'
    BY <1>1, ConfinedKept DEF DataInv, AskedOK, WaitingOK
  <1>3. Active /\ Active' /\ (Countable' => Countable)
    BY <1>1 DEF Active, Countable
  <1>4. CarriedOK => CarriedOK'
    BY <1>1 DEF CarriedOK, Sent
  <1>5. ReadOK => ReadOK'
    BY <1>1 DEF ReadOK, Moved
  <1>6. WriteOK => WriteOK'
    <2>1. Stored' = Stored
      BY <1>1, <1>3 DEF Stored
    <2> QED
      BY <1>1, <2>1 DEF WriteOK, Content
  <1>7. ActiveOK' /\ DoneOK'
    BY <1>1, <1>3, <1>4, <1>5, <1>6 DEF DataInv, ActiveOK, DoneOK
  <1> QED
    BY <1>2, <1>7 DEF DataInv

\* The sector the drive holds goes to its place in the buffer.
LEMMA ReadSectorData ==
  ASSUME IInv, DataInv, ~wrapped, ReadSector
  PROVE  DataInv'
  <1> USE DEF Moving, Flushing
  <1> DEFINE c == dev[drive]
             e == IF c.phase # "drq" THEN c
                  ELSE IF c.left = 1 THEN Quiet
                  ELSE [c EXCEPT !.phase = "busy", !.at = @ + 1, !.left = @ - 1, !.word = Garbage]
  <1>1. /\ UNCHANGED <<call, drive, media, cache, type, before, failed, wrapped, calls>>
        /\ pc = "transfer" /\ call.op = "read"
        /\ moved' = moved + 1 /\ pc' = IF moved + 1 = sectors THEN "flush" ELSE "delay"
        /\ dest' = [dest EXCEPT ![Head(chunks).from + moved] =
                      IF c.phase = "drq" THEN c.word ELSE Garbage]
    BY DEF ReadSector, AfterSector, otherVars
  <1>2. dev' = [dev EXCEPT ![drive] = e]
    BY DEF ReadSector
  <1>3. DOMAIN c = Fields /\ dev'[drive] = e
    BY <1>2 DEF IInv, TypeInv
  <1>4. /\ MovingOK /\ failed \in BOOLEAN
        /\ call.n \in 1..(CountLimit - 1) /\ CountLimit \in Nat
        /\ chunks = <<[from |-> 0, n |-> call.n]>>
    BY <1>1, WidthAssumption DEF IInv, TypeInv, CallOK
  <1>5. sectors = call.n /\ Head(chunks).from = 0 /\ moved \in 0..(call.n - 1)
    BY <1>4 DEF sectors, MovingOK
  <1>6. /\ AskedOK /\ ActiveOK /\ DoneOK /\ SectorsOK /\ WaitingOK
        /\ Active /\ drive = call.drive /\ type[drive] = "IDE_ATA" /\ CarriedOK
    BY <1>1 DEF DataInv, ActiveOK, Active
  <1>7. call.lba \in Nat /\ DOMAIN dest = 0..(call.n - 1)
    BY <1>1, <1>6, AddressOfCall DEF AskedOK
  <1>8. AskedOK' /\ SectorsOK' /\ call'.op # "none"
    BY <1>1, <1>6, ConfinedKept DEF AskedOK
  <1>9. pc' \in {"delay", "flush"}
    BY <1>1
  <1>10. ~failed => c.cmd = "read" /\ c.phase = "drq" /\ c.left = call.n - moved
    BY <1>1, <1>4 DEF MovingOK, Sent
  <1>11. failed => e = Quiet
    BY <1>4, QuietFields DEF MovingOK
  <1>12. ~failed => c.at \in Nat /\ c.at = call.lba + moved /\ c.word = before[drive][c.at]
    <2>1. ASSUME ~failed
          PROVE  /\ c.at \in Nat /\ c.at + c.left = call.lba + call.n
                 /\ c.word = before[drive][c.at]
      BY <1>6, <1>10, <2>1 DEF CarriedOK
    <2>2. ASSUME ~failed PROVE c.at = call.lba + moved
      <3>1. PICK a \in Nat : a = c.at
        BY <2>1, <2>2
      <3>2. PICK b \in Nat : b = call.lba
        BY <1>7
      <3>3. PICK k \in Nat : k = call.n
        BY <1>4
      <3>4. PICK j \in Nat : j = moved
        BY <1>4, <1>5
      <3>5. a + (k - j) = b + k
        <4>1. c.left = k - j
          BY <1>10, <2>2, <3>3, <3>4
        <4> QED
          BY <2>1, <2>2, <3>1, <3>2, <3>3, <4>1
      <3>6. a = b + j
        BY <3>5
      <3> QED
        BY <3>1, <3>2, <3>4, <3>6
    <2> QED
      BY <2>1, <2>2
  <1>13. CarriedOK'
    <2>1. CASE e = Quiet
      BY <1>1, <1>3, <2>1, QuietFields DEF CarriedOK
    <2>2. CASE ~failed /\ c.left # 1
      <3>1. /\ e.cmd = "read" /\ e.phase = "busy" /\ e.at = c.at + 1 /\ e.left = c.left - 1
        BY <1>3, <1>10, <2>2 DEF Fields
      <3> HIDE DEF e, c
      <3>2. /\ e.at \in Nat /\ e.at >= call.lba /\ e.at + e.left = call.lba + call.n
        <4>1. c.at = call.lba + moved /\ c.left = call.n - moved
          BY <1>10, <1>12, <2>2
        <4>2. PICK b \in Nat : b = call.lba
          BY <1>7
        <4>3. PICK k \in Nat : k = call.n
          BY <1>4
        <4>4. PICK j \in Nat : j = moved
          BY <1>4, <1>5
        <4>5. e.at = b + j + 1 /\ e.left = k - j - 1
          BY <3>1, <4>1, <4>2, <4>3, <4>4
        <4>6. b + j + 1 \in Nat /\ b + j + 1 >= b /\ b + j + 1 + (k - j - 1) = b + k
          OBVIOUS
        <4> QED
          BY <4>2, <4>3, <4>5, <4>6
      <3> QED
        BY <1>1, <1>3, <3>1, <3>2 DEF CarriedOK, Sent
    <2> QED
      BY <1>4, <1>10, <1>11, <2>1, <2>2
  <1>14. ASSUME ~failed, Countable PROVE ReadOK'
    <2>1. \A i \in 0..(moved - 1) : dest[i] = before[call.drive][call.lba + i]
      BY <1>1, <1>6, <1>14 DEF DoneOK, ReadOK, Moved
    <2>2. dest' = [dest EXCEPT ![moved] = before[call.drive][call.lba + moved]]
      <3>1. Head(chunks).from + moved = moved
        BY <1>5
      <3> QED
        BY <1>1, <1>6, <1>10, <1>12, <1>14, <3>1
    <2>3. \A i \in 0..moved : dest'[i] = before[call.drive][call.lba + i]
      <3>1. ASSUME NEW i \in 0..moved PROVE dest'[i] = before[call.drive][call.lba + i]
        <4>1. i \in 0..(call.n - 1) /\ (i = moved \/ i \in 0..(moved - 1))
          BY <1>4, <1>5
        <4> QED
          BY <1>7, <2>1, <2>2, <4>1
      <3> QED
        BY <3>1
    <2>4. Moved' = moved + 1
      BY <1>1, <1>5, <1>9 DEF Moved
    <2>5. 0..(Moved' - 1) = 0..moved
      BY <1>5, <2>4
    <2>6. \A i \in 0..(Moved' - 1) : dest'[i] = before[call.drive][call.lba + i]
      BY <2>3, <2>5
    <2> QED
      BY <1>1, <1>9, <2>6 DEF ReadOK
  <1>15. ActiveOK' /\ WaitingOK'
    BY <1>1, <1>6, <1>9, <1>13 DEF ActiveOK, WaitingOK
  <1>16. DoneOK'
    <2>1. Countable' => Countable
      BY <1>1 DEF Countable
    <2> QED
      BY <1>1, <1>14, <2>1 DEF DoneOK
  <1> QED
    BY <1>8, <1>15, <1>16 DEF DataInv

\* A sector of the buffer goes to the drive; no sector has changed yet.
LEMMA WriteSectorData ==
  ASSUME IInv, DataInv, ~wrapped, WriteSector
  PROVE  DataInv'
  <1> USE DEF Moving, Flushing
  <1> DEFINE c == dev[drive]
             w == <<calls, Head(chunks).from + moved>>
             e == IF c.phase # "drq" THEN c
                  ELSE [c EXCEPT !.phase = "busy", !.word = w]
  <1>1. /\ UNCHANGED <<call, dest, drive, media, cache, type, before, failed, wrapped, calls>>
        /\ pc = "transfer" /\ call.op = "write"
        /\ moved' = moved + 1 /\ pc' = IF moved + 1 = sectors THEN "flush" ELSE "delay"
    BY DEF WriteSector, AfterSector, otherVars
  <1>2. dev' = [dev EXCEPT ![drive] = e]
    BY DEF WriteSector
  <1>3. DOMAIN c = Fields /\ dev'[drive] = e
    BY <1>2 DEF IInv, TypeInv
  <1>4. /\ MovingOK /\ failed \in BOOLEAN
        /\ call.n \in 1..(CountLimit - 1) /\ CountLimit \in Nat
        /\ chunks = <<[from |-> 0, n |-> call.n]>>
    BY <1>1, WidthAssumption DEF IInv, TypeInv, CallOK
  <1>5. Head(chunks).from + moved = moved /\ moved \in 0..(call.n - 1)
    BY <1>4 DEF MovingOK
  <1>6. /\ AskedOK /\ ActiveOK /\ DoneOK /\ SectorsOK /\ WaitingOK
        /\ Active /\ drive = call.drive /\ type[drive] = "IDE_ATA" /\ CarriedOK
    BY <1>1 DEF DataInv, ActiveOK, Active
  <1>7. call.lba \in Nat
    BY <1>1, <1>6, AddressOfCall DEF AskedOK
  <1>8. AskedOK' /\ SectorsOK' /\ call'.op # "none"
    BY <1>1, <1>6, ConfinedKept DEF AskedOK
  <1>9. pc' \in {"delay", "flush"}
    BY <1>1
  <1>10. ~failed => c.cmd = "write" /\ c.phase = "drq" /\ c.left = call.n - moved
    BY <1>1, <1>4 DEF MovingOK, Sent
  <1>11. failed => e = Quiet /\ c = Quiet
    BY <1>4, QuietFields DEF MovingOK
  <1>12. ~failed =>
           /\ e.cmd = "write" /\ e.phase = "busy" /\ e.at = c.at /\ e.left = c.left
           /\ e.word = <<calls, moved>>
    BY <1>3, <1>5, <1>10 DEF Fields
  <1> HIDE DEF e
  <1>13. ~failed => c.at \in Nat /\ c.at + c.left = call.lba + call.n /\ c.at >= call.lba /\ c.at \in Lbas
    BY <1>6, <1>10 DEF CarriedOK
  <1>14. ~failed => moved = c.at - call.lba
    BY <1>4, <1>5, <1>7, <1>10, <1>13
  <1>15. CarriedOK'
    <2>1. CASE failed
      BY <1>1, <1>3, <1>11, <2>1, QuietFields DEF CarriedOK
    <2>2. CASE ~failed
      BY <1>1, <1>3, <1>12, <1>13, <1>14, <2>2 DEF CarriedOK, Sent
    <2> QED
      BY <1>4, <2>1, <2>2
  <1>16. ASSUME ~failed, Countable PROVE WriteOK'
    <2>1. WriteOK /\ Stored = c.at
      BY <1>1, <1>6, <1>10, <1>16 DEF DoneOK, Stored
    <2>2. Stored' = c.at
      BY <1>1, <1>3, <1>9, <1>12, <1>16 DEF Stored, Active
    <2> QED
      BY <1>1, <2>1, <2>2 DEF WriteOK, Content
  <1>17. ActiveOK' /\ WaitingOK'
    BY <1>1, <1>6, <1>9, <1>15 DEF ActiveOK, WaitingOK
  <1>18. DoneOK'
    <2>1. Countable' => Countable
      BY <1>1 DEF Countable
    <2> QED
      BY <1>1, <1>16, <2>1 DEF DoneOK
  <1> QED
    BY <1>8, <1>17, <1>18 DEF DataInv

\* The flush behind a read is taken, for nothing is left to be stored.
LEMMA CacheFlushData ==
  ASSUME IInv, DataInv, ~wrapped, CacheFlush
  PROVE  DataInv'
  <1> USE DEF Moving, Flushing
  <1> DEFINE c == [Quiet EXCEPT !.cmd = "flush"]
  <1>1. DOMAIN c = Fields /\ c.cmd = "flush" /\ Accept(drive, c)
    BY DEF Quiet, Fields, CacheFlush
  <1> HIDE DEF c
  <1>2. /\ UNCHANGED <<call, dest, drive, media, cache, type, before, failed, wrapped, calls>>
        /\ pc = "flush" /\ pc' = "flushDelay"
    BY DEF CacheFlush, otherVars
  <1>3. /\ AskedOK /\ ActiveOK /\ DoneOK /\ SectorsOK /\ WaitingOK /\ FlushingOK /\ TypeInv
        /\ Active /\ drive = call.drive /\ type[drive] = "IDE_ATA" /\ CarriedOK
    BY <1>2 DEF DataInv, ActiveOK, Active, IInv
  <1>4. AskedOK' /\ SectorsOK' /\ call'.op # "none"
    BY <1>2, <1>3, ConfinedKept DEF AskedOK, DataInv
  <1>5. \/ dev[drive] = Quiet /\ dev'[drive].cmd = "flush" /\ dev'[drive].phase = "settling"
        \/ /\ Sent(dev[drive]) /\ dev'[drive] = dev[drive]
           /\ call.op = "write"
    <2>1. CASE dev[drive] = Quiet
      BY <1>1, <1>3, <2>1, AcceptQuiet, QuietFields DEF TypeInv
    <2>2. CASE Sent(dev[drive])
      BY <1>1, <1>3, <2>2, AcceptQuiet DEF TypeInv, Sent, CarriedOK
    <2> QED
      BY <1>2, <1>3, <2>1, <2>2 DEF FlushingOK
  <1>6. CarriedOK'
    BY <1>2, <1>3, <1>5 DEF CarriedOK, Sent
  <1>7. ReadOK => ReadOK' \/ call.op = "write"
    BY <1>2, <1>5 DEF ReadOK, Moved
  <1>8. WriteOK => WriteOK'
    <2>1. Stored' = Stored
      BY <1>2, <1>5, QuietFields DEF Stored, Active
    <2> QED
      BY <1>2, <2>1 DEF WriteOK, Content
  <1>9. ActiveOK' /\ WaitingOK'
    BY <1>2, <1>3, <1>6 DEF ActiveOK, WaitingOK
  <1>10. DoneOK'
    BY <1>2, <1>3, <1>7, <1>8 DEF DoneOK, Countable
  <1> QED
    BY <1>4, <1>9, <1>10 DEF DataInv

\* The drive is done: with the flush, after a read.
LEMMA ReturnData ==
  ASSUME IInv, DataInv, ~wrapped, Return
  PROVE  DataInv'
  <1> USE DEF Moving, Flushing
  <1>1. /\ UNCHANGED <<call, dest, drive, dev, media, cache, type, before, failed, wrapped, calls>>
        /\ pc = "flushPoll" /\ dev[drive].phase # "busy"
        /\ pc' = IF Len(chunks) = 1 THEN "idle" ELSE "program"
    BY DEF Return, NextPiece, Bsy, otherVars
  <1>2. Len(chunks) = 1
    BY <1>1 DEF IInv, CallOK
  <1>3. /\ AskedOK /\ ActiveOK /\ DoneOK /\ SectorsOK /\ FlushingOK
        /\ Active /\ drive = call.drive /\ call.op # "none"
    BY <1>1 DEF DataInv, ActiveOK, Active, IInv
  <1>4. AskedOK' /\ SectorsOK' /\ call'.op # "none"
    BY <1>1, <1>3, ConfinedKept DEF AskedOK
  <1>5. dev[drive].cmd = "none"
    BY <1>1, <1>3, QuietFields DEF FlushingOK, Sent
  <1>6. ReadOK => ReadOK'
    BY <1>1, <1>2, <1>3, <1>5 DEF ReadOK, Moved
  <1>7. WriteOK => WriteOK'
    <2>1. Stored' = Stored
      BY <1>1, <1>2, <1>5 DEF Stored, Active
    <2> QED
      BY <1>1, <2>1 DEF WriteOK, Content
  <1>8. ActiveOK' /\ WaitingOK'
    BY <1>1, <1>2 DEF ActiveOK, WaitingOK, Active
  <1>9. DoneOK'
    BY <1>1, <1>2, <1>3, <1>6, <1>7 DEF DoneOK, Countable
  <1> QED
    BY <1>4, <1>8, <1>9 DEF DataInv

\* Which drive can do something, and what.
LEMMA DeviceActive ==
  ASSUME IInv, DataInv, ~wrapped, NEW d \in Drives, Device(d)
  PROVE  /\ UNCHANGED <<pc, call, chunks, moved, dest, drive, type, before, wrapped, calls>>
         /\ AskedOK /\ ActiveOK /\ DoneOK /\ SectorsOK /\ WaitingOK /\ TypeInv
         /\ AskedOK' /\ call'.op # "none" /\ call.op # "none"
         /\ Active \/ pc = "waitIDEIRQ"
         /\ Active => /\ d = drive /\ drive = call.drive /\ CarriedOK
                      /\ pc \in Moving => MovingOK
                      /\ pc \in Flushing => FlushingOK
  <1> USE DEF Moving, Flushing
  <1>1. UNCHANGED <<pc, call, chunks, moved, dest, drive, type, before, wrapped, calls>>
    BY DEF Device, Settle, DataReady, Store, Flushed, PacketReady, Fail, driverVars, otherVars
  <1>2. dev[d] # Quiet
    BY DeviceTypes
  <1>3. Active \/ pc = "waitIDEIRQ"
    BY <1>2 DEF IInv, TypeInv, Active
  <1>4. Active => d = drive
    BY <1>2 DEF IInv, Active
  <1>5. AskedOK /\ AskedOK'
    BY <1>1 DEF DataInv, AskedOK
  <1> QED
    BY <1>1, <1>3, <1>4, <1>5 DEF DataInv, ActiveOK, Active, IInv

\* Only what a command for a packet device can lead to.
LEMMA DeviceWaiting ==
  ASSUME IInv, DataInv, ~wrapped, NEW d \in Drives, Device(d), pc = "waitIDEIRQ"
  PROVE  DataInv'
  <1> USE DeviceActive
  <1>1. dev[d].cmd \in {"none", "packet"} /\ \A e \in Drives : dev[e].cmd \in {"none", "packet"}
    BY DEF WaitingOK
  <1>2. UNCHANGED <<media, cache>> /\ dev'[d].cmd \in {"none", "packet"}
    <2>1. UNCHANGED <<media, cache>> /\ (Settle(d) \/ PacketReady(d) \/ Fail(d))
      BY <1>1 DEF Device, Settle, DataReady, Store, Flushed, PacketReady, Fail, otherVars
    <2>2. d \in DOMAIN dev /\ DOMAIN dev[d] = Fields
      BY DEF TypeInv
    <2>3. dev'[d].cmd = dev[d].cmd \/ dev'[d] = Quiet
      BY <2>1, <2>2 DEF Settle, PacketReady, Fail, Fields
    <2> QED
      BY <1>1, <2>1, <2>3, QuietFields
  <1>3. WaitingOK'
    BY <1>1, <1>2, DeviceTypes DEF WaitingOK
  <1>4. SectorsOK'
    BY <1>2, ConfinedKept
  <1>5. ActiveOK' /\ DoneOK'
    BY DEF ActiveOK, DoneOK, Active, Moving, Flushing
  <1> QED
    BY <1>3, <1>4, <1>5 DEF DataInv

\* Steps that leave the contents alone.
LEMMA DeviceSame ==
  ASSUME IInv, DataInv, ~wrapped, NEW d \in Drives, Device(d), Active,
         UNCHANGED <<media, cache>>, CarriedOK', Stored' = Stored,
         \/ failed'
         \/ UNCHANGED failed /\ dev'[drive].cmd = dev[drive].cmd
  PROVE  DataInv'
  <1> USE DeviceActive
  <1>1. Active'
    BY DEF Active
  <1>2. SectorsOK'
    BY ConfinedKept
  <1>3. WriteOK => WriteOK'
    BY DEF WriteOK, Content
  <1>4. ReadOK /\ ~failed' => ReadOK'
    BY DEF ReadOK, Moved
  <1>5. DoneOK'
    BY <1>3, <1>4 DEF DoneOK, Countable, Active
  <1>6. ActiveOK' /\ WaitingOK'
    BY <1>1 DEF ActiveOK, WaitingOK, Active, Moving, Flushing
  <1> QED
    BY <1>2, <1>5, <1>6 DEF DataInv

LEMMA SettleData ==
  ASSUME IInv, DataInv, ~wrapped, NEW d \in Drives, Settle(d), Active
  PROVE  DataInv'
  <1> DEFINE c == dev[drive]
  <1>1. Device(d)
    BY DEF Device
  <1> USE <1>1, DeviceActive
  <1>2. /\ dev'[drive] = [c EXCEPT !.phase = "busy"] /\ DOMAIN c = Fields /\ c.phase = "settling"
        /\ UNCHANGED <<media, cache, failed>>
    BY DEF Settle, TypeInv, otherVars
  <1>3. c.cmd = "write" => c.word = Garbage
    BY <1>2, QuietFields DEF MovingOK, FlushingOK, Sent, Active, Moving, Flushing
  <1>4. CarriedOK'
    BY <1>2, <1>3 DEF CarriedOK, Sent, Fields
  <1>5. Stored' = Stored /\ dev'[drive].cmd = dev[drive].cmd
    BY <1>2 DEF Stored, Active, Fields
  <1> QED
    BY <1>2, <1>4, <1>5, DeviceSame

\* What the drive reads is what the sector held when the call began.
LEMMA DataReadyData ==
  ASSUME IInv, DataInv, ~wrapped, NEW d \in Drives, DataReady(d), Active
  PROVE  DataInv'
  <1> DEFINE c == dev[drive]
             w == IF c.cmd = "read" THEN Content(d, c.at) ELSE Garbage
  <1>1. Device(d)
    BY DEF Device
  <1> USE <1>1, DeviceActive
  <1>2. /\ dev'[drive] = [c EXCEPT !.phase = "drq", !.word = w] /\ DOMAIN c = Fields
        /\ UNCHANGED <<media, cache, failed>> /\ c.at \in Lbas /\ c.cmd \in {"read", "write"}
    BY DEF DataReady, TypeInv, otherVars, Reachable
  <1>3. c.cmd = "read" => w = before[drive][c.at]
    BY <1>2 DEF SectorsOK, Confined, CarriedOK
  <1> HIDE DEF w
  <1>4. CarriedOK'
    <2>1. /\ dev'[drive].phase = "drq" /\ dev'[drive].word = w /\ dev'[drive].cmd = c.cmd
          /\ dev'[drive].at = c.at /\ dev'[drive].left = c.left
      BY <1>2 DEF Fields
    <2>2. ~Sent(dev[drive])'
      BY <2>1 DEF Sent
    <2> HIDE DEF c
    <2> QED
      BY <1>2, <1>3, <2>1, <2>2 DEF CarriedOK, c
  <1>5. Stored' = Stored /\ dev'[drive].cmd = dev[drive].cmd
    BY <1>2 DEF Stored, Active, Fields
  <1> QED
    BY <1>2, <1>4, <1>5, DeviceSame

\* An error ends the call's promises, but not those about other sectors.
LEMMA FailData ==
  ASSUME IInv, DataInv, ~wrapped, NEW d \in Drives, Fail(d), Active
  PROVE  DataInv'
  <1>1. Device(d)
    BY DEF Device
  <1> USE <1>1, DeviceActive
  <1>2. dev'[drive] = Quiet /\ UNCHANGED <<media, cache>> /\ failed'
    BY DEF Fail, TypeInv
  <1>3. CarriedOK'
    BY <1>2, QuietFields DEF CarriedOK
  <1>4. Active'
    BY DEF Active
  <1>5. SectorsOK'
    BY <1>2, ConfinedKept
  <1>6. ActiveOK' /\ WaitingOK' /\ DoneOK'
    BY <1>2, <1>3, <1>4 DEF ActiveOK, WaitingOK, DoneOK, Active, Moving, Flushing
  <1> QED
    BY <1>5, <1>6 DEF DataInv

\* A flush moves what the sectors hold, and leaves nothing in the cache.
LEMMA FlushedData ==
  ASSUME IInv, DataInv, ~wrapped, NEW d \in Drives, Flushed(d), Active
  PROVE  DataInv'
  <1>1. Device(d)
    BY DEF Device
  <1> USE <1>1, DeviceActive
  <1>2. /\ dev'[drive] = Quiet /\ dev[drive].cmd = "flush" /\ UNCHANGED failed
        /\ media' = [media EXCEPT ![d] = [l \in Lbas |-> Content(d, l)]]
        /\ cache' = [cache EXCEPT ![d] = <<>>]
    BY DEF Flushed, TypeInv, otherVars
  <1>3. \A e \in Drives, l \in Lbas : Content(e, l)' = Content(e, l)
    <2>1. ASSUME NEW e \in Drives, NEW l \in Lbas PROVE Content(e, l)' = Content(e, l)
      <3>1. e # d => media'[e] = media[e] /\ cache'[e] = cache[e]
        BY <1>2 DEF SectorsOK
      <3>2. e = d => media'[e][l] = Content(e, l) /\ cache'[e] = <<>>
        BY <1>2 DEF SectorsOK
      <3>3. l \notin DOMAIN <<>>
        OBVIOUS
      <3> QED
        BY <3>1, <3>2, <3>3 DEF Content
    <2> QED
      BY <2>1
  <1>4. SectorsOK'
    <2>1. Asked' = Asked
      BY DEF Asked
    <2> QED
      BY <1>2, <1>3, <2>1 DEF SectorsOK, Confined
  <1>5. CarriedOK'
    BY <1>2, QuietFields DEF CarriedOK
  <1>6. Active'
    BY DEF Active
  <1>7. ReadOK => ReadOK'
    BY <1>2 DEF ReadOK, Moved, SectorsOK, Active, Moving, Flushing
  <1>8. WriteOK => WriteOK'
    <2>1. Stored' = Stored /\ call.drive \in Drives
      BY <1>2, QuietFields DEF Stored, Active
    <2> QED
      BY <1>3, <2>1 DEF WriteOK
  <1>9. ActiveOK' /\ WaitingOK'
    BY <1>5, <1>6 DEF ActiveOK, WaitingOK, Active, Moving, Flushing
  <1>10. DoneOK'
    BY <1>2, <1>7, <1>8 DEF DoneOK, Countable, Active
  <1> QED
    BY <1>4, <1>9, <1>10 DEF DataInv

\* A sector that the drive stores is one of those asked for, and is the one
\* that belongs there.
LEMMA StoreData ==
  ASSUME IInv, DataInv, ~wrapped, NEW d \in Drives, Store(d), Active
  PROVE  DataInv'
  <1> DEFINE c == dev[drive]
             e == IF c.left = 1 THEN Quiet
                  ELSE [c EXCEPT !.at = c.at + 1, !.left = c.left - 1, !.word = Garbage]
  <1>1. Device(d)
    BY DEF Device
  <1> USE <1>1, DeviceActive
  <1>2. /\ dev'[drive] = e /\ DOMAIN c = Fields /\ Sent(c)
        /\ UNCHANGED <<media, failed>>
        /\ cache' = [cache EXCEPT ![d] = Overwrite(cache[d], c.at, c.word)]
    BY DEF Store, TypeInv, otherVars, Sent, Bsy
  <1>3. /\ call.op = "write" /\ c.at \in Nat /\ c.at >= call.lba /\ c.at \in Lbas
        /\ c.at + c.left = call.lba + call.n /\ c.word = <<calls, c.at - call.lba>>
    BY <1>2 DEF CarriedOK, Sent
  <1>4. call.lba \in Nat /\ call.n \in Nat \ {0} /\ call.drive \in Drives /\ d = call.drive
        /\ type[d] = "IDE_ATA"
    BY AddressOfCall DEF AskedOK, ActiveOK
  <1>5. c.left \in Nat \ {0}
    <2>1. CASE pc \in Moving
      <3>1. MovingOK /\ failed \in BOOLEAN /\ ~failed
        BY <1>2, <2>1, QuietFields DEF MovingOK, Sent, TypeInv
      <3>2. moved \in 0..(call.n - 1) /\ c.left = call.n - moved + 1
        BY <1>2, <3>1 DEF MovingOK
      <3> QED
        BY <1>4, <3>2
    <2>2. CASE pc \in Flushing
      BY <1>2, <2>2, QuietFields DEF FlushingOK, Sent
    <2> QED
      BY <2>1, <2>2 DEF Active
  <1>6. c.at \in Asked
    <2> HIDE DEF c
    <2> QED
      BY <1>3, <1>4, <1>5 DEF Asked
  <1>7. PICK a : a = c.at
    OBVIOUS
  <1>8. /\ Content(d, a)' = c.word
         /\ \A k \in Drives, l \in Lbas : k # d \/ l # a => Content(k, l)' = Content(k, l)
    <2>1. cache'[d] = Overwrite(cache[d], a, c.word) /\ \A k \in Drives \ {d} : cache'[k] = cache[k]
      BY <1>2, <1>7 DEF SectorsOK
    <2>2. ASSUME NEW l PROVE /\ l \in DOMAIN cache'[d] <=> l \in DOMAIN cache[d] \/ l = a
                             /\ l = a => cache'[d][l] = c.word
                             /\ l # a /\ l \in DOMAIN cache[d] => cache'[d][l] = cache[d][l]
      BY <2>1 DEF Overwrite
    <2> HIDE DEF c
    <2> QED
      BY <1>2, <2>1, <2>2 DEF Content
  <1>9. SectorsOK'
    <2>1. Asked' = Asked
      BY DEF Asked
    <2>2. DOMAIN media' = Drives /\ DOMAIN cache' = Drives
      BY <1>2 DEF SectorsOK
    <2>3. ASSUME NEW k \in Drives, NEW l \in Lbas,
                 call.op = "read" \/ k # call.drive \/ l \notin Asked \/ type[k] = "IDE_ATAPI"
          PROVE  Content(k, l)' = before[k][l]
      <3>1. Content(k, l) = before[k][l]
        BY <2>3 DEF SectorsOK, Confined
      <3>2. k # d \/ l # c.at
        BY <1>3, <1>4, <1>6, <2>3
      <3> QED
        BY <1>7, <1>8, <3>1, <3>2
    <2> QED
      BY <2>1, <2>2, <2>3 DEF SectorsOK, Confined
  <1>10. c.left # 1 => e.cmd = "write" /\ e.phase = "busy" /\ e.at = c.at + 1 /\ e.left = c.left - 1
                      /\ e.word = Garbage
    BY <1>2 DEF Fields, Sent
  <1>11. CarriedOK'
    <2>1. CASE c.left = 1
      BY <1>2, <2>1, QuietFields DEF CarriedOK
    <2>2. CASE c.left # 1
      <3> HIDE DEF e, c
      <3>1. e.at \in Nat /\ e.at >= call.lba /\ e.at + e.left = call.lba + call.n
        BY <1>3, <1>4, <1>5, <1>10, <2>2
      <3> QED
        BY <1>2, <1>3, <1>10, <2>2, <3>1 DEF CarriedOK, Sent
    <2> QED
      BY <2>1, <2>2
  <1>12. Stored = c.at /\ Stored' = c.at + 1
    <2>1. Stored = c.at
      BY <1>2 DEF Stored, Sent
    <2>2. CASE c.left = 1
      <3>1. Stored' = call.lba + call.n
        BY <1>2, <2>2, QuietFields DEF Stored
      <3> HIDE DEF c
      <3> QED
        BY <1>3, <2>1, <2>2, <3>1
    <2>3. CASE c.left # 1
      <3>1. Stored' = e.at
        BY <1>2, <1>10, <2>3 DEF Stored, Active
      <3> QED
        BY <1>10, <2>1, <2>3, <3>1
    <2> QED
      BY <2>2, <2>3
  <1>13. WriteOK => WriteOK'
    <2>1. ASSUME WriteOK, NEW l \in call.lba..c.at
          PROVE  l \in Lbas /\ Content(call.drive, l)' = <<calls, l - call.lba>>
      <3>1. CASE l = c.at
        BY <1>3, <1>4, <1>7, <1>8, <3>1
      <3>2. CASE l # c.at
        <4>1. l \in call.lba..(c.at - 1)
          <5> HIDE DEF c
          <5> QED
            BY <1>3, <1>4, <3>2
        <4>2. l \in Lbas /\ Content(call.drive, l) = <<calls, l - call.lba>>
          BY <1>12, <2>1, <4>1 DEF WriteOK
        <4> QED
          BY <1>4, <1>7, <1>8, <3>2, <4>2
      <3> QED
        BY <3>1, <3>2
    <2>2. call.lba..(Stored' - 1) = call.lba..c.at
      <3> HIDE DEF c
      <3> QED
        BY <1>3, <1>12
    <2> QED
      BY <2>1, <2>2 DEF WriteOK
  <1>14. Active'
    BY DEF Active
  <1>15. ActiveOK' /\ WaitingOK'
    BY <1>11, <1>14 DEF ActiveOK, WaitingOK, Active, Moving, Flushing
  <1>16. DoneOK'
    BY <1>2, <1>3, <1>13 DEF DoneOK, Countable, Active
  <1> QED
    BY <1>9, <1>15, <1>16 DEF DataInv

LEMMA DeviceData ==
  ASSUME IInv, DataInv, ~wrapped, NEW d \in Drives, Device(d)
  PROVE  DataInv'
  <1>1. CASE pc = "waitIDEIRQ"
    BY <1>1, DeviceWaiting
  <1>2. CASE Active
    <2>1. ~PacketReady(d) \/ failed'
      BY <1>2, DeviceActive, QuietFields
         DEF PacketReady, Bsy, CarriedOK, AskedOK
    <2>2. CASE PacketReady(d)
      BY <1>2, <2>2, DeviceActive DEF PacketReady, CarriedOK, AskedOK
    <2> QED
      BY <1>2, <2>2, SettleData, DataReadyData, StoreData, FlushedData, FailData DEF Device
  <1> QED
    BY <1>1, <1>2, DeviceActive

LEMMA NextData ==
  ASSUME IInv, DataInv, [Next]_vars
  PROVE  DataInv'
  <1>1. CASE wrapped
    <2>1. wrapped'
      BY <1>1 DEF Next, Call, Driver, Program, ReadPacket, WritePacket, Delay, Poll, ReadSector,
                  WriteSector, CacheFlush, FlushDelay, Return, Device, Settle, DataReady, Store,
                  Flushed, PacketReady, Fail, otherVars, vars
    <2> QED
      BY <2>1 DEF DataInv
  <1>2. CASE ~wrapped
    <2>1. CASE \E op \in {"read", "write"}, d \in Drives, n \in Lengths :
                 \E lba \in Start[d] : Call(op, d, lba, n)
      BY <2>1, CallData
    <2>2. CASE Driver
      BY <1>2, <2>2, ProgramData, PacketData, WaitData, ReadSectorData, WriteSectorData,
         CacheFlushData, ReturnData DEF Driver
    <2>3. CASE \E d \in Drives : Device(d)
      BY <1>2, <2>3, DeviceData
    <2>4. CASE UNCHANGED vars
      <3> USE <2>4 DEF vars, driverVars, otherVars
      <3>1. AskedOK' = AskedOK /\ (WaitingOK => WaitingOK') /\ Active' = Active
        BY DEF AskedOK, WaitingOK, Active
      <3>2. SectorsOK => SectorsOK'
        BY ConfinedKept
      <3>3. ActiveOK => ActiveOK'
        BY <3>1 DEF ActiveOK, CarriedOK, Sent
      <3>4. ReadOK => ReadOK'
        BY DEF ReadOK, Moved
      <3>5. WriteOK => WriteOK'
        BY <3>1 DEF WriteOK, Stored, Content
      <3>6. DoneOK => DoneOK'
        BY <3>1, <3>4, <3>5 DEF DoneOK, Countable
      <3> QED
        BY <1>2, <3>1, <3>2, <3>3, <3>6 DEF DataInv
    <2> QED
      BY <2>1, <2>2, <2>3, <2>4 DEF Next
  <1> QED
    BY <1>1, <1>2

LEMMA SpecData == Spec => [](IInv /\ DataInv)
  BY InitIInv, NextIInv, InitData, NextData, PTL DEF Spec

\* A call that no drive has answered with an error leaves in the buffer, or in
\* the drive, exactly the sectors asked for.
THEOREM SectorsExact == Spec => []Exact
  <1>1. DataInv /\ IInv => Exact
    <2> SUFFICES ASSUME DataInv, pc = "idle", Countable, ~failed, ~wrapped
                 PROVE  /\ call.op = "read" =>
                             /\ dest = [i \in 0..(call.n - 1) |-> before[call.drive][call.lba + i]]
                             /\ \A d \in Drives, l \in Lbas : Content(d, l) = before[d][l]
                        /\ call.op = "write" =>
                             \A l \in Asked : Content(call.drive, l) = <<calls, l - call.lba>>
      BY DEF Exact, Countable
    <2>1. AskedOK /\ SectorsOK /\ DoneOK /\ call.op # "none"
      BY DEF DataInv, Countable
    <2>2. call.lba \in Nat /\ call.n \in Nat \ {0} /\ dest = [i \in 0..(call.n - 1) |-> dest[i]]
      BY <2>1, AddressOfCall DEF AskedOK
    <2>3. ASSUME call.op = "read"
          PROVE  /\ dest = [i \in 0..(call.n - 1) |-> before[call.drive][call.lba + i]]
                 /\ \A d \in Drives, l \in Lbas : Content(d, l) = before[d][l]
      <3>1. \A i \in 0..(call.n - 1) : dest[i] = before[call.drive][call.lba + i]
        BY <2>1, <2>3 DEF DoneOK, ReadOK, Moved, Moving
      <3>2. \A d \in Drives, l \in Lbas : Content(d, l) = before[d][l]
        BY <2>1, <2>3 DEF SectorsOK, Confined
      <3> QED
        BY <2>2, <3>1, <3>2
    <2>4. ASSUME call.op = "write", NEW l \in Asked
          PROVE  Content(call.drive, l) = <<calls, l - call.lba>>
      <3>1. WriteOK /\ Stored = call.lba + call.n
        BY <2>1, <2>4 DEF DoneOK, Stored, Active, Moving, Flushing
      <3>2. l \in call.lba..(call.lba + call.n - 1)
        BY <2>4 DEF Asked
      <3>3. Stored - 1 = call.lba + call.n - 1
        BY <2>2, <3>1
      <3>4. l \in call.lba..(Stored - 1)
        BY <3>2, <3>3
      <3> QED
        BY <2>4, <3>1, <3>4 DEF WriteOK
    <2> QED
      BY <2>3, <2>4
  <1> QED
    BY <1>1, SpecData, PTL

\* A write changes no sector but those asked for, not even when the drive
\* fails it half way; a read changes none, and a packet device is not written.
THEOREM WritesConfined == Spec => []Confined
  <1>1. DataInv => Confined
    BY DEF DataInv, SectorsOK, Confined
  <1> QED
    BY <1>1, SpecData, PTL

\* The flush that ends a read is never lost: what was written before is safe.
THEOREM ReadsFlush == Spec => []ReadFlushes
  <1>1. DataInv => ReadFlushes
    BY DEF DataInv, ReadFlushes, Countable, DoneOK, ReadOK, Active
  <1> QED
    BY <1>1, SpecData, PTL

-----------------------------------------------------------------------------
(* What the probe of Startup leaves to the driver: drives at rest.         *)

Probing == main \in {"present", "poll", "signature", "sleep", "read"}

Expected == {u \in DOMAIN machine.drives : machine.drives[u].kind \in {"ata", "packet"}}

\* How far the drive that is being probed has got with its commands.
Progress(u) ==
  LET kind == machine.drives[u].kind IN
  /\ main \in {"present", "poll"} =>
       /\ cmd[u] = "IDENTIFY"
       /\ \/ phase[u] = "busy"
          \/ kind = "ata" /\ phase[u] = "data"
          \/ kind = "packet" /\ phase[u] = "aborted"
  /\ main = "signature" => kind = "packet" /\ phase[u] = "aborted"
  /\ main = "sleep" =>
       kind = "packet" /\ cmd[u] = "IDENTIFY_PACKET" /\ phase[u] \in {"busy", "data"}
  /\ main = "read" => phase[u] = "data"

AtRest(u) == IF Probing /\ u = Selected THEN Progress(u) ELSE phase[u] = "idle"

ProbeInv ==
  /\ DOMAIN phase = DOMAIN machine.drives /\ DOMAIN cmd = DOMAIN machine.drives
  /\ late \in BOOLEAN
  /\ ~late => \A u \in Expected : AtRest(u)

LEMMA InitProbe == StartupInit => ProbeInv
  BY DEF StartupInit, ProbeInv, Expected, AtRest, Probing

\* A step of the driver that leaves the drives alone and looks at none of
\* them leaves them as they are.
LEMMA ElsewhereStep ==
  ASSUME ProbeInv, ~Probing, ~Probing', UNCHANGED <<machine, phase, cmd, late>>
  PROVE  ProbeInv'
  BY DEF ProbeInv, Expected, AtRest

\* The probe goes on to another drive with the last one at rest.
LEMMA LeaveStep ==
  ASSUME ProbeInv, NextDrive, UNCHANGED <<machine, late>>,
         DOMAIN phase' = DOMAIN phase, UNCHANGED cmd,
         ~late => \A u \in Expected : phase'[u] = "idle"
  PROVE  ProbeInv'
  <1>1. ~Probing'
    BY DEF NextDrive, Probing
  <1> QED
    BY <1>1 DEF ProbeInv, Expected, AtRest

\* A drive answers the command that it was given.
LEMMA AnswerProbe ==
  ASSUME ProbeInv, Answers
  PROVE  ProbeInv'
  <1>1. PICK w \in DOMAIN phase : Answer(w)
    BY DEF Answers
  <1>2. /\ phase[w] = "busy" /\ UNCHANGED <<machine, main, todo, driveNo, cmd, late>>
        /\ phase' = [phase EXCEPT ![w] = IF \/ cmd[w] = "IDENTIFY" /\ machine.drives[w].kind = "ata"
                                            \/ cmd[w] = "IDENTIFY_PACKET" /\ machine.drives[w].kind = "packet"
                                         THEN "data" ELSE "aborted"]
    BY <1>1 DEF Answer, history
  <1>3. Selected' = Selected /\ Expected' = Expected /\ Probing' = Probing
    BY <1>2 DEF Selected, channel, Expected, Probing
  <1>4. ASSUME ~late, NEW u \in Expected PROVE AtRest(u)'
    <2>1. AtRest(u) /\ u \in DOMAIN phase
      BY <1>4 DEF ProbeInv, Expected
    <2>2. CASE u # w
      <3>1. phase'[u] = phase[u]
        BY <1>2, <2>1, <2>2
      <3> QED
        BY <1>2, <1>3, <2>1, <3>1 DEF AtRest, Progress
    <2>3. CASE u = w
      <3>1. Probing /\ u = Selected /\ Progress(u)
        BY <1>2, <2>1, <2>3 DEF AtRest
      <3>2. phase'[u] = IF \/ cmd[u] = "IDENTIFY" /\ machine.drives[u].kind = "ata"
                           \/ cmd[u] = "IDENTIFY_PACKET" /\ machine.drives[u].kind = "packet"
                        THEN "data" ELSE "aborted"
        BY <1>2, <2>1, <2>3
      <3>3. machine.drives[u].kind \in {"ata", "packet"}
        BY DEF Expected
      <3>4. Progress(u)'
        BY <1>2, <2>3, <3>1, <3>2, <3>3 DEF Progress, Probing
      <3> QED
        BY <1>3, <3>1, <3>4 DEF AtRest
    <2> QED
      BY <2>2, <2>3
  <1> QED
    BY <1>2, <1>3, <1>4 DEF ProbeInv

\* The drive that is asked, if it is there, gets busy; the others stay.
LEMMA GiveEffect ==
  ASSUME ProbeInv, NEW c, Give(c), UNCHANGED <<machine, todo, driveNo>>
  PROVE  /\ DOMAIN phase' = DOMAIN phase /\ DOMAIN cmd' = DOMAIN cmd
         /\ \A u \in Expected :
              IF u = Selected THEN phase'[u] = "busy" /\ cmd'[u] = c
                              ELSE phase'[u] = phase[u] /\ cmd'[u] = cmd[u]
  BY DEF ProbeInv, Give, Present, Expected

LEMMA IdentifyProbe ==
  ASSUME ProbeInv, Identify
  PROVE  ProbeInv'
  <1>1. /\ main = "identify" /\ main' = "present" /\ Give("IDENTIFY")
        /\ UNCHANGED <<machine, todo, driveNo, late>>
    BY DEF Identify, history
  <1>2. Selected' = Selected /\ Expected' = Expected
    BY <1>1 DEF Selected, channel, Expected
  <1>3. ASSUME ~late, NEW u \in Expected PROVE AtRest(u)'
    <2>1. phase[u] = "idle"
      BY <1>1, <1>3 DEF ProbeInv, AtRest, Probing
    <2> QED
      BY <1>1, <1>2, <2>1, GiveEffect DEF AtRest, Progress, Probing
  <1> QED
    BY <1>1, <1>2, <1>3, GiveEffect DEF ProbeInv

\* What a drive that is there shows is its own.
LEMMA StatusOfPresent ==
  ASSUME Selected \in Expected
  PROVE  /\ Status # {}
         /\ phase[Selected] = "busy" => Status = {"BSY"}
         /\ "ERR" \in Status => phase[Selected] \notin {"idle", "busy", "data"}
  BY DEF Status, Present, Expected

LEMMA PresentProbe ==
  ASSUME ProbeInv, IsPresent
  PROVE  ProbeInv'
  <1>1. main = "present" /\ UNCHANGED <<machine, phase, cmd, late>>
    BY DEF IsPresent, hardware, history
  <1>2. CASE Status = {}
    <2>1. NextDrive /\ Selected \notin Expected
      BY <1>2, StatusOfPresent DEF IsPresent
    <2>2. ~late => \A u \in Expected : phase'[u] = "idle"
      BY <1>1, <2>1 DEF ProbeInv, AtRest
    <2> QED
      BY <1>1, <2>1, <2>2, LeaveStep
  <1>3. CASE Status # {}
    <2>1. main' = "poll" /\ UNCHANGED <<todo, driveNo>>
      BY <1>3 DEF IsPresent
    <2> QED
      BY <1>1, <2>1 DEF ProbeInv, AtRest, Progress, Probing, Expected, Selected, channel
  <1> QED
    BY <1>2, <1>3

LEMMA PollProbe ==
  ASSUME ProbeInv, PollIdentify
  PROVE  ProbeInv'
  <1>1. /\ main = "poll" /\ UNCHANGED <<machine, phase, cmd, late, todo, driveNo>>
        /\ \/ "ERR" \in Status /\ main' = "signature"
           \/ "ERR" \notin Status /\ "BSY" \notin Status /\ main' = "read"
    BY DEF PollIdentify, hardware, history
  <1>2. Selected' = Selected /\ Expected' = Expected /\ Probing /\ Probing'
    BY <1>1 DEF Selected, channel, Expected, Probing
  <1>3. ASSUME ~late, NEW u \in Expected PROVE AtRest(u)'
    <2>1. AtRest(u)
      BY <1>3 DEF ProbeInv
    <2>2. CASE u # Selected
      BY <1>1, <1>2, <2>1, <2>2 DEF AtRest
    <2>3. CASE u = Selected
      <3>1. Progress(u)
        BY <1>2, <2>1, <2>3 DEF AtRest
      <3>2. \/ "ERR" \in Status /\ phase[u] = "aborted" /\ machine.drives[u].kind = "packet"
            \/ "ERR" \notin Status /\ phase[u] = "data"
        <4>1. "ERR" \in Status <=> phase[u] = "aborted"
          BY <1>1, <2>3, <3>1 DEF Status, Present, Expected, Progress
        <4>2. phase[u] # "busy"
          BY <1>1, <2>3, <4>1, StatusOfPresent
        <4> QED
          BY <1>1, <3>1, <4>1, <4>2 DEF Progress
      <3>3. Progress(u)'
        BY <1>1, <3>2 DEF Progress
      <3> QED
        BY <1>2, <2>3, <3>3 DEF AtRest
    <2> QED
      BY <2>2, <2>3
  <1> QED
    BY <1>1, <1>2, <1>3 DEF ProbeInv

LEMMA SignatureProbe ==
  ASSUME ProbeInv, Signature
  PROVE  ProbeInv'
  <1>1. main = "signature" /\ UNCHANGED <<machine, late>>
    BY DEF Signature, history
  <1>2. CASE Present(Selected) /\ machine.drives[Selected].kind = "packet"
    <2>1. Give("IDENTIFY_PACKET") /\ main' = "sleep" /\ UNCHANGED <<todo, driveNo>>
      BY <1>2 DEF Signature
    <2>2. Selected' = Selected /\ Expected' = Expected
      BY <1>1, <2>1 DEF Selected, channel, Expected
    <2>3. ASSUME ~late, NEW u \in Expected PROVE AtRest(u)'
      <3>1. AtRest(u)
        BY <2>3 DEF ProbeInv
      <3>2. u # Selected => phase[u] = "idle"
        BY <3>1 DEF AtRest
      <3> QED
        BY <1>1, <1>2, <2>1, <2>2, <3>2, GiveEffect DEF AtRest, Progress, Probing
    <2> QED
      BY <1>1, <2>1, <2>2, <2>3, GiveEffect DEF ProbeInv
  <1>3. CASE ~(Present(Selected) /\ machine.drives[Selected].kind = "packet")
    <2>1. NextDrive /\ UNCHANGED <<phase, cmd>>
      BY <1>3 DEF Signature
    <2>2. ~late => \A u \in Expected : phase'[u] = "idle"
      BY <1>1, <1>3, <2>1 DEF ProbeInv, AtRest, Progress, Present, Expected
    <2> QED
      BY <1>1, <2>1, <2>2, LeaveStep
  <1> QED
    BY <1>2, <1>3

LEMMA SleepProbe ==
  ASSUME ProbeInv, Sleep
  PROVE  ProbeInv'
  <1>1. /\ main = "sleep" /\ main' = "read"
        /\ late' = (late \/ phase[Selected] = "busy")
        /\ UNCHANGED <<machine, phase, cmd, todo, driveNo>>
    BY DEF Sleep, hardware
  <1>2. Selected' = Selected /\ Expected' = Expected
    BY <1>1 DEF Selected, channel, Expected
  <1>3. ASSUME ~late', NEW u \in Expected PROVE AtRest(u)'
    <2>1. AtRest(u) /\ phase[Selected] # "busy"
      BY <1>1, <1>3 DEF ProbeInv
    <2> QED
      BY <1>1, <1>2, <2>1 DEF AtRest, Progress, Probing
  <1> QED
    BY <1>1, <1>2, <1>3 DEF ProbeInv

LEMMA ReadProbe ==
  ASSUME ProbeInv, ReadIdentification
  PROVE  ProbeInv'
  <1>1. main = "read" /\ NextDrive /\ UNCHANGED <<machine, late, cmd>>
    BY DEF ReadIdentification, history
  <1>2. \/ phase[Selected] = "data" /\ phase' = [phase EXCEPT ![Selected] = "idle"]
        \/ phase[Selected] # "data" /\ UNCHANGED phase
    BY DEF ReadIdentification
  <1>3. DOMAIN phase' = DOMAIN phase
    BY <1>2
  <1>4. ASSUME ~late, NEW u \in Expected PROVE phase'[u] = "idle"
    <2>1. AtRest(u) /\ u \in DOMAIN phase
      BY <1>4 DEF ProbeInv, Expected
    <2>2. CASE u = Selected
      <3>1. phase[u] = "data"
        BY <1>1, <2>1, <2>2 DEF AtRest, Progress, Probing
      <3> QED
        BY <1>2, <2>1, <2>2, <3>1
    <2>3. CASE u # Selected
      <3>1. phase[u] = "idle"
        BY <2>1, <2>3 DEF AtRest
      <3> QED
        BY <1>2, <2>1, <2>3, <3>1
    <2> QED
      BY <2>2, <2>3
  <1> QED
    BY <1>1, <1>3, <1>4, LeaveStep

LEMMA NextProbe ==
  ASSUME ProbeInv, [StartupNext]_startupVars
  PROVE  ProbeInv'
  <1>1. CASE InitializePCI \/ NewDriver \/ DriversDone \/ ReadMBR \/ Mount \/ Mounted \/ Finish
    <2>1. ~Probing /\ ~Probing' /\ UNCHANGED <<machine, phase, cmd, late>>
      BY <1>1 DEF InitializePCI, NewDriver, DriversDone, ReadMBR, Mount, Mounted, Finish, Probing, hardware, history
    <2> QED
      BY <2>1, ElsewhereStep
  <1>2. CASE UNCHANGED startupVars
    BY <1>2 DEF startupVars, hardware, history, ProbeInv, AtRest, Progress, Probing, Expected, Selected, channel
  <1> QED
    BY <1>1, <1>2, AnswerProbe, IdentifyProbe, PresentProbe, PollProbe, SignatureProbe,
       SleepProbe, ReadProbe DEF StartupNext, Kernel

\* Whatever the configuration space and the drives, however channels without
\* a drive float and in whatever time drives answer: unless a packet device
\* outlasts the sleep of the probe, no drive is left in the middle of a
\* command when the first readSectors comes.
THEOREM ProbeLeavesQuiet == StartupSpec => []LeavesQuiet
  <1>1. ProbeInv => LeavesQuiet
    BY DEF ProbeInv, LeavesQuiet, Attached, Expected, AtRest, Probing
  <1> QED
    BY <1>1, InitProbe, NextProbe, PTL DEF StartupSpec
-----------------------------------------------------------------------------
(* What initializePCI finds.                                               *)

Devices == (0..(Buses - 1)) \X (0..(Slots - 1)) \X (0..7)

Number(fun) == 8 * (Slots * fun[1] + fun[2]) + fun[3]

\* The order in which functions are looked at.
Order == [fun \in Devices |-> Number(fun)]

\* A word is made of its bytes.
LEMMA Bytes ==
  ASSUME NEW a \in 0..255, NEW b \in 0..255
  PROVE  (a + 256 * b) % 256 = a /\ (a + 256 * b) \div 256 = b
  OBVIOUS

\* What the registers say that initializePCI and kernel_main look at.
LEMMA Registers ==
  ASSUME NEW m \in Machines, NEW fun \in DOMAIN m.pci
  PROVE  /\ getClass(m.pci, fun) = m.pci[fun][11] /\ getSubclass(m.pci, fun) = m.pci[fun][10]
         /\ getHeaderType(m.pci, fun) = m.pci[fun][14]
         /\ getVendor(m.pci, fun) # 65535
         /\ m.pci[fun][14] \in 0..255
  <1>1. LegalHeader(m.pci, fun)
    BY MachineAssumption DEF WellFormed
  <1>2. \A n \in {10, 11, 14} : ConfigByte(m.pci, fun, n) = m.pci[fun][n] /\ m.pci[fun][n] \in 0..255
    BY <1>1 DEF ConfigByte, LegalHeader
  <1>3. ConfigByte(m.pci, fun, 15) \in 0..255
    BY <1>1 DEF ConfigByte, LegalHeader
  <1>4. /\ pciConfigReadWord(m.pci, fun, 10) = ConfigByte(m.pci, fun, 10) + 256 * ConfigByte(m.pci, fun, 11)
        /\ pciConfigReadWord(m.pci, fun, 14) = ConfigByte(m.pci, fun, 14) + 256 * ConfigByte(m.pci, fun, 15)
    <2>1. 4 * (10 \div 4) + 2 * ((10 \div 2) % 2) = 10 /\ 10 + 1 = 11
      OBVIOUS
    <2>2. 4 * (14 \div 4) + 2 * ((14 \div 2) % 2) = 14 /\ 14 + 1 = 15
      OBVIOUS
    <2> DEFINE Half(o) == 4 * (o \div 4) + 2 * ((o \div 2) % 2)
               Byte(n) == ConfigByte(m.pci, fun, n)
    <2>3. \A o : pciConfigReadWord(m.pci, fun, o) = Byte(Half(o)) + 256 * Byte(Half(o) + 1)
      BY DEF pciConfigReadWord
    <2>4. Half(10) = 10 /\ Half(10) + 1 = 11 /\ Half(14) = 14 /\ Half(14) + 1 = 15
      BY <2>1, <2>2
    <2> HIDE DEF Half, Byte
    <2>5. /\ pciConfigReadWord(m.pci, fun, 10) = Byte(10) + 256 * Byte(11)
          /\ pciConfigReadWord(m.pci, fun, 14) = Byte(14) + 256 * Byte(15)
      BY <2>3, <2>4
    <2> QED
      BY <2>5 DEF Byte
  <1>5. /\ pciConfigReadWord(m.pci, fun, 10) % 256 = m.pci[fun][10]
        /\ pciConfigReadWord(m.pci, fun, 10) \div 256 = m.pci[fun][11]
        /\ pciConfigReadWord(m.pci, fun, 14) % 256 = m.pci[fun][14]
    <2>1. PICK a \in 0..255 : a = m.pci[fun][10]
      BY <1>2
    <2>2. PICK b \in 0..255 : b = m.pci[fun][11]
      BY <1>2
    <2>3. PICK c \in 0..255 : c = m.pci[fun][14]
      BY <1>2
    <2>4. PICK d \in 0..255 : d = ConfigByte(m.pci, fun, 15)
      BY <1>3
    <2>5. /\ pciConfigReadWord(m.pci, fun, 10) = a + 256 * b
          /\ pciConfigReadWord(m.pci, fun, 14) = c + 256 * d
      <3>1. /\ ConfigByte(m.pci, fun, 10) = a /\ ConfigByte(m.pci, fun, 11) = b
            /\ ConfigByte(m.pci, fun, 14) = c
        BY <1>2, <2>1, <2>2, <2>3
      <3> QED
        BY <1>4, <2>4, <3>1
    <2>6. (a + 256 * b) % 256 = a /\ (a + 256 * b) \div 256 = b /\ (c + 256 * d) % 256 = c
      BY Bytes
    <2> QED
      BY <2>1, <2>2, <2>3, <2>5, <2>6
  <1>6. /\ getClass(m.pci, fun) = m.pci[fun][11] /\ getSubclass(m.pci, fun) = m.pci[fun][10]
        /\ getHeaderType(m.pci, fun) = m.pci[fun][14]
    <2> HIDE DEF pciConfigReadWord
    <2> QED
      BY <1>5 DEF getClass, getSubclass, getHeaderType
  <1>7. getVendor(m.pci, fun) # 65535
    BY <1>1 DEF LegalHeader
  <1>8. m.pci[fun][14] \in 0..255
    BY <1>2
  <1> QED
    BY <1>6, <1>7, <1>8

\* Nobody answers where there is nothing.
LEMMA NoVendor ==
  ASSUME NEW space, NEW fun, fun \notin DOMAIN space
  PROVE  getVendor(space, fun) = 65535
  BY DEF getVendor, pciConfigReadWord, ConfigByte

\* Where functions are.
LEMMA FunctionNumbers ==
  ASSUME NEW m \in Machines, NEW fun \in DOMAIN m.pci
  PROVE  /\ fun = <<fun[1], fun[2], fun[3]>> /\ fun[1] \in 0..(Buses - 1) /\ fun[2] \in Nat /\ fun[3] \in 0..7
         /\ <<fun[1], fun[2], 0>> \in DOMAIN m.pci
  <1>1. /\ DOMAIN m.pci \subseteq (0..(Buses - 1)) \X Nat \X (0..7)
        /\ <<fun[1], fun[2], 0>> \in DOMAIN m.pci
    <2>1. WellFormed(m.pci)
      BY MachineAssumption
    <2>2. DOMAIN m.pci \subseteq (0..(Buses - 1)) \X Nat \X (0..7)
      BY <2>1 DEF WellFormed
    <2> QED
      BY <2>1, <2>2 DEF WellFormed
  <1>2. fun \in (0..(Buses - 1)) \X Nat \X (0..7)
    BY <1>1
  <1> QED
    BY <1>1, <1>2

\* Orders are numbers.
LEMMA OrderRanks == Order \in Ranks(Devices)
  <1>1. \A fun \in Devices : Number(fun) \in Int
    BY BusAssumption DEF Devices, Number
  <1> QED
    BY <1>1 DEF Order, Ranks

\* What there is to be found in a slot.
InSlot(space, i, j) ==
  {fun \in DOMAIN space : fun[1] = i /\ fun[2] = j /\ (fun[3] = 0 \/ space[<<i, j, 0>>][14] >= 128)}

\* What is looked at as one function of a slot, and what becomes of it.
Found(space, fun) == IF getVendor(space, fun) = 65535 THEN << >> ELSE << fun >>

Ordered(s, S) == s \in Seq(Devices) /\ Ascending(s, Order) /\ Range(s) = S

LEMMA FunctionIs ==
  ASSUME NEW m \in Machines, NEW fun \in Devices
  PROVE  Ordered(Found(m.pci, fun), {fun} \cap DOMAIN m.pci)
  <1>1. fun \in DOMAIN m.pci <=> getVendor(m.pci, fun) # 65535
    BY Registers, NoVendor
  <1>2. CASE fun \in DOMAIN m.pci
    <2>1. Found(m.pci, fun) = << fun >>
      BY <1>1, <1>2 DEF Found
    <2>2. DOMAIN << fun >> = {1} /\ << fun >> \in Seq(Devices) /\ << fun >>[1] = fun
      OBVIOUS
    <2>3. Range(<< fun >>) = {fun} /\ Ascending(<< fun >>, Order)
      BY <2>2 DEF Range, Ascending
    <2> QED
      BY <1>2, <2>1, <2>2, <2>3 DEF Ordered
  <1>3. CASE fun \notin DOMAIN m.pci
    <2>1. Found(m.pci, fun) = << >>
      BY <1>1, <1>3 DEF Found
    <2>2. DOMAIN << >> = {} /\ << >> \in Seq(Devices)
      BY EmptySeq
    <2>3. Range(<< >>) = {} /\ Ascending(<< >>, Order)
      BY <2>2 DEF Range, Ascending
    <2> QED
      BY <1>3, <2>1, <2>2, <2>3 DEF Ordered
  <1> QED
    BY <1>2, <1>3

\* The functions 1 to 7 of a slot.
Further(space, i, j) == [k \in 1..7 |-> Found(space, <<i, j, k>>)]

LEMMA FurtherAre ==
  ASSUME NEW m \in Machines, NEW i \in 0..(Buses - 1), NEW j \in 0..(Slots - 1)
  PROVE  Ordered(FlattenSeq(Further(m.pci, i, j)), {<<i, j, k>> : k \in 1..7} \cap DOMAIN m.pci)
  <1> DEFINE more == Further(m.pci, i, j)
  <1>1. ASSUME NEW k \in 1..7
        PROVE  /\ more[k] \in Seq(Devices) /\ Ascending(more[k], Order)
               /\ Range(more[k]) = {<<i, j, k>>} \cap DOMAIN m.pci
               /\ Order[<<i, j, k>>] = 8 * (Slots * i + j) + k
    <2>1. <<i, j, k>> \in Devices
      BY DEF Devices
    <2>2. Ordered(Found(m.pci, <<i, j, k>>), {<<i, j, k>>} \cap DOMAIN m.pci)
      BY <2>1, FunctionIs
    <2>3. Order[<<i, j, k>>] = 8 * (Slots * i + j) + k
      BY <2>1 DEF Order, Number
    <2> QED
      BY <2>2, <2>3 DEF Ordered, Further
  <1>2. DOMAIN more = 1..7 /\ more = [k \in 1..7 |-> more[k]]
    BY DEF Further
  <1> HIDE DEF more
  <1>3. PICK n \in Nat : n = 8 * (Slots * i + j)
    BY BusAssumption
  <1>4. \A k \in 1..7 : \A x \in Range(more[k]) : Order[x] = n + k
    BY <1>1, <1>3
  <1>5. \A k, l \in 1..7 : k < l => Beneath(more[k], more[l], Order)
    BY <1>4 DEF Beneath
  <1>6. Orderly(more, 7, Devices, Order)
    BY <1>1, <1>2, <1>5 DEF Orderly
  <1>7. /\ FlattenSeq(more) \in Seq(Devices) /\ Ascending(FlattenSeq(more), Order)
        /\ Range(FlattenSeq(more)) = UNION {Range(more[k]) : k \in 1..7}
    <2>1. PICK seven \in Nat : seven = 7
      OBVIOUS
    <2>2. Orderly(more, seven, Devices, Order)
      BY <1>6, <2>1
    <2>3. /\ FlattenSeq(more) \in Seq(Devices) /\ Ascending(FlattenSeq(more), Order)
          /\ Range(FlattenSeq(more)) = UNION {Range(more[k]) : k \in 1..seven}
      BY <2>2, OrderRanks, FlattenAscending
    <2> QED
      BY <2>1, <2>3, FlattenAscending
  <1>8. UNION {Range(more[k]) : k \in 1..7} = {<<i, j, k>> : k \in 1..7} \cap DOMAIN m.pci
    BY <1>1
  <1> QED
    BY <1>7, <1>8 DEF more, Ordered

\* What is found in a slot: function 0, and the others of a device that has
\* several.
LEMMA FunctionsAre ==
  ASSUME NEW m \in Machines, NEW i \in 0..(Buses - 1), NEW j \in 0..(Slots - 1)
  PROVE  Ordered(Functions(m.pci, i, j), InSlot(m.pci, i, j))
  <1> DEFINE zero  == <<i, j, 0>>
             first == Found(m.pci, zero)
             rest  == FlattenSeq(Further(m.pci, i, j))
  <1>1. zero \in Devices /\ Order[zero] = 8 * (Slots * i + j)
    <2>1. zero \in Devices
      BY DEF Devices
    <2>2. Order[zero] = 8 * (Slots * i + j) + 0
      BY <2>1 DEF Order, Number
    <2> QED
      BY <2>2, <2>1, BusAssumption
  <1>2. /\ first \in Seq(Devices) /\ Ascending(first, Order) /\ Range(first) = {zero} \cap DOMAIN m.pci
        /\ rest \in Seq(Devices) /\ Ascending(rest, Order)
        /\ Range(rest) = {<<i, j, k>> : k \in 1..7} \cap DOMAIN m.pci
    <2>1. Ordered(first, {zero} \cap DOMAIN m.pci)
      BY <1>1, FunctionIs
    <2>2. Ordered(rest, {<<i, j, k>> : k \in 1..7} \cap DOMAIN m.pci)
      BY FurtherAre
    <2> QED
      BY <2>1, <2>2 DEF Ordered
  <1>3. \A fun \in DOMAIN m.pci : /\ fun = <<fun[1], fun[2], fun[3]>> /\ fun[3] \in 0..7
                                  /\ <<fun[1], fun[2], 0>> \in DOMAIN m.pci
    BY FunctionNumbers
  <1>4. CASE zero \notin DOMAIN m.pci
    <2>1. getVendor(m.pci, zero) = 65535
      BY <1>4, NoVendor
    <2>2. Functions(m.pci, i, j) = << >> /\ first = << >>
      BY <2>1 DEF Functions, Found
    <2>3. InSlot(m.pci, i, j) = {}
      BY <1>3, <1>4 DEF InSlot
    <2> QED
      BY <1>2, <1>4, <2>2, <2>3 DEF Ordered
  <1>5. CASE zero \in DOMAIN m.pci /\ m.pci[zero][14] < 128
    <2>1. getVendor(m.pci, zero) # 65535 /\ getHeaderType(m.pci, zero) < 128
      BY <1>5, Registers
    <2>2. Functions(m.pci, i, j) = << zero >> \o << >> /\ first = << zero >>
      BY <2>1 DEF Functions, Found
    <2>3. Functions(m.pci, i, j) = first
      BY <1>2, <2>2, ConcatEmptySeq
    <2>4. m.pci[zero][14] \in 0..255
      BY <1>5, Registers
    <2>5. InSlot(m.pci, i, j) = {zero}
      BY <1>3, <1>5, <2>4 DEF InSlot
    <2> QED
      BY <1>2, <1>5, <2>3, <2>5 DEF Ordered
  <1>6. CASE zero \in DOMAIN m.pci /\ ~(m.pci[zero][14] < 128)
    <2>1. /\ getVendor(m.pci, zero) # 65535 /\ ~(getHeaderType(m.pci, zero) < 128)
          /\ m.pci[zero][14] >= 128
      BY <1>6, Registers
    <2>2. Functions(m.pci, i, j) = first \o rest
      BY <2>1 DEF Functions, Found, Further
    <2>3. PICK n \in Nat : n = 8 * (Slots * i + j)
      BY BusAssumption
    <2>4. ASSUME NEW k \in 1..7 PROVE Order[<<i, j, k>>] = n + k
      <3>1. <<i, j, k>> \in Devices
        BY DEF Devices
      <3> QED
        BY <2>3, <3>1 DEF Order, Number
    <2>5. Beneath(first, rest, Order)
      <3>1. \A x \in Range(first) : Order[x] = n
        BY <1>1, <1>2, <2>3
      <3>2. ASSUME NEW x \in Range(rest) PROVE Order[x] > n
        <4>1. PICK k \in 1..7 : x = <<i, j, k>>
          BY <1>2
        <4> QED
          BY <2>4, <4>1
      <3> HIDE DEF first, rest
      <3> QED
        BY <3>1, <3>2 DEF Beneath
    <2> HIDE DEF first, rest
    <2>6. first \o rest \in Seq(Devices) /\ Ascending(first \o rest, Order)
          /\ Range(first \o rest) = Range(first) \cup Range(rest)
      BY <1>2, <2>5, OrderRanks, ConcatAscending
    <2>7. Range(first) \cup Range(rest) = InSlot(m.pci, i, j)
      <3>1. ASSUME NEW fun \in InSlot(m.pci, i, j) PROVE fun \in Range(first) \cup Range(rest)
        <4>1. PICK k \in 0..7 : fun = <<i, j, k>> /\ fun \in DOMAIN m.pci
          BY <1>3 DEF InSlot
        <4>2. k = 0 \/ k \in 1..7
          OBVIOUS
        <4> QED
          BY <1>2, <4>1, <4>2
      <3>2. ASSUME NEW fun \in Range(first) \cup Range(rest) PROVE fun \in InSlot(m.pci, i, j)
        BY <1>2, <2>1, <3>2 DEF InSlot
      <3> QED
        BY <3>1, <3>2
    <2> QED
      BY <2>2, <2>6, <2>7 DEF Ordered
  <1>7. zero \in DOMAIN m.pci => m.pci[zero][14] \in 0..255
    BY Registers
  <1> QED
    BY <1>4, <1>5, <1>6, <1>7

\* What initializePCI can find.
Scanned(space) ==
  {fun \in DOMAIN space : fun[2] < Slots /\ (fun[3] = 0 \/ space[<<fun[1], fun[2], 0>>][14] >= 128)}

\* What is found on a bus.
Slotwise(space, i) == [j \in 1..Slots |-> Functions(space, i, j - 1)]

OnBus(space, i) == {fun \in Scanned(space) : fun[1] = i}

LEMMA BusIs ==
  ASSUME NEW m \in Machines, NEW i \in 0..(Buses - 1)
  PROVE  Ordered(FlattenSeq(Slotwise(m.pci, i)), OnBus(m.pci, i))
  <1> DEFINE b == Slotwise(m.pci, i)
  <1>1. Slots \in Nat /\ i \in Nat
    BY BusAssumption
  <1>2. \A fun \in DOMAIN m.pci : /\ fun = <<fun[1], fun[2], fun[3]>> /\ fun[3] \in 0..7
                                  /\ fun[1] \in 0..(Buses - 1) /\ fun[2] \in Nat
    BY FunctionNumbers
  <1>3. PICK n \in Nat : n = Slots * i
    BY <1>1
  <1>4. ASSUME NEW j \in 1..Slots
        PROVE  /\ b[j] \in Seq(Devices) /\ Ascending(b[j], Order)
               /\ Range(b[j]) = InSlot(m.pci, i, j - 1)
    <2>1. j - 1 \in 0..(Slots - 1)
      BY <1>1
    <2>2. Ordered(Functions(m.pci, i, j - 1), InSlot(m.pci, i, j - 1))
      BY <2>1, FunctionsAre
    <2> QED
      BY <2>2 DEF Ordered, Slotwise
  <1>5. ASSUME NEW j \in 1..Slots, NEW fun \in InSlot(m.pci, i, j - 1)
        PROVE  fun[3] \in 0..7 /\ Order[fun] = 8 * (n + (j - 1)) + fun[3]
    <2>1. fun \in DOMAIN m.pci /\ fun[1] = i /\ fun[2] = j - 1
      BY DEF InSlot
    <2>2. j - 1 \in 0..(Slots - 1)
      BY <1>1
    <2>3. fun \in Devices
      BY <1>2, <2>1, <2>2 DEF Devices
    <2> QED
      BY <1>2, <1>3, <2>1, <2>3 DEF Order, Number
  <1>6. DOMAIN b = 1..Slots /\ b = [j \in 1..Slots |-> b[j]]
    BY DEF Slotwise
  <1> HIDE DEF b
  <1>7. ASSUME NEW j \in 1..Slots, NEW l \in 1..Slots, j < l PROVE Beneath(b[j], b[l], Order)
    <2>1. \A x \in Range(b[j]) : x[3] \in 0..7 /\ Order[x] = 8 * (n + (j - 1)) + x[3]
      BY <1>4, <1>5
    <2>2. \A x \in Range(b[l]) : x[3] \in 0..7 /\ Order[x] = 8 * (n + (l - 1)) + x[3]
      BY <1>4, <1>5
    <2> QED
      BY <1>7, <2>1, <2>2 DEF Beneath
  <1>8. Orderly(b, Slots, Devices, Order)
    BY <1>4, <1>6, <1>7 DEF Orderly
  <1>9. /\ FlattenSeq(b) \in Seq(Devices) /\ Ascending(FlattenSeq(b), Order)
        /\ Range(FlattenSeq(b)) = UNION {Range(b[j]) : j \in 1..Slots}
    BY <1>1, <1>8, OrderRanks, FlattenAscending
  <1>10. ASSUME NEW fun \in OnBus(m.pci, i) PROVE \E j \in 1..Slots : fun \in InSlot(m.pci, i, j - 1)
    <2>1. /\ fun \in DOMAIN m.pci /\ fun[1] = i /\ fun[2] < Slots
          /\ fun[3] = 0 \/ m.pci[<<fun[1], fun[2], 0>>][14] >= 128
      BY DEF OnBus, Scanned
    <2>2. fun[2] \in Nat
      BY <1>2, <2>1
    <2>3. fun[2] + 1 \in 1..Slots /\ fun[2] = (fun[2] + 1) - 1
      BY <1>1, <2>1, <2>2
    <2>4. fun \in InSlot(m.pci, i, (fun[2] + 1) - 1)
      BY <2>1, <2>3 DEF InSlot
    <2> QED
      BY <2>3, <2>4
  <1>11. ASSUME NEW j \in 1..Slots, NEW fun \in InSlot(m.pci, i, j - 1) PROVE fun \in OnBus(m.pci, i)
    <2>1. /\ fun \in DOMAIN m.pci /\ fun[1] = i /\ fun[2] = j - 1
          /\ fun[3] = 0 \/ m.pci[<<fun[1], fun[2], 0>>][14] >= 128
      BY DEF InSlot
    <2>2. j - 1 < Slots
      BY <1>1
    <2> QED
      BY <2>1, <2>2 DEF OnBus, Scanned
  <1>12. UNION {Range(b[j]) : j \in 1..Slots} = OnBus(m.pci, i)
    BY <1>4, <1>10, <1>11
  <1> QED
    BY <1>9, <1>12 DEF b, Ordered

\* initializePCI finds all of it, in the order of buses, slots and functions.
LEMMA ScanIs ==
  ASSUME NEW m \in Machines
  PROVE  Ordered(initializePCI(m.pci), Scanned(m.pci))
  <1> DEFINE b == [i \in 1..Buses |-> FlattenSeq(Slotwise(m.pci, i - 1))]
  <1>1. initializePCI(m.pci) = FlattenSeq(b)
    BY DEF initializePCI, Slotwise
  <1>2. Buses \in Nat /\ Slots \in Nat
    BY BusAssumption
  <1>3. ASSUME NEW i \in 1..Buses
        PROVE  /\ b[i] \in Seq(Devices) /\ Ascending(b[i], Order) /\ Range(b[i]) = OnBus(m.pci, i - 1)
    <2>1. i - 1 \in 0..(Buses - 1)
      BY <1>2
    <2>2. Ordered(FlattenSeq(Slotwise(m.pci, i - 1)), OnBus(m.pci, i - 1))
      BY <2>1, BusIs
    <2> QED
      BY <2>2 DEF Ordered
  <1>4. DOMAIN b = 1..Buses /\ b = [i \in 1..Buses |-> b[i]]
    OBVIOUS
  <1> HIDE DEF b
  <1>5. \A fun \in DOMAIN m.pci : /\ fun = <<fun[1], fun[2], fun[3]>> /\ fun[3] \in 0..7
                                  /\ fun[1] \in 0..(Buses - 1) /\ fun[2] \in Nat
    BY FunctionNumbers
  <1>6. ASSUME NEW h \in 1..Buses, NEW fun \in OnBus(m.pci, h - 1)
        PROVE  /\ fun[2] \in 0..(Slots - 1) /\ fun[3] \in 0..7
               /\ Order[fun] = 8 * (Slots * (h - 1) + fun[2]) + fun[3]
    <2>1. fun \in DOMAIN m.pci /\ fun[1] = h - 1 /\ fun[2] < Slots
      BY DEF OnBus, Scanned
    <2>2. fun[2] \in 0..(Slots - 1)
      BY <1>2, <1>5, <2>1
    <2>3. fun \in Devices
      BY <1>5, <2>1, <2>2 DEF Devices
    <2> QED
      BY <1>5, <2>1, <2>2, <2>3 DEF Order, Number
  <1>7. ASSUME NEW i \in 1..Buses, NEW l \in 1..Buses, i < l PROVE Beneath(b[i], b[l], Order)
    <2>1. PICK n \in Nat, o \in Nat : n = Slots * (i - 1) /\ o = Slots * (l - 1)
      BY <1>2
    <2>2. n + Slots <= o
      <3>1. PICK k \in Nat : l - 1 = (i - 1) + 1 + k
        <4>1. l - i - 1 \in Nat /\ l - 1 = (i - 1) + 1 + (l - i - 1)
          BY <1>7
        <4> QED
          BY <4>1
      <3>2. i - 1 \in Nat /\ l - 1 \in Nat
        OBVIOUS
      <3>3. Slots * (l - 1) = Slots * (i - 1) + Slots + Slots * k /\ Slots * k \in Nat
        BY <1>2, <3>1, <3>2
      <3> QED
        BY <1>2, <2>1, <3>3
    <2>3. \A x \in Range(b[i]) : x[2] \in 0..(Slots - 1) /\ x[3] \in 0..7 /\ Order[x] = 8 * (n + x[2]) + x[3]
      BY <1>3, <1>6, <2>1
    <2>4. \A x \in Range(b[l]) : x[2] \in 0..(Slots - 1) /\ x[3] \in 0..7 /\ Order[x] = 8 * (o + x[2]) + x[3]
      BY <1>3, <1>6, <2>1
    <2> QED
      BY <1>2, <2>2, <2>3, <2>4 DEF Beneath
  <1>8. Orderly(b, Buses, Devices, Order)
    BY <1>3, <1>4, <1>7 DEF Orderly
  <1>9. /\ FlattenSeq(b) \in Seq(Devices) /\ Ascending(FlattenSeq(b), Order)
        /\ Range(FlattenSeq(b)) = UNION {Range(b[i]) : i \in 1..Buses}
    BY <1>2, <1>8, OrderRanks, FlattenAscending
  <1>10. ASSUME NEW fun \in Scanned(m.pci) PROVE \E i \in 1..Buses : fun \in OnBus(m.pci, i - 1)
    <2>1. fun[1] \in 0..(Buses - 1)
      BY <1>5 DEF Scanned
    <2>2. fun[1] + 1 \in 1..Buses /\ fun[1] = (fun[1] + 1) - 1
      BY <1>2, <2>1
    <2>3. fun \in OnBus(m.pci, (fun[1] + 1) - 1)
      BY <2>2 DEF OnBus
    <2> QED
      BY <2>2, <2>3
  <1>11. \A i \in 1..Buses : OnBus(m.pci, i - 1) \subseteq Scanned(m.pci)
    BY DEF OnBus
  <1>12. UNION {Range(b[i]) : i \in 1..Buses} = Scanned(m.pci)
    BY <1>3, <1>10, <1>11
  <1> QED
    BY <1>1, <1>9, <1>12 DEF Ordered
-----------------------------------------------------------------------------
(* What is found: the walk over controllers, channels and drives.          *)

Controller(fun) == fun \in AllControllers(machine.pci)

\* The unit u is on channel k of device i of the list.
On(u, i, k) ==
  /\ i \in 1..Len(pciDevices) /\ k \in 1..2
  /\ Controller(pciDevices[i]) /\ u[1] = Channels(machine.pci, pciDevices[i])[k]

\* When it is its turn.
Turn(u) == CHOOSE t \in Nat : \E i \in 1..Len(pciDevices), k \in 1..2 : On(u, i, k) /\ t = 4 * i + 2 * k + u[2]

Asking == main = "identify" \/ Probing

\* Whose turn it is, or will be next.
Limit == IF Asking THEN 4 * (nextDevice - 1) + 2 * (3 - Len(todo)) + driveNo ELSE 4 * nextDevice + 2

\* What may be listed.
Entries ==
  {d \in [unit : Attached, sectors : Nat, type : {"IDE_ATA", "IDE_ATAPI"}] :
     /\ d.sectors = Sectors(machine.drives[d.unit].iden)
     /\ d.type = "IDE_ATA" <=> machine.drives[d.unit].kind = "ata"}

\* s is the list of those whose turn has been.
Lists(s, limit) ==
  /\ s \in Seq(Entries)
  /\ {s[n].unit : n \in 1..Len(s)} = {u \in Attached : Turn(u) < limit}
  /\ \A m, n \in 1..Len(s) : m < n => Turn(s[m].unit) < Turn(s[n].unit)

\* Channel k of a controller, and those after it.
Rest(fun, k) == IF k = 1 THEN Channels(machine.pci, fun) ELSE << Channels(machine.pci, fun)[2] >>

WalkInv ==
  /\ machine \in Machines /\ driveNo \in {0, 1}
  /\ nextDevice \in 1..(Len(pciDevices) + 1)
  /\ main = "pci" => storageDevices = << >> /\ nextDevice = 1
  /\ main # "pci" => pciDevices = initializePCI(machine.pci)
  /\ ~Asking => driveNo = 0
  /\ Asking => /\ nextDevice > 1 /\ Controller(pciDevices[nextDevice - 1])
               /\ \E k \in 1..2 : todo = Rest(pciDevices[nextDevice - 1], k)
  /\ main \in {"scan", "mount", "up"} => nextDevice > Len(pciDevices)

\* What an answer says of the drive that is asked.
AskInv ==
  /\ main \in {"present", "poll"} /\ Present(Selected) /\ Selected \notin Expected =>
       cmd[Selected] = "IDENTIFY" /\ phase[Selected] \in {"busy", "aborted"}
  /\ main = "poll" => Present(Selected) \/ Absent # {}
  /\ main = "signature" /\ Selected \in Expected => machine.drives[Selected].kind = "packet"
  /\ main = "sleep" => Selected \in Expected /\ machine.drives[Selected].kind = "packet"
                       /\ cmd[Selected] = "IDENTIFY_PACKET"
  /\ main = "read" => Selected \in Expected
                      /\ (cmd[Selected] = "IDENTIFY" <=> machine.drives[Selected].kind = "ata")

ListInv == ~late /\ main # "pci" => Lists(storageDevices, Limit)

Located == machine \in Machines /\ pciDevices = initializePCI(machine.pci)

\* The controllers are in the list, in the order of their numbers.
LEMMA ControllersListed ==
  ASSUME Located
  PROVE  /\ pciDevices \in Seq(Devices) /\ Len(pciDevices) \in Nat
         /\ \A fun : Controller(fun) => \E i \in 1..Len(pciDevices) : pciDevices[i] = fun
         /\ \A i \in 1..Len(pciDevices) : /\ Controller(pciDevices[i]) <=> IsIDE(machine.pci, pciDevices[i])
                                          /\ Number(pciDevices[i]) \in Nat
         /\ \A i, j \in 1..Len(pciDevices) : i < j => Number(pciDevices[i]) < Number(pciDevices[j])
  <1>1. /\ pciDevices \in Seq(Devices) /\ Ascending(pciDevices, Order) /\ Range(pciDevices) = Scanned(machine.pci)
    BY ScanIs DEF Located, Ordered
  <1>2. Len(pciDevices) \in Nat /\ DOMAIN pciDevices = 1..Len(pciDevices)
    BY <1>1
  <1>3. \A i \in 1..Len(pciDevices) : pciDevices[i] \in Devices /\ pciDevices[i] \in Scanned(machine.pci)
    BY <1>1, <1>2 DEF Range
  <1>4. \A fun \in Devices : Number(fun) \in Nat /\ Order[fun] = Number(fun)
    BY BusAssumption DEF Devices, Number, Order
  <1>5. ASSUME NEW fun, Controller(fun) PROVE \E i \in 1..Len(pciDevices) : pciDevices[i] = fun
    <2>1. fun \in Scanned(machine.pci)
      BY <1>5 DEF Controller, AllControllers, Scanned
    <2> QED
      BY <1>1, <1>2, <2>1 DEF Range
  <1>6. ASSUME NEW i \in 1..Len(pciDevices)
        PROVE  Controller(pciDevices[i]) <=> IsIDE(machine.pci, pciDevices[i])
    <2>1. PICK fun \in Scanned(machine.pci) : fun = pciDevices[i]
      BY <1>3
    <2>2. getClass(machine.pci, fun) = machine.pci[fun][11] /\ getSubclass(machine.pci, fun) = machine.pci[fun][10]
      BY Registers DEF Scanned, Located
    <2> QED
      BY <2>1, <2>2 DEF Controller, AllControllers, Scanned, IsIDE
  <1>7. ASSUME NEW i \in 1..Len(pciDevices), NEW j \in 1..Len(pciDevices), i < j
        PROVE  Number(pciDevices[i]) < Number(pciDevices[j])
    <2>1. Order[pciDevices[i]] < Order[pciDevices[j]]
      BY <1>1, <1>2, <1>7 DEF Ascending
    <2> QED
      BY <1>3, <1>4, <2>1
  <1> QED
    BY <1>1, <1>2, <1>3, <1>4, <1>5, <1>6, <1>7

\* No two controllers have a port in common: a channel has one place.
LEMMA PlacesOf ==
  ASSUME machine \in Machines, NEW fun, Controller(fun), NEW k \in 1..2
  PROVE  Places(Channels(machine.pci, fun)[k]) = {2 * Number(fun) + k}
  <1>1. OwnPorts(machine.pci)
    BY MachineAssumption
  <1>2. \A e : \A l \in 1..2 :
          Controller(e) /\ Channels(machine.pci, e)[l] = Channels(machine.pci, fun)[k] => e = fun /\ l = k
    BY <1>1 DEF OwnPorts, Controller
  <1>3. Place(fun, k) = 2 * Number(fun) + k
    BY DEF Place, Number
  <1> DEFINE There == {q \in AllControllers(machine.pci) \X (1..2) :
                         Channels(machine.pci, q[1])[q[2]] = Channels(machine.pci, fun)[k]}
  <1>4. There = {<<fun, k>>}
    BY <1>2 DEF Controller
  <1>5. Places(Channels(machine.pci, fun)[k]) = {Place(p[1], p[2]) : p \in There}
    BY DEF Places
  <1> HIDE DEF There
  <1> QED
    BY <1>3, <1>4, <1>5

\* The place of a unit.
LEMMA AttachedIs ==
  ASSUME Located, NEW u \in Attached
  PROVE  /\ u = <<u[1], u[2]>> /\ u[2] \in {0, 1} /\ u \in DOMAIN machine.drives /\ u \in Expected
         /\ \E i, k : On(u, i, k)
  <1>1. u \in DOMAIN machine.drives /\ Places(u[1]) # {} /\ u \in Expected
    BY DEF Attached, Expected
  <1>2. Connected(machine.drives)
    BY MachineAssumption DEF Located
  <1>3. u \in Nat \X {0, 1}
    BY <1>1, <1>2 DEF Connected
  <1>4. PICK q \in AllControllers(machine.pci) \X (1..2) : Channels(machine.pci, q[1])[q[2]] = u[1]
    BY <1>1 DEF Places
  <1>5. PICK fun, k : Controller(fun) /\ k \in 1..2 /\ Channels(machine.pci, fun)[k] = u[1]
    BY <1>4 DEF Controller
  <1>6. PICK i \in 1..Len(pciDevices) : pciDevices[i] = fun
    BY <1>5, ControllersListed
  <1>7. On(u, i, k)
    BY <1>5, <1>6 DEF On
  <1> QED
    BY <1>1, <1>3, <1>7

\* It has no other.
LEMMA OnceOn ==
  ASSUME Located, NEW u, NEW i, NEW k, NEW j, NEW l, On(u, i, k), On(u, j, l)
  PROVE  i = j /\ k = l
  <1>1. OwnPorts(machine.pci)
    BY MachineAssumption DEF Located
  <1>2. /\ i \in 1..Len(pciDevices) /\ k \in 1..2 /\ j \in 1..Len(pciDevices) /\ l \in 1..2
        /\ Controller(pciDevices[i]) /\ Controller(pciDevices[j])
        /\ Channels(machine.pci, pciDevices[i])[k] = Channels(machine.pci, pciDevices[j])[l]
    BY DEF On
  <1>3. pciDevices[i] = pciDevices[j] /\ k = l
    BY <1>1, <1>2 DEF OwnPorts, Controller
  <1>4. ~(i < j) /\ ~(j < i)
    BY <1>2, <1>3, ControllersListed
  <1> QED
    BY <1>2, <1>3, <1>4, ControllersListed

LEMMA TurnIs ==
  ASSUME Located, NEW u \in Attached, NEW i, NEW k, On(u, i, k)
  PROVE  Turn(u) = 4 * i + 2 * k + u[2]
  <1>1. i \in 1..Len(pciDevices) /\ k \in 1..2 /\ u[2] \in {0, 1} /\ Len(pciDevices) \in Nat
    BY AttachedIs, ControllersListed DEF On
  <1> DEFINE Its(t) == \E j \in 1..Len(pciDevices), l \in 1..2 : On(u, j, l) /\ t = 4 * j + 2 * l + u[2]
  <1>2. PICK n \in Nat : n = 4 * i + 2 * k + u[2]
    BY <1>1
  <1>3. Its(n)
    BY <1>1, <1>2
  <1>4. ASSUME NEW t \in Nat, Its(t) PROVE t = n
    BY <1>2, <1>4, OnceOn
  <1>5. Turn(u) = CHOOSE t \in Nat : Its(t)
    BY DEF Turn
  <1> HIDE DEF Its
  <1> QED
    BY <1>2, <1>3, <1>4, <1>5

\* One turn comes before another just when the place does.
LEMMA TurnsInOrder ==
  ASSUME Located, NEW u \in Attached, NEW v \in Attached
  PROVE  /\ Turn(u) \in Nat
         /\ Turn(u) = Turn(v) => u = v
         /\ Turn(u) < Turn(v) => \A p \in Places(u[1]), q \in Places(v[1]) : p < q \/ (p = q /\ u[2] < v[2])
  <1>1. PICK i, k : On(u, i, k)
    BY AttachedIs
  <1>2. PICK j, l : On(v, j, l)
    BY AttachedIs
  <1>3. Turn(u) = 4 * i + 2 * k + u[2] /\ Turn(v) = 4 * j + 2 * l + v[2]
    BY <1>1, <1>2, TurnIs
  <1>4. /\ i \in 1..Len(pciDevices) /\ j \in 1..Len(pciDevices) /\ Len(pciDevices) \in Nat
        /\ k \in 1..2 /\ l \in 1..2 /\ u[2] \in {0, 1} /\ v[2] \in {0, 1}
        /\ u = <<u[1], u[2]>> /\ v = <<v[1], v[2]>>
    BY <1>1, <1>2, AttachedIs, ControllersListed DEF On
  <1>5. /\ Controller(pciDevices[i]) /\ u[1] = Channels(machine.pci, pciDevices[i])[k]
        /\ Controller(pciDevices[j]) /\ v[1] = Channels(machine.pci, pciDevices[j])[l]
    BY <1>1, <1>2 DEF On
  <1>6. Turn(u) = Turn(v) => u = v
    <2>1. 4 * i + 2 * k + u[2] = 4 * j + 2 * l + v[2] => i = j /\ k = l /\ u[2] = v[2]
      <3>1. PICK a \in {0, 1}, b \in {0, 1} : a = u[2] /\ b = v[2]
        BY <1>4
      <3>2. i \in Nat /\ j \in Nat /\ k \in 1..2 /\ l \in 1..2
        BY <1>4
      <3>3. 4 * i + 2 * k + a = 4 * j + 2 * l + b => i = j /\ k = l /\ a = b
        BY <3>2
      <3> QED
        BY <3>1, <3>3
    <2> QED
      BY <1>3, <1>4, <1>5, <2>1
  <1>7. Places(u[1]) = {2 * Number(pciDevices[i]) + k} /\ Places(v[1]) = {2 * Number(pciDevices[j]) + l}
    BY <1>4, <1>5, PlacesOf DEF Located
  <1>8. PICK m \in Nat, n \in Nat : m = Number(pciDevices[i]) /\ n = Number(pciDevices[j])
    BY <1>4, ControllersListed
  <1>9. (i < j => m < n) /\ (i = j => m = n)
    BY <1>4, <1>8, ControllersListed
  <1>10. Turn(u) < Turn(v) => 2 * m + k < 2 * n + l \/ (2 * m + k = 2 * n + l /\ u[2] < v[2])
    <2>1. 4 * i + 2 * k + u[2] < 4 * j + 2 * l + v[2] => i < j \/ (i = j /\ (k < l \/ (k = l /\ u[2] < v[2])))
      <3>1. PICK a \in {0, 1}, b \in {0, 1} : a = u[2] /\ b = v[2]
        BY <1>4
      <3>2. i \in Nat /\ j \in Nat /\ k \in 1..2 /\ l \in 1..2
        BY <1>4
      <3>3. 4 * i + 2 * k + a < 4 * j + 2 * l + b => i < j \/ (i = j /\ (k < l \/ (k = l /\ a < b)))
        BY <3>2
      <3> QED
        BY <3>1, <3>3
    <2>2. (m < n => 2 * m + k < 2 * n + l) /\ (m = n /\ k < l => 2 * m + k < 2 * n + l)
          /\ (m = n /\ k = l => 2 * m + k = 2 * n + l)
      BY <1>4
    <2> QED
      BY <1>3, <1>9, <2>1, <2>2
  <1>11. Turn(u) \in Nat
    <2>1. PICK a \in {0, 1} : a = u[2]
      BY <1>4
    <2>2. i \in Nat /\ 4 * i + 2 * k + a \in Nat
      BY <1>4
    <2> QED
      BY <1>3, <2>1, <2>2
  <1>12. ASSUME NEW p \in Places(u[1]), NEW q \in Places(v[1]) PROVE p = 2 * m + k /\ q = 2 * n + l
    BY <1>7, <1>8
  <1> QED
    BY <1>6, <1>10, <1>11, <1>12

LEMMA RestIs ==
  ASSUME NEW fun
  PROVE  /\ Len(Rest(fun, 1)) = 2 /\ Head(Rest(fun, 1)) = Channels(machine.pci, fun)[1]
         /\ Tail(Rest(fun, 1)) = Rest(fun, 2) /\ Rest(fun, 1) # << >>
         /\ Len(Rest(fun, 2)) = 1 /\ Head(Rest(fun, 2)) = Channels(machine.pci, fun)[2]
         /\ Tail(Rest(fun, 2)) = << >> /\ Rest(fun, 2) # << >>
  <1>1. PICK a, b : Channels(machine.pci, fun) = << a, b >>
    BY DEF Channels
  <1>2. Rest(fun, 1) = << a, b >> /\ Rest(fun, 2) = << b >>
    BY <1>1 DEF Rest
  <1>3. /\ Len(<< a, b >>) = 2 /\ Head(<< a, b >>) = a /\ << a, b >> # << >>
        /\ Len(<< b >>) = 1 /\ Head(<< b >>) = b /\ << b >> # << >>
    OBVIOUS
  <1>4. Tail(<< a, b >>) = << b >>
    OBVIOUS
  <1>5. Tail(<< b >>) = << >>
    OBVIOUS
  <1>6. << a, b >>[1] = a /\ << a, b >>[2] = b
    OBVIOUS
  <1> QED
    BY <1>1, <1>2, <1>3, <1>4, <1>5, <1>6

\* Who is asked is where the walk is.
LEMMA AskedPlace ==
  ASSUME WalkInv, Asking
  PROVE  /\ Located /\ nextDevice \in 2..(Len(pciDevices) + 1) /\ Len(pciDevices) \in Nat
         /\ \E k \in 1..2 : /\ todo = Rest(pciDevices[nextDevice - 1], k)
                            /\ channel = Channels(machine.pci, pciDevices[nextDevice - 1])[k]
                            /\ Controller(pciDevices[nextDevice - 1])
                            /\ Limit = 4 * (nextDevice - 1) + 2 * k + driveNo
  <1>1. Located
    BY DEF WalkInv, Asking, Probing, Located
  <1>2. Len(pciDevices) \in Nat
    BY <1>1, ControllersListed
  <1>3. nextDevice \in 2..(Len(pciDevices) + 1)
    BY <1>2 DEF WalkInv
  <1>4. PICK k \in 1..2 : todo = Rest(pciDevices[nextDevice - 1], k) /\ Controller(pciDevices[nextDevice - 1])
    BY DEF WalkInv
  <1>5. channel = Channels(machine.pci, pciDevices[nextDevice - 1])[k] /\ Len(todo) = 3 - k
    <2>1. k = 1 \/ k = 2
      OBVIOUS
    <2> QED
      BY <1>4, <2>1, RestIs DEF channel
  <1>6. Limit = 4 * (nextDevice - 1) + 2 * k + driveNo
    BY <1>5 DEF Limit
  <1> QED
    BY <1>1, <1>2, <1>3, <1>4, <1>5, <1>6

LEMMA AskedTurn ==
  ASSUME WalkInv, Asking
  PROVE  /\ Limit \in Nat
         /\ \A u \in Attached : Turn(u) = Limit => u = Selected
         /\ Selected \in Expected => Selected \in Attached /\ Turn(Selected) = Limit
  <1>1. Located /\ nextDevice \in 2..(Len(pciDevices) + 1) /\ Len(pciDevices) \in Nat /\ driveNo \in {0, 1}
    BY AskedPlace DEF WalkInv
  <1>2. PICK i \in 1..Len(pciDevices) : i = nextDevice - 1
    BY <1>1
  <1>3. PICK k \in 1..2 : /\ channel = Channels(machine.pci, pciDevices[i])[k] /\ Controller(pciDevices[i])
                          /\ Limit = 4 * i + 2 * k + driveNo
    BY <1>2, AskedPlace
  <1>4. Selected = <<channel, driveNo>> /\ On(Selected, i, k)
    BY <1>3 DEF Selected, On
  <1>5. ASSUME NEW u \in Attached, Turn(u) = Limit PROVE u = Selected
    <2>1. PICK j, l : On(u, j, l)
      BY <1>1, AttachedIs
    <2>2. /\ Turn(u) = 4 * j + 2 * l + u[2] /\ u[2] \in {0, 1} /\ u = <<u[1], u[2]>>
          /\ j \in 1..Len(pciDevices) /\ l \in 1..2 /\ u[1] = Channels(machine.pci, pciDevices[j])[l]
      BY <1>1, <2>1, AttachedIs, TurnIs DEF On
    <2>3. j = i /\ l = k /\ u[2] = driveNo
      <3>1. 4 * j + 2 * l + u[2] = 4 * i + 2 * k + driveNo
        BY <1>3, <1>5, <2>2
      <3>2. PICK v \in {0, 1}, w \in {0, 1} : v = u[2] /\ w = driveNo
        BY <1>1, <2>2
      <3>3. j \in Nat /\ i \in Nat
        BY <1>1, <2>2
      <3>4. 4 * j + 2 * l + v = 4 * i + 2 * k + w
        BY <3>1, <3>2
      <3>5. l \in 1..2
        BY <2>2
      <3>6. j = i /\ l = k /\ v = w
        BY <3>3, <3>4, <3>5
      <3> QED
        BY <3>2, <3>6
    <2> QED
      BY <1>3, <1>4, <2>2, <2>3
  <1>6. ASSUME Selected \in Expected PROVE Selected \in Attached /\ Turn(Selected) = Limit
    <2>1. Places(channel) # {}
      BY <1>1, <1>3, PlacesOf DEF Located
    <2>2. Selected \in Attached
      BY <1>4, <1>6, <2>1 DEF Expected, Attached
    <2> QED
      BY <1>1, <1>3, <1>4, <2>2, TurnIs
  <1>7. Limit \in Nat
    BY <1>1, <1>3
  <1> QED
    BY <1>5, <1>6, <1>7

\* The constructor returns: the next turn.
LEMMA AdvanceWalk ==
  ASSUME WalkInv, Asking, NextDrive, UNCHANGED <<machine, pciDevices, nextDevice>>
  PROVE  WalkInv' /\ Limit' = Limit + 1 /\ main' \in {"identify", "driver"}
  <1>1. Located /\ nextDevice \in 2..(Len(pciDevices) + 1) /\ Len(pciDevices) \in Nat /\ driveNo \in {0, 1}
    BY AskedPlace DEF WalkInv
  <1> DEFINE c == pciDevices[nextDevice - 1]
  <1>2. PICK k \in 1..2 : /\ todo = Rest(c, k) /\ Controller(c)
                          /\ Limit = 4 * (nextDevice - 1) + 2 * k + driveNo
    BY AskedPlace
  <1>3. \A j : Rest(c, j)' = Rest(c, j)
    BY DEF Rest
  <1>4. Controller(c)'
    BY <1>2 DEF Controller
  <1>5. CASE driveNo = 0
    <2>1. driveNo' = 1 /\ todo' = Rest(c, k) /\ main' = "identify"
      BY <1>2, <1>5, RestIs DEF NextDrive
    <2>2. Asking'
      BY <2>1 DEF Asking
    <2>3. Limit' = Limit + 1
      BY <1>1, <1>2, <1>5, <2>1, <2>2, RestIs DEF Limit
    <2>4. WalkInv'
      BY <1>1, <1>2, <1>3, <1>4, <2>1, <2>2 DEF WalkInv, Located
    <2> QED
      BY <2>1, <2>3, <2>4
  <1>6. CASE driveNo # 0 /\ k = 1
    <2>1. driveNo' = 0 /\ todo' = Rest(c, 2) /\ main' = "identify"
      <3>1. Tail(todo) = Rest(c, 2) /\ Rest(c, 2) # << >>
        BY <1>2, <1>6, RestIs
      <3>2. driveNo' = 0
        BY <1>1, <1>6 DEF NextDrive
      <3>3. todo' = Tail(todo) /\ main' = IF todo' = << >> THEN "driver" ELSE "identify"
        BY <1>6 DEF NextDrive
      <3> QED
        BY <3>1, <3>2, <3>3
    <2>2. Asking'
      BY <2>1 DEF Asking
    <2>3. Limit' = Limit + 1
      BY <1>1, <1>2, <1>6, <2>1, <2>2, RestIs DEF Limit
    <2>4. WalkInv'
      BY <1>1, <1>3, <1>4, <2>1, <2>2 DEF WalkInv, Located
    <2> QED
      BY <2>1, <2>3, <2>4
  <1>7. CASE driveNo # 0 /\ k = 2
    <2>1. driveNo' = 0 /\ todo' = << >> /\ main' = "driver"
      BY <1>1, <1>2, <1>7, RestIs DEF NextDrive
    <2>2. ~Asking'
      BY <2>1 DEF Asking, Probing
    <2>3. Limit' = Limit + 1
      BY <1>1, <1>2, <1>7, <2>1, <2>2 DEF Limit
    <2>4. WalkInv'
      BY <1>1, <2>1, <2>2 DEF WalkInv, Located
    <2> QED
      BY <2>1, <2>3, <2>4
  <1> QED
    BY <1>5, <1>6, <1>7

LEMMA InitWalk == StartupInit => WalkInv
  <1> SUFFICES ASSUME StartupInit PROVE WalkInv
    OBVIOUS
  <1>1. /\ machine \in Machines /\ main = "pci" /\ pciDevices = << >> /\ nextDevice = 1 /\ driveNo = 0
        /\ storageDevices = << >>
    BY DEF StartupInit
  <1>2. ~Asking /\ Len(pciDevices) = 0
    BY <1>1 DEF Asking, Probing
  <1> QED
    BY <1>1, <1>2 DEF WalkInv

\* A step that stays with the drive that is asked.
LEMMA StayWalk ==
  ASSUME WalkInv, Asking, Asking', UNCHANGED <<machine, pciDevices, nextDevice, todo, driveNo>>
  PROVE  WalkInv' /\ Limit' = Limit
  <1>1. \A fun, k : Rest(fun, k)' = Rest(fun, k)
    BY DEF Rest
  <1>2. \A fun : Controller(fun)' = Controller(fun)
    BY DEF Controller
  <1>3. main # "pci" /\ main' # "pci" /\ main' \notin {"scan", "mount", "up"}
    BY DEF Asking, Probing
  <1>4. WalkInv'
    BY <1>1, <1>2, <1>3 DEF WalkInv
  <1> QED
    BY <1>4 DEF Limit

\* A step of the scan.
LEMMA ScanWalk ==
  ASSUME WalkInv, main \in {"scan", "mount"}, main' \in {"scan", "mount", "up", "waitIDEIRQ"},
         UNCHANGED <<machine, pciDevices, nextDevice, driveNo, storageDevices>>
  PROVE  WalkInv' /\ Limit' = Limit
  <1>1. ~Asking /\ ~Asking' /\ main # "pci" /\ main' # "pci"
    BY DEF Asking, Probing
  <1> QED
    BY <1>1 DEF WalkInv, Limit

LEMMA InitializePCIWalk ==
  ASSUME WalkInv, InitializePCI
  PROVE  /\ WalkInv' /\ Located' /\ Limit' = 6 /\ storageDevices' = << >>
  <1>1. /\ main = "pci" /\ pciDevices' = initializePCI(machine.pci) /\ main' = "driver"
        /\ UNCHANGED <<machine, nextDevice, driveNo, storageDevices>>
    BY DEF InitializePCI, result
  <1>2. /\ machine \in Machines /\ driveNo = 0 /\ nextDevice = 1 /\ storageDevices = << >>
    BY <1>1 DEF WalkInv, Asking, Probing
  <1>3. ~Asking'
    BY <1>1 DEF Asking, Probing
  <1>4. Len(pciDevices') \in Nat
    <2>1. initializePCI(machine.pci) \in Seq(Devices)
      BY <1>2, ScanIs DEF Ordered
    <2> QED
      BY <1>1, <2>1
  <1>5. WalkInv'
    BY <1>1, <1>2, <1>3, <1>4 DEF WalkInv
  <1> QED
    BY <1>1, <1>2, <1>3, <1>5 DEF Located, Limit

\* Whether the device is a controller or not: none comes between.
LEMMA NewDriverWalk ==
  ASSUME WalkInv, NewDriver
  PROVE  /\ WalkInv' /\ Located /\ UNCHANGED <<machine, pciDevices, storageDevices>>
         /\ Limit \in Nat /\ Limit' \in Nat
         /\ \A u \in Attached : Turn(u) < Limit' <=> Turn(u) < Limit
  <1>1. /\ main = "driver" /\ nextDevice <= Len(pciDevices) /\ nextDevice' = nextDevice + 1
        /\ UNCHANGED <<machine, pciDevices, driveNo, storageDevices>>
    BY DEF NewDriver
  <1>2. Located /\ driveNo = 0 /\ nextDevice \in 1..(Len(pciDevices) + 1)
    BY <1>1 DEF WalkInv, Asking, Probing, Located
  <1>3. PICK i \in 1..Len(pciDevices) : i = nextDevice /\ Len(pciDevices) \in Nat
    BY <1>1, <1>2, ControllersListed
  <1>4. Limit = 4 * i + 2
    BY <1>1, <1>3 DEF Limit, Asking, Probing
  <1>5. CASE IsIDE(machine.pci, pciDevices[nextDevice])
    <2>1. main' = "identify" /\ todo' = Channels(machine.pci, pciDevices[nextDevice])
      BY <1>5 DEF NewDriver
    <2>2. Controller(pciDevices[i])
      BY <1>2, <1>3, <1>5, ControllersListed
    <2>3. Asking' /\ Controller(pciDevices[i])' /\ todo' = Rest(pciDevices[i], 1)'
      BY <1>1, <1>3, <2>1, <2>2 DEF Asking, Controller, Rest
    <2>4. nextDevice' - 1 = i /\ nextDevice' > 1 /\ nextDevice' \in 1..(Len(pciDevices) + 1)
      BY <1>1, <1>3
    <2>5. WalkInv'
      BY <1>1, <1>2, <2>1, <2>3, <2>4 DEF WalkInv, Located
    <2>6. Len(todo') = 2
      <3>1. todo' = Rest(pciDevices[i], 1)
        BY <1>3, <2>1 DEF Rest
      <3>2. Len(Rest(pciDevices[i], 1)) = 2
        BY RestIs
      <3> QED
        BY <3>1, <3>2, Zenon
    <2>7. Limit' = 4 * i + 2
      <3>1. Limit' = 4 * (nextDevice' - 1) + 2 * (3 - Len(todo')) + driveNo'
        BY <2>3 DEF Limit
      <3>2. nextDevice' - 1 = i /\ Len(todo') = 2 /\ driveNo' = 0
        BY <1>1, <1>2, <2>4, <2>6
      <3> QED
        BY <3>1, <3>2
    <2> QED
      BY <1>1, <1>2, <1>3, <1>4, <2>5, <2>7
  <1>6. CASE ~IsIDE(machine.pci, pciDevices[nextDevice])
    <2>1. main' = "driver" /\ todo' = todo
      BY <1>1, <1>6 DEF NewDriver
    <2>2. ~Controller(pciDevices[i])
      BY <1>2, <1>3, <1>6, ControllersListed
    <2>3. ~Asking' /\ nextDevice' \in 1..(Len(pciDevices) + 1)
      BY <1>1, <1>3, <2>1 DEF Asking, Probing
    <2>4. WalkInv'
      BY <1>1, <1>2, <2>1, <2>3 DEF WalkInv, Located
    <2>5. Limit' = 4 * i + 6
      BY <1>1, <1>3, <2>3 DEF Limit
    <2>6. ASSUME NEW u \in Attached PROVE Turn(u) < 4 * i + 6 <=> Turn(u) < 4 * i + 2
      <3>1. PICK j, l : On(u, j, l)
        BY <1>2, AttachedIs
      <3>2. /\ Turn(u) = 4 * j + 2 * l + u[2] /\ u[2] \in {0, 1}
            /\ j \in 1..Len(pciDevices) /\ l \in 1..2 /\ Controller(pciDevices[j])
        BY <1>2, <3>1, AttachedIs, TurnIs DEF On
      <3>3. j # i
        BY <2>2, <3>2
      <3> QED
        BY <1>3, <3>2, <3>3
    <2> QED
      BY <1>1, <1>2, <1>3, <1>4, <2>4, <2>5, <2>6
  <1> QED
    BY <1>5, <1>6

LEMMA DriversDoneWalk ==
  ASSUME WalkInv, DriversDone
  PROVE  WalkInv' /\ Limit' = Limit
  <1>1. /\ main = "driver" /\ nextDevice > Len(pciDevices) /\ main' = "scan"
        /\ UNCHANGED <<machine, pciDevices, nextDevice, driveNo, storageDevices>>
    BY DEF DriversDone, pci, result
  <1>2. ~Asking /\ ~Asking'
    BY <1>1 DEF Asking, Probing
  <1> QED
    BY <1>1, <1>2 DEF WalkInv, Limit

\* Every step goes on with the walk or leaves it where it is.
LEMMA NextWalk ==
  ASSUME WalkInv, [StartupNext]_startupVars
  PROVE  WalkInv'
  <1>1. CASE Identify \/ Sleep
    <2>1. /\ main \in {"identify", "sleep"} /\ main' \in {"present", "read"}
          /\ UNCHANGED <<machine, pciDevices, nextDevice, todo, driveNo>>
      BY <1>1 DEF Identify, Sleep, pci
    <2> QED
      BY <2>1, StayWalk DEF Asking, Probing
  <1>2. CASE PollIdentify
    <2>1. /\ main = "poll" /\ main' \in {"signature", "read"}
          /\ UNCHANGED <<machine, pciDevices, nextDevice, todo, driveNo>>
      BY <1>2 DEF PollIdentify, pci
    <2> QED
      BY <2>1, StayWalk DEF Asking, Probing
  <1>3. CASE IsPresent
    <2>1. main = "present" /\ UNCHANGED <<machine, pciDevices, nextDevice>>
      BY <1>3 DEF IsPresent, pci
    <2>2. NextDrive \/ (main' = "poll" /\ UNCHANGED <<todo, driveNo>>)
      BY <1>3 DEF IsPresent
    <2> QED
      BY <2>1, <2>2, StayWalk, AdvanceWalk DEF Asking, Probing
  <1>4. CASE Signature
    <2>1. main = "signature" /\ UNCHANGED <<machine, pciDevices, nextDevice>>
      BY <1>4 DEF Signature, pci
    <2>2. NextDrive \/ (main' = "sleep" /\ UNCHANGED <<todo, driveNo>>)
      BY <1>4 DEF Signature
    <2> QED
      BY <2>1, <2>2, StayWalk, AdvanceWalk DEF Asking, Probing
  <1>5. CASE ReadIdentification
    <2>1. main = "read" /\ NextDrive /\ UNCHANGED <<machine, pciDevices, nextDevice>>
      BY <1>5 DEF ReadIdentification, pci
    <2> QED
      BY <2>1, AdvanceWalk DEF Asking, Probing
  <1>6. CASE ReadMBR \/ Mount \/ Mounted \/ Finish
    <2>1. /\ main \in {"scan", "mount"} /\ main' \in {"scan", "mount", "up", "waitIDEIRQ"}
          /\ UNCHANGED <<machine, pciDevices, nextDevice, driveNo, storageDevices>>
      BY <1>6 DEF ReadMBR, Mount, Mounted, Finish, pci, result
    <2> QED
      BY <2>1, ScanWalk
  <1>7. CASE Answers \/ UNCHANGED startupVars
    <2>1. UNCHANGED <<machine, main, pciDevices, nextDevice, todo, driveNo, storageDevices>>
      BY <1>7 DEF Answers, Answer, startupVars, pci, result
    <2>2. Asking' = Asking
      BY <2>1 DEF Asking, Probing
    <2>3. \A fun, k : Rest(fun, k)' = Rest(fun, k) /\ Controller(fun)' = Controller(fun)
      BY <2>1 DEF Rest, Controller
    <2> QED
      BY <2>1, <2>2, <2>3 DEF WalkInv
  <1> QED
    BY <1>1, <1>2, <1>3, <1>4, <1>5, <1>6, <1>7, InitializePCIWalk, NewDriverWalk, DriversDoneWalk
    DEF StartupNext, Kernel

LEMMA InitAsk == StartupInit => AskInv
  BY DEF StartupInit, AskInv

\* No answer is expected before the next question.
LEMMA NoneAsked ==
  ASSUME main \notin {"present", "poll", "signature", "sleep", "read"}
  PROVE  AskInv
  BY DEF AskInv

\* What a step has to leave alone to have the same drive asked.
LEMMA SameAsked ==
  ASSUME UNCHANGED <<machine, todo, driveNo>>
  PROVE  /\ Selected' = Selected /\ Expected' = Expected /\ Absent' = Absent
         /\ \A u : Present(u)' = Present(u)
  BY DEF Selected, channel, Expected, Absent, Kind, Present

LEMMA NextAsk ==
  ASSUME WalkInv, ProbeInv, AskInv, [StartupNext]_startupVars
  PROVE  ~late' => AskInv'
  <1> SUFFICES ASSUME ~late' PROVE AskInv'
    OBVIOUS
  <1>m. machine.floating = {} \/ "ERR" \in machine.floating
    BY MachineAssumption DEF WalkInv
  <1>1. CASE InitializePCI \/ NewDriver \/ DriversDone \/ ReadMBR \/ Mount \/ Mounted \/ Finish
    BY <1>1 DEF InitializePCI, NewDriver, DriversDone, ReadMBR, Mount, Mounted, Finish, AskInv
  <1>2. ASSUME NextDrive PROVE AskInv'
    BY <1>2 DEF NextDrive, AskInv
  <1>3. CASE Identify
    <2>1. /\ main = "identify" /\ main' = "present" /\ Give("IDENTIFY") /\ UNCHANGED <<machine, todo, driveNo>>
      BY <1>3 DEF Identify
    <2>2. Present(Selected) => cmd'[Selected] = "IDENTIFY" /\ phase'[Selected] = "busy"
      BY <2>1 DEF Give, Present, ProbeInv
    <2> QED
      BY <2>1, <2>2, SameAsked DEF AskInv
  <1>4. CASE IsPresent /\ ~NextDrive
    <2>1. /\ main = "present" /\ main' = "poll" /\ UNCHANGED <<machine, todo, driveNo, phase, cmd>> /\ Status # {}
      BY <1>4 DEF IsPresent, hardware
    <2>2. Present(Selected) \/ Absent # {}
      BY <2>1 DEF Status
    <2> QED
      BY <2>1, <2>2, SameAsked DEF AskInv
  <1>5. CASE PollIdentify
    <2>1. /\ main = "poll" /\ UNCHANGED <<machine, todo, driveNo, phase, cmd, late>>
          /\ \/ "ERR" \in Status /\ main' = "signature"
             \/ "ERR" \notin Status /\ "BSY" \notin Status /\ main' = "read"
      BY <1>5 DEF PollIdentify, hardware, history
    <2>2. CASE main' = "signature"
      <3>1. Selected \in Expected => machine.drives[Selected].kind = "packet"
        <4>1. ASSUME Selected \in Expected PROVE machine.drives[Selected].kind = "packet"
          <5>1. Progress(Selected)
            BY <2>1, <4>1 DEF ProbeInv, AtRest, Probing
          <5>2. phase[Selected] \notin {"idle", "busy", "data"}
            BY <2>1, <2>2, <4>1, StatusOfPresent
          <5> QED
            BY <2>1, <5>1, <5>2 DEF Progress
        <4> QED
          BY <4>1
      <3> QED
        BY <2>1, <2>2, <3>1, SameAsked DEF AskInv
    <2>3. CASE main' = "read"
      <3>1. "ERR" \notin Status /\ "BSY" \notin Status
        BY <2>1, <2>3
      <3>2. Present(Selected)
        <4>1. "ERR" \in Absent \/ Absent = {}
          BY <1>m DEF Absent
        <4> QED
          BY <2>1, <3>1, <4>1 DEF AskInv, Status
      <3>3. Selected \in Expected
        <4>1. ASSUME Selected \notin Expected PROVE FALSE
          <5>1. phase[Selected] \in {"busy", "aborted"}
            BY <2>1, <3>2, <4>1 DEF AskInv
          <5> QED
            BY <3>1, <3>2, <5>1 DEF Status
        <4> QED
          BY <4>1
      <3>4. Progress(Selected)
        BY <2>1, <3>3 DEF ProbeInv, AtRest, Probing
      <3>5. cmd[Selected] = "IDENTIFY" /\ machine.drives[Selected].kind = "ata"
        <4>1. phase[Selected] \notin {"busy", "aborted"}
          BY <3>1, <3>2 DEF Status
        <4> QED
          BY <2>1, <3>4, <4>1 DEF Progress
      <3> QED
        BY <2>1, <2>3, <3>3, <3>5, SameAsked DEF AskInv
    <2> QED
      BY <2>1, <2>2, <2>3
  <1>6. CASE Signature /\ ~NextDrive
    <2>1. /\ main = "signature" /\ main' = "sleep" /\ Give("IDENTIFY_PACKET")
          /\ UNCHANGED <<machine, todo, driveNo>>
          /\ Present(Selected) /\ machine.drives[Selected].kind = "packet"
      BY <1>6 DEF Signature
    <2>2. cmd'[Selected] = "IDENTIFY_PACKET" /\ Selected \in Expected
      BY <2>1 DEF Give, Present, ProbeInv, Expected
    <2> QED
      BY <2>1, <2>2, SameAsked DEF AskInv
  <1>7. CASE Sleep
    <2>1. /\ main = "sleep" /\ main' = "read" /\ UNCHANGED <<machine, todo, driveNo, phase, cmd>>
      BY <1>7 DEF Sleep, hardware
    <2> QED
      BY <2>1, SameAsked DEF AskInv
  <1>8. CASE ReadIdentification
    BY <1>2, <1>8 DEF ReadIdentification
  <1>9. CASE Answers
    <2>1. PICK w \in DOMAIN phase : Answer(w)
      BY <1>9 DEF Answers
    <2>2. /\ UNCHANGED <<machine, main, todo, driveNo, cmd>>
          /\ phase' = [phase EXCEPT ![w] = IF \/ cmd[w] = "IDENTIFY" /\ machine.drives[w].kind = "ata"
                                              \/ cmd[w] = "IDENTIFY_PACKET" /\ machine.drives[w].kind = "packet"
                                           THEN "data" ELSE "aborted"]
      BY <2>1 DEF Answer
    <2>3. ASSUME main \in {"present", "poll"}, Present(Selected), Selected \notin Expected
          PROVE  cmd[Selected] = "IDENTIFY" /\ phase'[Selected] \in {"busy", "aborted"}
      <3>1. cmd[Selected] = "IDENTIFY" /\ phase[Selected] \in {"busy", "aborted"}
        BY <2>3 DEF AskInv
      <3>2. machine.drives[Selected].kind # "ata"
        BY <2>3 DEF Expected, Present
      <3>3. phase'[Selected] = phase[Selected] \/ phase'[Selected] = "aborted"
        BY <2>2, <3>1, <3>2
      <3> QED
        BY <3>1, <3>3
    <2> QED
      BY <2>2, <2>3, SameAsked DEF AskInv
  <1>10. CASE UNCHANGED startupVars
    <2>1. UNCHANGED <<machine, main, todo, driveNo, phase, cmd>>
      BY <1>10 DEF startupVars, hardware
    <2> QED
      BY <2>1, SameAsked DEF AskInv
  <1> QED
    BY <1>1, <1>2, <1>3, <1>4, <1>5, <1>6, <1>7, <1>8, <1>9, <1>10 DEF StartupNext, Kernel

\* The list is one of what does not change.
LEMMA SameLists ==
  ASSUME UNCHANGED <<machine, pciDevices>>
  PROVE  \A s, n : Lists(s, n)' <=> Lists(s, n)
  <1>1. Attached' = Attached
    BY DEF Attached, Places
  <1>2. Entries' = Entries
    BY <1>1 DEF Entries
  <1>3. \A u : Turn(u)' = Turn(u)
    BY DEF Turn, On, Controller
  <1> QED
    BY <1>1, <1>2, <1>3 DEF Lists

\* Then it is enough to look at the new list.
LEMMA KeepsList ==
  ASSUME ~late' /\ main' # "pci" => Lists(storageDevices', Limit'), UNCHANGED <<machine, pciDevices>>
  PROVE  ListInv'
  <1>1. PICK s, n : s = storageDevices' /\ n = Limit'
    OBVIOUS
  <1>2. ~late' /\ main' # "pci" => Lists(s, n)'
    BY <1>1, SameLists
  <1>3. Lists(s, n)' <=> Lists(storageDevices, Limit)'
    BY <1>1 DEF Lists
  <1> QED
    BY <1>2, <1>3 DEF ListInv

\* A turn that nobody takes.
LEMMA PassedOver ==
  ASSUME WalkInv, Asking, Selected \notin Expected, Lists(storageDevices, Limit)
  PROVE  Lists(storageDevices, Limit + 1)
  <1>1. Located /\ Limit \in Nat
    BY AskedPlace, AskedTurn
  <1>2. ASSUME NEW u \in Attached PROVE Turn(u) < Limit + 1 <=> Turn(u) < Limit
    <2>1. Turn(u) \in Nat /\ Turn(u) # Limit
      BY <1>1, AttachedIs, AskedTurn, TurnsInOrder
    <2> QED
      BY <1>1, <2>1
  <1> QED
    BY <1>2 DEF Lists

\* The drive whose turn it is.
LEMMA OneMore ==
  ASSUME WalkInv, Asking, Selected \in Expected, NEW s, NEW d, s = storageDevices, Lists(s, Limit),
         d \in Entries, d.unit = Selected
  PROVE  Lists(Append(s, d), Limit + 1)
  <1>1. Located /\ Limit \in Nat /\ Selected \in Attached /\ Turn(Selected) = Limit
    BY AskedPlace, AskedTurn
  <1>2. /\ s \in Seq(Entries) /\ {s[n].unit : n \in 1..Len(s)} = {u \in Attached : Turn(u) < Limit}
        /\ \A m, n \in 1..Len(s) : m < n => Turn(s[m].unit) < Turn(s[n].unit)
    BY DEF Lists
  <1>3. PICK t : t = Append(s, d)
    OBVIOUS
  <1>4. /\ t \in Seq(Entries) /\ Len(t) = Len(s) + 1 /\ t[Len(s) + 1] = d
        /\ \A n \in 1..Len(s) : t[n] = s[n]
    BY <1>2, <1>3, AppendProperties
  <1>5. PICK l \in Nat : l = Len(s)
    BY <1>2
  <1>6. \A n \in 1..(l + 1) : n \in 1..l \/ n = l + 1
    BY <1>5
  <1>7. \A n \in 1..l : n \in 1..(l + 1)
    BY <1>5
  <1>8. {t[n].unit : n \in 1..(l + 1)} = {s[n].unit : n \in 1..l} \cup {Selected}
    BY <1>4, <1>5, <1>6, <1>7
  <1>9. {u \in Attached : Turn(u) < Limit + 1} = {u \in Attached : Turn(u) < Limit} \cup {Selected}
    <2>1. ASSUME NEW u \in Attached PROVE Turn(u) < Limit + 1 <=> Turn(u) < Limit \/ u = Selected
      <3>1. Turn(u) \in Nat /\ (Turn(u) = Limit => u = Selected)
        BY <1>1, AskedTurn, TurnsInOrder
      <3> QED
        BY <1>1, <3>1
    <2> QED
      BY <1>1, <2>1
  <1>10. ASSUME NEW m \in 1..(l + 1), NEW n \in 1..(l + 1), m < n PROVE Turn(t[m].unit) < Turn(t[n].unit)
    <2>1. CASE n \in 1..l
      <3>1. m \in 1..l
        BY <1>5, <1>10, <2>1
      <3> QED
        BY <1>2, <1>4, <1>5, <1>10, <2>1, <3>1
    <2>2. CASE n = l + 1
      <3>1. m \in 1..l
        BY <1>5, <1>10, <2>2
      <3>2. s[m].unit \in {u \in Attached : Turn(u) < Limit}
        BY <1>2, <1>5, <3>1
      <3> QED
        BY <1>1, <1>4, <1>5, <2>2, <3>1, <3>2
    <2> QED
      BY <1>6, <2>1, <2>2
  <1> QED
    BY <1>2, <1>3, <1>4, <1>5, <1>8, <1>9, <1>10 DEF Lists

\* What is made of an identification that came from the drive.
LEMMA RegisterIs ==
  ASSUME WalkInv, AskInv, main = "read", Selected \in Attached, Register(machine.drives[Selected].iden)
  PROVE  \E d \in Entries : d.unit = Selected /\ storageDevices' = Append(storageDevices, d)
  <1> DEFINE iden == machine.drives[Selected].iden
             d == [unit |-> Selected, sectors |-> Sectors(iden),
                   type |-> IF cmd[Selected] = "IDENTIFY" THEN "IDE_ATA" ELSE "IDE_ATAPI"]
  <1>1. storageDevices' = Append(storageDevices, d)
    BY DEF Register
  <1>2. iden \in [lba48 : BOOLEAN, maxLba : Nat, maxLbaExt : Nat]
    <2>1. Connected(machine.drives)
      BY MachineAssumption DEF WalkInv
    <2> QED
      BY <2>1 DEF Connected, Attached
  <1>3. Sectors(iden) \in Nat
    BY <1>2 DEF Sectors
  <1>4. cmd[Selected] = "IDENTIFY" <=> machine.drives[Selected].kind = "ata"
    BY DEF AskInv
  <1>5. d \in Entries
    BY <1>3, <1>4 DEF Entries
  <1>6. d.unit = Selected
    OBVIOUS
  <1> HIDE DEF d
  <1> QED
    BY <1>1, <1>5, <1>6

\* Nobody's turn comes before the first controller.
LEMMA NobodyYet == Located => Lists(<< >>, 6)
  <1> SUFFICES ASSUME Located PROVE Lists(<< >>, 6)
    OBVIOUS
  <1>1. ASSUME NEW u \in Attached PROVE ~(Turn(u) < 6)
    <2>1. PICK i, k : On(u, i, k)
      BY AttachedIs
    <2>2. /\ Turn(u) = 4 * i + 2 * k + u[2] /\ u[2] \in {0, 1} /\ Len(pciDevices) \in Nat
          /\ i \in 1..Len(pciDevices) /\ k \in 1..2
      <3>1. Turn(u) = 4 * i + 2 * k + u[2]
        BY <2>1, TurnIs
      <3>2. u[2] \in {0, 1}
        BY AttachedIs
      <3>3. Len(pciDevices) \in Nat
        BY ControllersListed
      <3> QED
        BY <2>1, <3>1, <3>2, <3>3 DEF On
    <2> QED
      BY <2>2
  <1>2. << >> \in Seq(Entries) /\ Len(<< >>) = 0
    BY EmptySeq
  <1>3. \A n \in 1..0 : FALSE
    OBVIOUS
  <1> QED
    BY <1>1, <1>2, <1>3 DEF Lists

LEMMA NobodyYetThen == Located' => Lists(<< >>, 6)'
  BY NobodyYet, PTL

LEMMA InitList == StartupInit => ListInv
  BY DEF StartupInit, ListInv

\* What was late stays late.
LEMMA LateStays ==
  ASSUME ProbeInv, [StartupNext]_startupVars, ~late'
  PROVE  ~late
  <1>1. CASE Sleep
    BY <1>1 DEF Sleep, ProbeInv
  <1>2. CASE ~Sleep
    BY <1>2 DEF StartupNext, Kernel, Answers, Answer, startupVars, history, InitializePCI, NewDriver, DriversDone,
                Identify, IsPresent, PollIdentify, Signature, ReadIdentification, ReadMBR, Mount, Mounted, Finish
  <1> QED
    BY <1>1, <1>2

LEMMA NextList ==
  ASSUME WalkInv, ProbeInv, ~late => AskInv, ListInv, [StartupNext]_startupVars
  PROVE  ListInv'
  <1> SUFFICES ASSUME ~late' PROVE ListInv'
    BY DEF ListInv
  <1>l. ~late
    BY LateStays
  <1>i. AskInv /\ (main # "pci" => Lists(storageDevices, Limit))
    BY <1>l DEF ListInv
  <1>1. CASE InitializePCI
    <2>1. WalkInv' /\ Located' /\ Limit' = 6 /\ storageDevices' = << >>
      BY <1>1, InitializePCIWalk
    <2>2. Lists(<< >>, 6)'
      BY <2>1, NobodyYetThen
    <2>3. PICK s, n : s = storageDevices' /\ n = Limit'
      OBVIOUS
    <2>4. Lists(s, n)'
      BY <2>1, <2>2, <2>3
    <2>5. Lists(s, n)' <=> Lists(storageDevices, Limit)'
      BY <2>3 DEF Lists
    <2> QED
      BY <2>4, <2>5 DEF ListInv
  <1>2. CASE NewDriver
    <2>1. /\ UNCHANGED <<machine, pciDevices, storageDevices>>
          /\ \A u \in Attached : Turn(u) < Limit' <=> Turn(u) < Limit
      BY <1>2, NewDriverWalk
    <2>2. Lists(storageDevices, Limit)
      BY <1>2, <1>i DEF NewDriver
    <2>3. Lists(storageDevices, Limit')
      BY <2>1, <2>2 DEF Lists
    <2> QED
      BY <2>1, <2>3, KeepsList
  <1>3. CASE DriversDone
    <2>1. UNCHANGED <<machine, pciDevices, storageDevices>> /\ Limit' = Limit /\ main # "pci"
      BY <1>3, DriversDoneWalk DEF DriversDone, pci, result
    <2> QED
      BY <1>i, <2>1, KeepsList
  <1>4. ASSUME Asking, Asking', UNCHANGED <<machine, pciDevices, nextDevice, todo, driveNo, storageDevices>>
        PROVE  ListInv'
    <2>1. Limit' = Limit /\ main # "pci"
      BY <1>4, StayWalk DEF Asking, Probing
    <2> QED
      BY <1>4, <1>i, <2>1, KeepsList
  <1>5. CASE Identify \/ Sleep
    <2>1. /\ main \in {"identify", "sleep"} /\ main' \in {"present", "read"}
          /\ UNCHANGED <<machine, pciDevices, nextDevice, todo, driveNo, storageDevices>>
      BY <1>5 DEF Identify, Sleep, pci, result
    <2> QED
      BY <1>4, <2>1 DEF Asking, Probing
  <1>6. CASE PollIdentify
    <2>1. /\ main = "poll" /\ main' \in {"signature", "read"}
          /\ UNCHANGED <<machine, pciDevices, nextDevice, todo, driveNo, storageDevices>>
      BY <1>6 DEF PollIdentify, pci, result
    <2> QED
      BY <1>4, <2>1 DEF Asking, Probing
  <1>7. ASSUME Asking, NextDrive, Selected \notin Expected, UNCHANGED <<machine, pci, storageDevices>>
        PROVE  ListInv'
    <2>1. Limit' = Limit + 1 /\ main # "pci" /\ UNCHANGED <<machine, pciDevices, storageDevices>>
      BY <1>7, AdvanceWalk DEF Asking, Probing, pci
    <2>2. Lists(storageDevices, Limit + 1)
      BY <1>7, <1>i, <2>1, PassedOver
    <2> QED
      BY <2>1, <2>2, KeepsList
  <1>8. CASE IsPresent
    <2>1. main = "present" /\ UNCHANGED <<machine, pci, storageDevices>>
      BY <1>8 DEF IsPresent, result
    <2>2. CASE Status = {}
      <3>1. NextDrive /\ Selected \notin Expected
        BY <1>8, <2>2, StatusOfPresent DEF IsPresent
      <3> QED
        BY <1>7, <2>1, <3>1 DEF Asking, Probing
    <2>3. CASE Status # {}
      <3>1. main' = "poll" /\ UNCHANGED <<todo, driveNo>>
        BY <1>8, <2>3 DEF IsPresent
      <3> QED
        BY <1>4, <2>1, <3>1 DEF Asking, Probing, pci
    <2> QED
      BY <2>2, <2>3
  <1>9. CASE Signature
    <2>1. main = "signature" /\ UNCHANGED <<machine, pci, storageDevices>>
      BY <1>9 DEF Signature, result
    <2>2. CASE Present(Selected) /\ machine.drives[Selected].kind = "packet"
      <3>1. main' = "sleep" /\ UNCHANGED <<todo, driveNo>>
        BY <1>9, <2>2 DEF Signature
      <3> QED
        BY <1>4, <2>1, <3>1 DEF Asking, Probing, pci
    <2>3. CASE ~(Present(Selected) /\ machine.drives[Selected].kind = "packet")
      <3>1. NextDrive
        BY <1>9, <2>3 DEF Signature
      <3>2. Selected \notin Expected
        BY <1>i, <2>1, <2>3 DEF AskInv, Expected, Present
      <3> QED
        BY <1>7, <2>1, <3>1, <3>2 DEF Asking, Probing
    <2> QED
      BY <2>2, <2>3
  <1>10. CASE ReadIdentification
    <2>1. main = "read" /\ NextDrive /\ UNCHANGED <<machine, pciDevices, nextDevice>>
      BY <1>10 DEF ReadIdentification, pci
    <2>2. Asking /\ Selected \in Expected
      BY <1>i, <2>1 DEF Asking, Probing, AskInv
    <2>3. phase[Selected] = "data"
      BY <1>l, <2>1, <2>2 DEF ProbeInv, AtRest, Progress, Probing
    <2>4. Register(machine.drives[Selected].iden)
      BY <1>10, <2>3 DEF ReadIdentification
    <2>5. PICK d \in Entries : d.unit = Selected /\ storageDevices' = Append(storageDevices, d)
      BY <1>i, <2>1, <2>2, <2>4, AskedTurn, RegisterIs
    <2>6. PICK s : s = storageDevices
      OBVIOUS
    <2>7. Lists(Append(s, d), Limit + 1)
      BY <1>i, <2>1, <2>2, <2>5, <2>6, OneMore
    <2>8. Limit' = Limit + 1
      BY <2>1, <2>2, AdvanceWalk
    <2> QED
      BY <2>1, <2>5, <2>6, <2>7, <2>8, KeepsList
  <1>11. CASE ReadMBR \/ Mount \/ Mounted \/ Finish
    <2>1. /\ main \in {"scan", "mount"} /\ main' \in {"scan", "mount", "up", "waitIDEIRQ"}
          /\ UNCHANGED <<machine, pciDevices, nextDevice, driveNo, storageDevices>>
      BY <1>11 DEF ReadMBR, Mount, Mounted, Finish, pci, result
    <2>2. Limit' = Limit /\ main # "pci"
      BY <2>1, ScanWalk
    <2> QED
      BY <1>i, <2>1, <2>2, KeepsList
  <1>12. CASE Answers \/ UNCHANGED startupVars
    <2>1. UNCHANGED <<machine, main, pciDevices, nextDevice, todo, driveNo, storageDevices>>
      BY <1>12 DEF Answers, Answer, startupVars, pci, result
    <2>2. Limit' = Limit
      BY <2>1 DEF Limit, Asking, Probing
    <2> QED
      BY <1>i, <2>1, <2>2, KeepsList
  <1> QED
    BY <1>1, <1>2, <1>3, <1>5, <1>6, <1>8, <1>9, <1>10, <1>11, <1>12 DEF StartupNext, Kernel
-----------------------------------------------------------------------------
(* What is mounted.                                                        *)

EntriesOf(n) == machine.drives[storageDevices[n].unit].mbr

\* What devices 1 to n have, and the first m entries of device n.
Gathered(n) == FlattenSeq([k \in 1..n |-> Partitions(storageDevices[k])])
Mounting(n, m) == FlattenSeq([k \in 1..m |-> Partition(storageDevices[n].unit, EntriesOf(n)[k])])

Scanning == main \in {"scan", "mount", "up"}

MountInv ==
  /\ ~Scanning /\ main # "waitIDEIRQ" => at = 1 /\ fileSystems = << >>
  /\ Scanning /\ ~late /\ ~mbrFailed =>
       /\ at \in 1..(Len(storageDevices) + 1)
       /\ main # "mount" => fileSystems = Gathered(at - 1)
       /\ main = "mount" =>
            /\ at <= Len(storageDevices)
            /\ storageDevices[at].type = "IDE_ATA" /\ storageDevices[at].sectors # 0
            /\ \E m \in 0..Len(EntriesOf(at)) :
                 /\ mbr = SubSeq(EntriesOf(at), m + 1, Len(EntriesOf(at)))
                 /\ fileSystems = Gathered(at - 1) \o Mounting(at, m)
       /\ main = "up" => at > Len(storageDevices)

\* What FlattenSeq puts together is of the kind of its parts.
LEMMA FlattenTyped ==
  ASSUME NEW S, NEW n \in Nat, NEW seqs \in [1..n -> Seq(S)]
  PROVE  FlattenSeq(seqs) \in Seq(S) /\ (n = 0 => FlattenSeq(seqs) = << >>)
  <1>1. PICK flat : Flattens(flat, S, n, seqs)
    BY FlattenIs
  <1> QED
    BY <1>1 DEF Flattens

PartitionEntries == [id : Nat, lba : Nat]
Files == [unit : DOMAIN machine.drives, lba : Nat]

\* All that is attached is listed.
LEMMA AllListed ==
  ASSUME WalkInv, ListInv, ~late, Scanning
  PROVE  /\ Located /\ Lists(storageDevices, Limit) /\ \A u \in Attached : Turn(u) < Limit
  <1>1. Located /\ nextDevice > Len(pciDevices) /\ ~Asking
    BY DEF WalkInv, Scanning, Located, Asking, Probing
  <1>2. Lists(storageDevices, Limit)
    BY DEF ListInv, Scanning
  <1>3. ASSUME NEW u \in Attached PROVE Turn(u) < Limit
    <2>1. PICK i, k : On(u, i, k)
      BY <1>1, AttachedIs
    <2>2. /\ Turn(u) = 4 * i + 2 * k + u[2] /\ u[2] \in {0, 1} /\ Len(pciDevices) \in Nat
          /\ i \in 1..Len(pciDevices) /\ k \in 1..2
      <3>1. Turn(u) = 4 * i + 2 * k + u[2]
        BY <1>1, <2>1, TurnIs
      <3>2. u[2] \in {0, 1}
        BY <1>1, AttachedIs
      <3>3. Len(pciDevices) \in Nat
        BY <1>1, ControllersListed
      <3> QED
        BY <2>1, <3>1, <3>2, <3>3 DEF On
    <2>3. Limit = 4 * nextDevice + 2 /\ nextDevice \in Nat
      BY <1>1, <2>2 DEF Limit, WalkInv
    <2> QED
      BY <1>1, <2>2, <2>3
  <1> QED
    BY <1>1, <1>2, <1>3

\* With that, in their order, DevicesFound is the case.
LEMMA ListIsFound ==
  ASSUME WalkInv, ListInv, ~late, Scanning
  PROVE  DevicesFound
  <1>1. /\ storageDevices \in Seq(Entries) /\ Located
        /\ {storageDevices[n].unit : n \in 1..Len(storageDevices)} = Attached
        /\ \A m, n \in 1..Len(storageDevices) :
             m < n => Turn(storageDevices[m].unit) < Turn(storageDevices[n].unit)
    BY AllListed DEF Lists
  <1>2. \A n \in 1..Len(storageDevices) : storageDevices[n] \in Entries
    BY <1>1
  <1>3. ASSUME NEW n \in 1..Len(storageDevices), NEW m \in 1..(n - 1),
               NEW p \in Places(storageDevices[m].unit[1]), NEW q \in Places(storageDevices[n].unit[1])
        PROVE  p < q \/ (p = q /\ storageDevices[m].unit[2] < storageDevices[n].unit[2])
    <2>1. Len(storageDevices) \in Nat
      BY <1>1
    <2>2. m \in 1..Len(storageDevices) /\ m < n
      BY <2>1
    <2>3. Turn(storageDevices[m].unit) < Turn(storageDevices[n].unit)
      BY <1>1, <2>2
    <2>4. storageDevices[m].unit \in Attached /\ storageDevices[n].unit \in Attached
      BY <1>2, <2>2 DEF Entries
    <2> QED
      BY <1>1, <2>3, <2>4, TurnsInOrder
  <1>4. \A n \in 1..Len(storageDevices) :
          /\ storageDevices[n].sectors = Sectors(machine.drives[storageDevices[n].unit].iden)
          /\ storageDevices[n].type = "IDE_ATA" <=> machine.drives[storageDevices[n].unit].kind = "ata"
    BY <1>2 DEF Entries
  <1> QED
    BY <1>1, <1>3, <1>4 DEF DevicesFound

\* The devices of the list and their entries.
LEMMA EntriesTyped ==
  ASSUME WalkInv, ListInv, ~late, Scanning
  PROVE  /\ storageDevices \in Seq(Entries) /\ Len(storageDevices) \in Nat
         /\ \A n \in 1..Len(storageDevices) :
              /\ storageDevices[n] \in Entries /\ storageDevices[n].unit \in DOMAIN machine.drives
              /\ EntriesOf(n) \in Seq(PartitionEntries) /\ Len(EntriesOf(n)) \in Nat
  <1>1. storageDevices \in Seq(Entries) /\ Located
    BY AllListed DEF Lists
  <1>2. Connected(machine.drives)
    BY <1>1, MachineAssumption DEF Located
  <1>3. ASSUME NEW n \in 1..Len(storageDevices)
        PROVE  /\ storageDevices[n] \in Entries /\ storageDevices[n].unit \in DOMAIN machine.drives
               /\ EntriesOf(n) \in Seq(PartitionEntries) /\ Len(EntriesOf(n)) \in Nat
    <2>1. storageDevices[n] \in Entries
      BY <1>1
    <2>2. storageDevices[n].unit \in DOMAIN machine.drives
      BY <2>1 DEF Entries, Attached
    <2>3. EntriesOf(n) \in Seq(PartitionEntries)
      BY <1>2, <2>2 DEF Connected, EntriesOf, PartitionEntries
    <2> QED
      BY <2>1, <2>2, <2>3
  <1> QED
    BY <1>1, <1>3

\* One more entry.
LEMMA MountingOne ==
  ASSUME WalkInv, ListInv, ~late, Scanning, NEW n \in 1..Len(storageDevices), NEW m \in Nat, m < Len(EntriesOf(n))
  PROVE  /\ Mounting(n, m) \in Seq(Files)
         /\ Partition(storageDevices[n].unit, EntriesOf(n)[m + 1]) \in Seq(Files)
         /\ Mounting(n, m + 1) = Mounting(n, m) \o Partition(storageDevices[n].unit, EntriesOf(n)[m + 1])
  <1> DEFINE part(k) == Partition(storageDevices[n].unit, EntriesOf(n)[k])
             long == [k \in 1..(m + 1) |-> part(k)]
  <1>1. /\ storageDevices[n].unit \in DOMAIN machine.drives
        /\ EntriesOf(n) \in Seq(PartitionEntries) /\ Len(EntriesOf(n)) \in Nat
    BY EntriesTyped
  <1>2. ASSUME NEW k \in 1..(m + 1) PROVE part(k) \in Seq(Files)
    <2>1. k \in 1..Len(EntriesOf(n))
      BY <1>1
    <2>2. EntriesOf(n)[k] \in PartitionEntries
      BY <1>1, <2>1
    <2>3. [unit |-> storageDevices[n].unit, lba |-> EntriesOf(n)[k].lba] \in Files
      BY <1>1, <2>2 DEF Files, PartitionEntries
    <2> QED
      BY <2>3, EmptySeq DEF Partition
  <1> HIDE DEF part
  <1>3. long \in [1..(m + 1) -> Seq(Files)]
    BY <1>2
  <1>4. long[m + 1] = part(m + 1) /\ m + 1 \in 1..(m + 1) /\ \A k \in 1..m : k \in 1..(m + 1) /\ long[k] = part(k)
    OBVIOUS
  <1>5. [k \in 1..m |-> long[k]] = [k \in 1..m |-> part(k)]
    BY <1>4
  <1>6. [k \in 1..m |-> part(k)] \in [1..m -> Seq(Files)]
    BY <1>2, <1>4
  <1> HIDE DEF long
  <1>7. FlattenSeq(long) = FlattenSeq([k \in 1..m |-> part(k)]) \o part(m + 1)
    BY <1>3, <1>4, <1>5, FlattenLonger
  <1>8. FlattenSeq([k \in 1..m |-> part(k)]) \in Seq(Files)
    BY <1>6, FlattenTyped
  <1> QED
    BY <1>2, <1>4, <1>7, <1>8 DEF long, part, Mounting

LEMMA MountingNone ==
  ASSUME NEW n
  PROVE  Mounting(n, 0) = << >>
  <1> DEFINE none == [k \in 1..0 |-> Partition(storageDevices[n].unit, EntriesOf(n)[k])]
  <1>1. none \in [1..0 -> Seq({})]
    OBVIOUS
  <1> HIDE DEF none
  <1>2. FlattenSeq(none) = << >>
    <2>1. PICK zero \in Nat : zero = 0
      OBVIOUS
    <2> QED
      BY <1>1, <2>1, FlattenTyped
  <1> QED
    BY <1>2 DEF none, Mounting

\* One more device.
LEMMA GatheredOne ==
  ASSUME WalkInv, ListInv, ~late, Scanning, NEW n \in 1..Len(storageDevices)
  PROVE  /\ Gathered(n - 1) \in Seq(Files)
         /\ Gathered(n) = Gathered(n - 1) \o Partitions(storageDevices[n])
         /\ Partitions(storageDevices[n]) =
              IF storageDevices[n].type = "IDE_ATA" /\ storageDevices[n].sectors # 0
              THEN Mounting(n, Len(EntriesOf(n))) ELSE << >>
  <1> DEFINE part(k) == Partitions(storageDevices[k])
  <1>1. Len(storageDevices) \in Nat
    BY EntriesTyped
  <1>2. PICK m \in Nat : m = n - 1 /\ m + 1 = n
    BY <1>1
  <1>3. ASSUME NEW k \in 1..Len(storageDevices)
        PROVE  /\ part(k) = IF storageDevices[k].type = "IDE_ATA" /\ storageDevices[k].sectors # 0
                            THEN Mounting(k, Len(EntriesOf(k))) ELSE << >>
               /\ part(k) \in Seq(Files)
    <2>1. part(k) = IF storageDevices[k].type = "IDE_ATA" /\ storageDevices[k].sectors # 0
                    THEN Mounting(k, Len(EntriesOf(k))) ELSE << >>
      BY DEF Partitions, Mounting, EntriesOf
    <2>2. Mounting(k, Len(EntriesOf(k))) \in Seq(Files)
      <3>1. PICK l \in Nat : l = Len(EntriesOf(k))
        BY EntriesTyped
      <3>2. CASE l = 0
        BY <3>1, <3>2, MountingNone, EmptySeq
      <3>3. CASE l # 0
        <4>1. PICK h \in Nat : h + 1 = l
          <5>1. l - 1 \in Nat /\ (l - 1) + 1 = l
            BY <3>3
          <5> QED
            BY <5>1
        <4>2. h < Len(EntriesOf(k))
          BY <3>1, <4>1
        <4>3. PICK s \in Seq(Files), t \in Seq(Files) : Mounting(k, h + 1) = s \o t
          BY <4>2, MountingOne
        <4> QED
          BY <3>1, <4>1, <4>3, ConcatProperties
      <3> QED
        BY <3>2, <3>3
    <2> QED
      BY <2>1, <2>2, EmptySeq
  <1> HIDE DEF part
  <1> DEFINE long == [k \in 1..(m + 1) |-> part(k)]
  <1>4. \A k \in 1..(m + 1) : k \in 1..Len(storageDevices)
    BY <1>1, <1>2
  <1>5. long \in [1..(m + 1) -> Seq(Files)]
    BY <1>3, <1>4
  <1>6. long[m + 1] = part(m + 1) /\ m + 1 \in 1..(m + 1) /\ \A k \in 1..m : k \in 1..(m + 1) /\ long[k] = part(k)
    OBVIOUS
  <1>7. [k \in 1..m |-> long[k]] = [k \in 1..m |-> part(k)]
    BY <1>6
  <1>8. [k \in 1..m |-> part(k)] \in [1..m -> Seq(Files)]
    BY <1>3, <1>4, <1>6
  <1> HIDE DEF long
  <1>9. FlattenSeq(long) = FlattenSeq([k \in 1..m |-> part(k)]) \o part(m + 1)
    BY <1>5, <1>6, <1>7, FlattenLonger
  <1>10. FlattenSeq([k \in 1..m |-> part(k)]) \in Seq(Files)
    BY <1>8, FlattenTyped
  <1>11. /\ Gathered(m) \in Seq(Files) /\ Gathered(m + 1) = Gathered(m) \o part(m + 1)
    BY <1>9, <1>10 DEF long, part, Gathered
  <1> QED
    BY <1>2, <1>3, <1>11 DEF part

LEMMA GatheredNone == Gathered(0) = << >>
  <1> DEFINE none == [k \in 1..0 |-> Partitions(storageDevices[k])]
  <1>1. none \in [1..0 -> Seq({})]
    OBVIOUS
  <1> HIDE DEF none
  <1>2. FlattenSeq(none) = << >>
    <2>1. PICK zero \in Nat : zero = 0
      OBVIOUS
    <2> QED
      BY <1>1, <2>1, FlattenTyped
  <1> QED
    BY <1>2 DEF none, Gathered

LEMMA InitMount == StartupInit => MountInv
  BY DEF StartupInit, MountInv, Scanning

\* The list of devices stays.
LEMMA SameGathered ==
  ASSUME UNCHANGED <<machine, storageDevices>>
  PROVE  /\ \A n : Gathered(n)' = Gathered(n) /\ EntriesOf(n)' = EntriesOf(n)
         /\ \A n, m : Mounting(n, m)' = Mounting(n, m)
  BY DEF Gathered, Mounting, EntriesOf, Partitions

LEMMA ReadMBRMount ==
  ASSUME WalkInv, ListInv, MountInv, ReadMBR
  PROVE  MountInv'
  <1>1. /\ main = "scan" /\ at <= Len(storageDevices)
        /\ UNCHANGED <<machine, storageDevices, fileSystems, late>>
    BY DEF ReadMBR, result
  <1> DEFINE d == storageDevices[at]
  <1>2. \/ d.sectors = 0 /\ at' = at + 1 /\ UNCHANGED <<main, mbr, mbrFailed>>
        \/ d.sectors # 0 /\ d.type = "IDE_ATAPI" /\ main' = "waitIDEIRQ"
        \/ /\ d.sectors # 0 /\ d.type # "IDE_ATAPI" /\ main' = "mount" /\ at' = at
           /\ \/ mbr' = machine.drives[d.unit].mbr /\ mbrFailed' = mbrFailed
              \/ mbrFailed' = TRUE
    BY DEF ReadMBR, HasSize
  <1>3. CASE main' = "waitIDEIRQ"
    BY <1>3 DEF MountInv, Scanning
  <1>4. CASE main' # "waitIDEIRQ"
    <2>1. main' \in {"scan", "mount"} /\ (~mbrFailed' => ~mbrFailed)
      BY <1>1, <1>2, <1>4
    <2> SUFFICES ASSUME ~late, ~mbrFailed, ~mbrFailed' PROVE MountInv'
      BY <1>1, <2>1 DEF MountInv, Scanning
    <2>2. /\ at \in 1..Len(storageDevices) /\ fileSystems = Gathered(at - 1) /\ Len(storageDevices) \in Nat
      BY <1>1, EntriesTyped DEF MountInv, Scanning
    <2>3. d \in Entries /\ d.type \in {"IDE_ATA", "IDE_ATAPI"}
      <3>1. d \in Entries
        BY <1>1, <2>2, EntriesTyped DEF Scanning
      <3> QED
        BY <3>1 DEF Entries
    <2>4. CASE d.sectors = 0
      <3>1. main' = "scan" /\ at' = at + 1
        BY <1>1, <1>2, <2>4
      <3>2. Gathered(at) = Gathered(at - 1)
        <4>1. PICK n \in 1..Len(storageDevices) : n = at
          BY <2>2
        <4>2. Gathered(n - 1) \in Seq(Files) /\ Gathered(n) = Gathered(n - 1) \o << >>
          BY <1>1, <2>4, <4>1, GatheredOne DEF Scanning
        <4> QED
          BY <4>1, <4>2, ConcatEmptySeq
      <3>3. at' - 1 = at /\ at' \in 1..(Len(storageDevices) + 1)
        BY <2>2, <3>1
      <3>4. fileSystems' = Gathered(at - 1)'
        <4>1. PICK n : n = at
          OBVIOUS
        <4>2. Gathered(n)' = Gathered(n) /\ at' - 1 = n
          BY <1>1, <3>3, <4>1, SameGathered
        <4>3. Gathered(at - 1)' = Gathered(n)'
          BY <4>2 DEF Gathered
        <4> QED
          BY <1>1, <2>2, <3>2, <4>1, <4>2, <4>3
      <3> QED
        BY <1>1, <3>1, <3>3, <3>4 DEF MountInv, Scanning
    <2>5. CASE d.sectors # 0
      <3>1. /\ d.type = "IDE_ATA" /\ main' = "mount" /\ at' = at /\ mbr' = EntriesOf(at)
        BY <1>1, <1>2, <1>4, <2>3, <2>5 DEF EntriesOf
      <3>2. EntriesOf(at) \in Seq(PartitionEntries) /\ Len(EntriesOf(at)) \in Nat
        BY <1>1, <2>2, EntriesTyped DEF Scanning
      <3>3. mbr' = SubSeq(EntriesOf(at), 0 + 1, Len(EntriesOf(at)))
        BY <3>1, <3>2, SubSeqFull
      <3>4. fileSystems = Gathered(at - 1) \o Mounting(at, 0)
        <4>1. Gathered(at - 1) \in Seq(Files)
          BY <1>1, <2>2, GatheredOne DEF Scanning
        <4>2. Mounting(at, 0) = << >>
          BY MountingNone
        <4> QED
          BY <2>2, <4>1, <4>2, ConcatEmptySeq
      <3>5. EntriesOf(at)' = EntriesOf(at) /\ Gathered(at - 1)' = Gathered(at - 1) /\ Mounting(at, 0)' = Mounting(at, 0)
        BY <1>1, <3>1, SameGathered
      <3>6. 0 \in 0..Len(EntriesOf(at))
        BY <3>2
      <3>7. \E m \in 0..Len(EntriesOf(at)') :
              /\ mbr' = SubSeq(EntriesOf(at)', m + 1, Len(EntriesOf(at)'))
              /\ fileSystems' = Gathered(at - 1)' \o Mounting(at, m)'
        BY <1>1, <3>3, <3>4, <3>5, <3>6
      <3> QED
        BY <1>1, <2>2, <2>5, <3>1, <3>7 DEF MountInv, Scanning
    <2> QED
      BY <2>4, <2>5
  <1> QED
    BY <1>3, <1>4

LEMMA MountMount ==
  ASSUME WalkInv, ListInv, MountInv, Mount
  PROVE  MountInv'
  <1>1. /\ main = "mount" /\ main' = "mount" /\ mbr # << >> /\ mbr' = Tail(mbr)
        /\ fileSystems' = IF Head(mbr).id = 6
                          THEN Append(fileSystems, [unit |-> storageDevices[at].unit, lba |-> Head(mbr).lba])
                          ELSE fileSystems
        /\ UNCHANGED <<machine, at, storageDevices, late, mbrFailed>>
    BY DEF Mount, history
  <1> SUFFICES ASSUME ~late, ~mbrFailed PROVE MountInv'
    BY <1>1 DEF MountInv, Scanning
  <1>2. /\ at \in 1..Len(storageDevices) /\ Len(storageDevices) \in Nat
        /\ storageDevices[at].type = "IDE_ATA" /\ storageDevices[at].sectors # 0
    BY <1>1, EntriesTyped DEF MountInv, Scanning
  <1>3. PICK n \in 1..Len(storageDevices) : n = at
    BY <1>2
  <1>4. PICK entries \in Seq(PartitionEntries) : entries = EntriesOf(n) /\ Len(entries) \in Nat
    BY <1>1, EntriesTyped DEF Scanning
  <1>5. PICK m \in 0..Len(entries) : /\ mbr = SubSeq(entries, m + 1, Len(entries))
                                     /\ fileSystems = Gathered(n - 1) \o Mounting(n, m)
    BY <1>1, <1>3, <1>4 DEF MountInv, Scanning
  <1>6. m < Len(entries)
    <2>1. ASSUME m = Len(entries) PROVE FALSE
      <3>1. SubSeq(entries, m + 1, Len(entries)) = << >>
        BY <1>4, <2>1, SubSeqEmpty
      <3> QED
        BY <1>1, <1>5, <3>1
    <2> QED
      BY <1>4, <2>1
  <1>7. Head(mbr) = entries[m + 1] /\ Tail(mbr) = SubSeq(entries, (m + 1) + 1, Len(entries))
    <2>1. m + 1 \in 1..Len(entries) /\ Len(entries) \in (m + 1)..Len(entries)
      BY <1>4, <1>6
    <2> QED
      BY <1>5, <2>1, HeadTailOfSubSeq
  <1>8. /\ Mounting(n, m) \in Seq(Files) /\ Gathered(n - 1) \in Seq(Files)
        /\ Partition(storageDevices[n].unit, entries[m + 1]) \in Seq(Files)
        /\ Mounting(n, m + 1) = Mounting(n, m) \o Partition(storageDevices[n].unit, entries[m + 1])
    <2>1. Scanning /\ m \in Nat /\ m < Len(EntriesOf(n))
      BY <1>1, <1>4, <1>6 DEF Scanning
    <2>2. Gathered(n - 1) \in Seq(Files)
      BY <2>1, GatheredOne
    <2>3. /\ Mounting(n, m) \in Seq(Files)
          /\ Partition(storageDevices[n].unit, EntriesOf(n)[m + 1]) \in Seq(Files)
          /\ Mounting(n, m + 1) = Mounting(n, m) \o Partition(storageDevices[n].unit, EntriesOf(n)[m + 1])
      BY <2>1, MountingOne
    <2> QED
      BY <1>4, <2>2, <2>3
  <1>9. fileSystems' = fileSystems \o Partition(storageDevices[n].unit, Head(mbr))
    <2>1. fileSystems \in Seq(Files)
      BY <1>5, <1>8, ConcatProperties
    <2>2. CASE Head(mbr).id = 6
      <3>1. PICK f : f = [unit |-> storageDevices[at].unit, lba |-> Head(mbr).lba]
        OBVIOUS
      <3>2. Partition(storageDevices[n].unit, Head(mbr)) = << f >> /\ fileSystems' = Append(fileSystems, f)
        BY <1>1, <1>3, <2>2, <3>1 DEF Partition
      <3>3. f \in Files
        <4>1. << f >> \in Seq(Files)
          BY <1>7, <1>8, <3>2
        <4>2. Len(<< f >>) = 1 /\ << f >>[1] = f
          OBVIOUS
        <4> QED
          BY <4>1, <4>2, ElementOfSeq
      <3> QED
        BY <2>1, <3>2, <3>3, AppendIsConcat
    <2>3. CASE Head(mbr).id # 6
      <3>1. Partition(storageDevices[n].unit, Head(mbr)) = << >> /\ fileSystems' = fileSystems
        BY <1>1, <2>3 DEF Partition
      <3> QED
        BY <2>1, <3>1, ConcatEmptySeq
    <2> QED
      BY <2>2, <2>3
  <1>10. fileSystems' = Gathered(n - 1) \o Mounting(n, m + 1)
    <2>1. PICK a \in Seq(Files), b \in Seq(Files), c \in Seq(Files) :
            /\ a = Gathered(n - 1) /\ b = Mounting(n, m)
            /\ c = Partition(storageDevices[n].unit, entries[m + 1])
      BY <1>8
    <2>2. fileSystems' = (a \o b) \o c /\ Mounting(n, m + 1) = b \o c
      BY <1>5, <1>7, <1>8, <1>9, <2>1
    <2>3. (a \o b) \o c = a \o (b \o c)
      BY ConcatAssociative, SMTT(30)
    <2> QED
      BY <2>1, <2>2, <2>3
  <1>11. EntriesOf(n)' = entries /\ Gathered(n - 1)' = Gathered(n - 1) /\ Mounting(n, m + 1)' = Mounting(n, m + 1)
    BY <1>1, <1>4, SameGathered
  <1>12. m + 1 \in 0..Len(entries)
    BY <1>4, <1>6
  <1>13. /\ mbr' = SubSeq(EntriesOf(n)', (m + 1) + 1, Len(EntriesOf(n)'))
         /\ fileSystems' = Gathered(n - 1)' \o Mounting(n, m + 1)' /\ m + 1 \in 0..Len(EntriesOf(n)')
    BY <1>1, <1>7, <1>10, <1>11, <1>12
  <1>14. \E l \in 0..Len(EntriesOf(at)') : /\ mbr' = SubSeq(EntriesOf(at)', l + 1, Len(EntriesOf(at)'))
                                           /\ fileSystems' = Gathered(at - 1)' \o Mounting(at, l)'
    <2>1. at' = n
      BY <1>1, <1>3
    <2>2. EntriesOf(at)' = EntriesOf(n)' /\ Gathered(at - 1)' = Gathered(n - 1)'
      BY <2>1 DEF EntriesOf, Gathered
    <2>3. Mounting(at, m + 1)' = Mounting(n, m + 1)'
      BY <2>1 DEF Mounting, EntriesOf
    <2> QED
      BY <1>13, <2>2, <2>3
  <1> QED
    BY <1>1, <1>2, <1>14 DEF MountInv, Scanning

LEMMA MountedMount ==
  ASSUME WalkInv, ListInv, MountInv, Mounted
  PROVE  MountInv'
  <1>1. /\ main = "mount" /\ main' = "scan" /\ mbr = << >> /\ at' = at + 1
        /\ UNCHANGED <<machine, storageDevices, fileSystems, late, mbrFailed>>
    BY DEF Mounted, result, history
  <1> SUFFICES ASSUME ~late, ~mbrFailed PROVE MountInv'
    BY <1>1 DEF MountInv, Scanning
  <1>2. /\ at \in 1..Len(storageDevices) /\ Len(storageDevices) \in Nat
        /\ storageDevices[at].type = "IDE_ATA" /\ storageDevices[at].sectors # 0
    BY <1>1, EntriesTyped DEF MountInv, Scanning
  <1>3. PICK n \in 1..Len(storageDevices) : n = at
    BY <1>2
  <1>4. PICK entries \in Seq(PartitionEntries) : entries = EntriesOf(n) /\ Len(entries) \in Nat
    BY <1>1, EntriesTyped DEF Scanning
  <1>5. PICK m \in 0..Len(entries) : /\ mbr = SubSeq(entries, m + 1, Len(entries))
                                     /\ fileSystems = Gathered(n - 1) \o Mounting(n, m)
    BY <1>1, <1>3, <1>4 DEF MountInv, Scanning
  <1>6. m = Len(entries)
    <2>1. ASSUME m < Len(entries) PROVE FALSE
      <3>1. SubSeq(entries, m + 1, Len(entries)) = << entries[m + 1] >> \o SubSeq(entries, (m + 1) + 1, Len(entries))
        <4>1. m + 1 \in 1..Len(entries) /\ Len(entries) \in (m + 1)..Len(entries)
          BY <1>4, <2>1
        <4> QED
          BY <4>1, SubSeqRecursiveFirst
      <3>2. Len(SubSeq(entries, m + 1, Len(entries))) = Len(entries) - (m + 1) + 1
        <4>1. \A i \in (m + 1)..Len(entries) : entries[i] \in PartitionEntries
          BY <1>4
        <4> QED
          BY <1>4, <2>1, <4>1, SubSeqProperties
      <3>3. Len(mbr) = 0
        BY <1>1
      <3> QED
        BY <1>4, <1>5, <2>1, <3>2, <3>3
    <2> QED
      BY <1>4, <2>1
  <1>7. fileSystems = Gathered(n)
    BY <1>1, <1>2, <1>3, <1>4, <1>5, <1>6, GatheredOne DEF Scanning
  <1>8. Gathered(n)' = Gathered(n) /\ at' - 1 = n /\ at' \in 1..(Len(storageDevices) + 1)
    BY <1>1, <1>2, <1>3, SameGathered
  <1>9. fileSystems' = Gathered(at - 1)'
    <2>1. Gathered(at - 1)' = Gathered(n)'
      BY <1>8 DEF Gathered
    <2> QED
      BY <1>1, <1>7, <1>8, <2>1
  <1> QED
    BY <1>1, <1>8, <1>9 DEF MountInv, Scanning

\* What the scan finds stays while nothing is read or mounted.
LEMMA SameMount ==
  ASSUME MountInv, UNCHANGED <<machine, main, storageDevices, at, mbr, fileSystems, late, mbrFailed>>
  PROVE  MountInv'
  <1>1. Scanning' = Scanning
    BY DEF Scanning
  <1>2. /\ EntriesOf(at)' = EntriesOf(at) /\ Gathered(at - 1)' = Gathered(at - 1)
        /\ \A m : Mounting(at, m)' = Mounting(at, m)
    BY DEF EntriesOf, Gathered, Mounting, Partitions
  <1> QED
    BY <1>1, <1>2 DEF MountInv

LEMMA NextMount ==
  ASSUME WalkInv, ListInv, ListInv', WalkInv', MountInv, late \in BOOLEAN, [StartupNext]_startupVars
  PROVE  MountInv'
  <1>1. CASE InitializePCI \/ NewDriver \/ Identify \/ IsPresent \/ PollIdentify \/ Signature \/ Sleep \/ ReadIdentification
    <2>1. /\ ~Scanning /\ main # "waitIDEIRQ" /\ ~Scanning' /\ UNCHANGED <<at, fileSystems>>
      BY <1>1 DEF InitializePCI, NewDriver, Identify, IsPresent, PollIdentify, Signature, Sleep, ReadIdentification,
                  NextDrive, Scanning, result
    <2> QED
      BY <2>1 DEF MountInv
  <1>2. CASE DriversDone
    <2>1. /\ main = "driver" /\ main' = "scan" /\ UNCHANGED <<at, fileSystems, storageDevices, late>>
      BY <1>2 DEF DriversDone, result, history
    <2>2. at = 1 /\ fileSystems = << >>
      BY <2>1 DEF MountInv, Scanning
    <2>3. ASSUME ~late PROVE Len(storageDevices) \in Nat
      <3>1. Lists(storageDevices, Limit)
        BY <2>1, <2>3 DEF ListInv
      <3> QED
        BY <3>1 DEF Lists
    <2>4. Gathered(at - 1)' = << >>
      <3>1. at' - 1 = 0
        BY <2>1, <2>2
      <3>2. Gathered(at - 1)' = Gathered(0)'
        BY <3>1, Zenon DEF Gathered
      <3>3. (Gathered(0) = << >>)'
        BY GatheredNone, PTL
      <3> QED
        BY <3>2, <3>3
    <2> QED
      BY <2>1, <2>2, <2>3, <2>4 DEF MountInv, Scanning
  <1>3. CASE Finish
    <2>1. /\ main = "scan" /\ main' = "up" /\ at > Len(storageDevices)
          /\ UNCHANGED <<machine, at, fileSystems, storageDevices, late, mbrFailed>>
      BY <1>3 DEF Finish, result, history
    <2>2. Gathered(at - 1)' = Gathered(at - 1)
      BY <2>1 DEF Gathered, Partitions
    <2> QED
      BY <2>1, <2>2 DEF MountInv, Scanning
  <1>4. CASE Answers \/ UNCHANGED startupVars
    <2>1. UNCHANGED <<machine, main, storageDevices, at, mbr, fileSystems, late, mbrFailed>>
      BY <1>4 DEF Answers, Answer, startupVars, result, history
    <2> QED
      BY <2>1, SameMount
  <1> QED
    BY <1>1, <1>2, <1>3, <1>4, ReadMBRMount, MountMount, MountedMount DEF StartupNext, Kernel

\* When all is scanned, that is PartitionsFound.
LEMMA MountIsFound ==
  ASSUME WalkInv, ListInv, MountInv, main = "up", ~late, ~mbrFailed
  PROVE  PartitionsFound
  <1>1. Len(storageDevices) \in Nat
    BY EntriesTyped DEF Scanning
  <1>2. fileSystems = Gathered(at - 1) /\ at - 1 = Len(storageDevices)
    BY <1>1 DEF MountInv, Scanning
  <1> QED
    BY <1>2 DEF PartitionsFound, Gathered

\* Whatever the machine: however many controllers and drives there are, of
\* whatever kind and wherever they are connected, the kernel has found just
\* the drives that can be read, in the order in which it looks for them, with
\* their sizes and types, when it begins to scan; and when it is up, just
\* their partitions.
THEOREM FindsInventory == StartupSpec => []Inventory
  <1> DEFINE Inv == WalkInv /\ ProbeInv /\ (~late => AskInv) /\ ListInv /\ MountInv
  <1>1. StartupInit => Inv
    BY InitWalk, InitProbe, InitAsk, InitList, InitMount
  <1>2. Inv /\ [StartupNext]_startupVars => Inv'
    <2> SUFFICES ASSUME Inv, [StartupNext]_startupVars PROVE Inv'
      OBVIOUS
    <2>1. WalkInv' /\ ProbeInv' /\ ListInv'
      BY NextWalk, NextProbe, NextList
    <2>2. ~late' => AskInv'
      <3> SUFFICES ASSUME ~late' PROVE AskInv'
        OBVIOUS
      <3>1. ~late
        BY LateStays
      <3> QED
        BY <3>1, NextAsk
    <2>3. MountInv'
      BY <2>1, NextMount DEF ProbeInv
    <2> QED
      BY <2>1, <2>2, <2>3
  <1>3. Inv => Inventory
    BY ListIsFound, MountIsFound DEF Inventory, Scanning
  <1> QED
    BY <1>1, <1>2, <1>3, PTL DEF StartupSpec
=============================================================================
