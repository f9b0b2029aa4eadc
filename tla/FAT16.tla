-------------------------------- MODULE FAT16 --------------------------------
(* The file system (kernel/src/FAT16.cpp) on a disk whose layout is that of *)
(* any FAT16 volume: open, File::setPosition, read and write, cluster by    *)
(* cluster.  The driver takes one sector for a cluster and for what is      *)
(* reserved, which is how the Makefile makes the image (-c 1).              *)
(*                                                                         *)
(* A sector holds SectorSize values: 512 bytes of data, 256 entries of the  *)
(* FAT or 16 entries of a directory are all SectorSize of them here.        *)
EXTENDS Integers, FiniteSets, Sequences, FATNames

CONSTANTS
  PartitionOffset, ReservedSectors, NumberOfFAT, SectorsPerFAT, RootEntries,
  SectorSize,
  LastCluster,   \* clusters 2..LastCluster hold data
  BadCluster,    \* 0xFFF7; larger entries end a chain
  Format,        \* the disk before the first call
  Directories,   \* first clusters of its directories, 1 for the root
  Paths,         \* what open is called with: sequences of names
  Uninitialised, \* what new memory may hold, read as a directory entry
  Sizes,         \* sizes asked for
  MaxCalls       \* bound on the calls

Nul == "nul"     \* the terminator; first in a name, the end of a directory

Sectors == DOMAIN Format
NotFound == BadCluster + 1

ASSUME GeometryAssumption ==
  /\ {PartitionOffset, ReservedSectors, NumberOfFAT, SectorsPerFAT, RootEntries,
      SectorSize, LastCluster, BadCluster, MaxCalls} \subseteq Nat
  /\ ReservedSectors = 1 /\ LastCluster < BadCluster /\ Sizes \subseteq Nat

\* memset(filename + n, 0, 11 - n) takes no longer name.
ASSUME PathAssumption ==
  \A p \in Paths : /\ p \in Seq(Seq(STRING)) /\ p # <<>>
                   /\ \A i \in 1..Len(p) : Len(p[i]) \in 1..(BaseLen + ExtLen)

VARIABLES
  disk,
  pc,        \* which function and loop
  rest,      \* names of the path that open has yet to look up
  cluster,   \* where it looks
  lastSize,  \* of the entry found last
  file,      \* the File: path (history), cluster and size
  position,  \* file->position
  op, size,  \* the read or write under way
  start, end, clusterIdx, readPos, writePos, endPos, dest,
  old,       \* the disk when the call began (history)
  calls      \* calls made so far

loopVars == <<start, end, clusterIdx, readPos, writePos, endPos, dest>>
openVars == <<rest, cluster, lastSize>>
vars == <<disk, pc, openVars, file, position, op, size, loopVars, old, calls>>

-----------------------------------------------------------------------------
(* Where the driver looks for things.                                      *)

fatOffset == ReservedSectors + PartitionOffset

rootOffset == NumberOfFAT * SectorsPerFAT + PartitionOffset

dataOffset == NumberOfFAT * SectorsPerFAT + PartitionOffset
              + (RootEntries + SectorSize - 1) \div SectorSize

readFAT(entry) == disk[fatOffset + entry \div SectorSize][entry % SectorSize]

\* readCluster and writeCluster; cluster 1 stands for the root directory.
ClusterSector(idx) == IF idx = 1 THEN rootOffset + idx ELSE dataOffset + idx - 1

readCluster(idx) == disk[ClusterSector(idx)]

-----------------------------------------------------------------------------
(* open                                                                    *)

CallOpen(p) ==
  /\ pc = "idle" /\ calls < MaxCalls
  /\ rest' = p /\ cluster' = 1 /\ lastSize' = -1
  /\ file' = [path |-> p, cluster |-> NotFound, size |-> -1]
  /\ pc' = "search" /\ op' = "open"
  /\ calls' = calls + 1
  /\ old' = disk
  /\ UNCHANGED <<disk, position, size, loopVars>>

\* The name as filenameToFAT is given it: of 11 characters, it has no
\* terminator of its own, and one that the stack happened to hold follows.
FilenameBuffers(name) ==
  IF Len(name) < BaseLen + ExtLen THEN {name}
  ELSE {name, Append(name, "junk")}

\* searchDirectory has returned, the loop over the path goes on.
Resolved(c, s) ==
  /\ cluster' = c /\ lastSize' = s
  /\ rest' = Tail(rest)
  /\ IF Len(rest) > 1 THEN UNCHANGED <<pc, file, position>>
     ELSE /\ pc' = "idle"
          /\ file' = [file EXCEPT !.cluster = c, !.size = s]
          /\ position' = 0

Entry(e) == Resolved(e.cluster, e.size)

\* One cluster of a directory.  entries has room for 32 of them, twice what
\* a cluster holds; what follows is memory as it was.
SearchCluster ==
  /\ pc = "search" /\ cluster < BadCluster
  /\ \E fatname \in {filenameToFAT(f) : f \in FilenameBuffers(Head(rest))},
        u \in Uninitialised :
     LET entries == [i \in 0..(2 * SectorSize - 1) |->
                       IF i < SectorSize THEN readCluster(cluster)[i] ELSE u]
         Stops(i) == entries[i].name[1] = Nul \/ entries[i].name = fatname
         Ends(i) == Stops(i) /\ \A k \in 0..(i - 1) : ~Stops(k)
     IN  \/ \E i \in DOMAIN entries :
              /\ Ends(i)
              /\ IF entries[i].name[1] = Nul THEN Resolved(NotFound, lastSize)
                 ELSE Entry(entries[i])
         \/ /\ \A i \in DOMAIN entries : ~Stops(i)
            /\ cluster' = readFAT(cluster)
            /\ UNCHANGED <<rest, lastSize, pc, file, position>>
  /\ UNCHANGED <<disk, op, size, loopVars, old, calls>>

SearchEnd ==
  /\ pc = "search" /\ cluster >= BadCluster
  /\ Resolved(NotFound, lastSize)
  /\ UNCHANGED <<disk, op, size, loopVars, old, calls>>

-----------------------------------------------------------------------------
(* read and write                                                          *)

Opened == op # "none" /\ file.cluster \in 2..LastCluster

setPosition(p) ==
  /\ pc = "idle" /\ Opened
  /\ position' = p /\ op' = "seek"
  /\ UNCHANGED <<disk, pc, openVars, file, size, loopVars, old, calls>>

CallTransfer(o, n) ==
  /\ pc = "idle" /\ Opened /\ calls < MaxCalls
  /\ op' = o /\ size' = n
  /\ start' = file.cluster /\ end' = file.cluster /\ clusterIdx' = 0
  /\ endPos' = n + position
  /\ readPos' = position /\ writePos' = 0
  /\ dest' = [i \in 0..(n - 1) |-> <<"untouched">>]
  /\ pc' = "start"
  /\ calls' = calls + 1 /\ old' = disk
  /\ UNCHANGED <<disk, openVars, file, position>>

After(pos) == pos > (clusterIdx + 1) * SectorSize

\* Mutant: the loop that write has: it does not count.
SeekStart_NoCount ==
  /\ pc = "start" /\ op = "read"
  /\ IF After(position)
     THEN start' = readFAT(start) /\ end' = start' /\ UNCHANGED pc
     ELSE pc' = "end" /\ UNCHANGED <<start, end>>
  /\ UNCHANGED <<disk, openVars, file, position, op, size, clusterIdx, readPos,
                 writePos, endPos, dest, old, calls>>

\* read, the loop on file->position.
SeekStart ==
  /\ pc = "start" /\ op = "read"
  /\ IF After(position)
     THEN /\ start' = readFAT(start) /\ end' = start'
          /\ clusterIdx' = clusterIdx + 1 /\ UNCHANGED pc
     ELSE pc' = "end" /\ UNCHANGED <<start, end, clusterIdx>>
  /\ UNCHANGED <<disk, openVars, file, position, op, size, readPos, writePos,
                 endPos, dest, old, calls>>

\* Mutant: a read up to the end of a cluster goes on to the next.
SeekEnd_TooFar ==
  /\ pc = "end"
  /\ IF endPos >= (clusterIdx + 1) * SectorSize
     THEN end' = readFAT(end) /\ clusterIdx' = clusterIdx + 1 /\ UNCHANGED pc
     ELSE pc' = "copy" /\ UNCHANGED <<end, clusterIdx>>
  /\ UNCHANGED <<disk, openVars, file, position, op, size, start, readPos,
                 writePos, endPos, dest, old, calls>>

\* read, the loop on endPos.
SeekEnd ==
  /\ pc = "end"
  /\ IF After(endPos)
     THEN end' = readFAT(end) /\ clusterIdx' = clusterIdx + 1 /\ UNCHANGED pc
     ELSE pc' = "copy" /\ UNCHANGED <<end, clusterIdx>>
  /\ UNCHANGED <<disk, openVars, file, position, op, size, start, readPos,
                 writePos, endPos, dest, old, calls>>

\* write: neither loop counts clusterIdx, so that one that is entered is
\* never left.  It only reads.
SeekWrite ==
  /\ pc = "start" /\ op = "write"
  /\ pc' = IF position >= SectorSize \/ endPos > SectorSize THEN "endless" ELSE "copy"
  /\ UNCHANGED <<disk, openVars, file, position, op, size, loopVars, old, calls>>

\* What clusterBuffer has room for: one cluster in read; write asks for 512
\* bytes for every byte that it is to write.
BufferSize == IF op = "read" THEN SectorSize ELSE SectorSize * size

Offset == readPos % SectorSize

\* What the next memcpy moves.
CopyLen == IF start # end THEN SectorSize - Offset ELSE endPos - readPos

Moved(d, src) == [i \in DOMAIN d |->
                    IF i \in writePos..(writePos + CopyLen - 1)
                    THEN src[i - writePos + Offset] ELSE d[i]]

\* Mutant: a cluster on, but not to its beginning.
NextCluster_Unaligned ==
  /\ pc = "copy" /\ start # end
  /\ dest' = Moved(dest, readCluster(start))
  /\ writePos' = writePos + CopyLen
  /\ readPos' = readPos + SectorSize
  /\ start' = readFAT(start)
  /\ UNCHANGED <<disk, pc, openVars, file, position, op, size, end, clusterIdx,
                 endPos, old, calls>>

\* read: all of a cluster from readPos on.  write never gets here: its start
\* and end are the same.
NextCluster ==
  /\ pc = "copy" /\ start # end
  /\ dest' = Moved(dest, readCluster(start))
  /\ writePos' = writePos + CopyLen
  /\ readPos' = (readPos \div SectorSize + 1) * SectorSize
  /\ start' = readFAT(start)
  /\ UNCHANGED <<disk, pc, openVars, file, position, op, size, end, clusterIdx,
                 endPos, old, calls>>

LastRead ==
  /\ pc = "copy" /\ start = end /\ op = "read"
  /\ dest' = Moved(dest, readCluster(start))
  /\ pc' = "idle"
  /\ UNCHANGED <<disk, openVars, file, position, op, size, start, end, clusterIdx,
                 readPos, writePos, endPos, old, calls>>

Written(i) == <<"written", calls, i>>

\* Mutant: the cluster is not read before it is changed.
LastWrite_NoRead ==
  /\ pc = "copy" /\ start = end /\ op = "write"
  /\ disk' = [disk EXCEPT ![ClusterSector(start)] =
                [i \in 0..(SectorSize - 1) |->
                   IF i \in Offset..(Offset + CopyLen - 1)
                   THEN Written(writePos + i - Offset) ELSE <<"junk">>]]
  /\ pc' = "idle"
  /\ UNCHANGED <<openVars, file, position, op, size, loopVars, old, calls>>

\* readCluster, memcpy, writeCluster.
LastWrite ==
  /\ pc = "copy" /\ start = end /\ op = "write"
  /\ disk' = [disk EXCEPT ![ClusterSector(start)] =
                [i \in 0..(SectorSize - 1) |->
                   IF i \in Offset..(Offset + CopyLen - 1)
                   THEN Written(writePos + i - Offset) ELSE @[i]]]
  /\ pc' = "idle"
  /\ UNCHANGED <<openVars, file, position, op, size, loopVars, old, calls>>

-----------------------------------------------------------------------------
(* The volume as its format defines it.                                    *)

Fat(d, c) == d[PartitionOffset + ReservedSectors + c \div SectorSize][c % SectorSize]

RootStart == PartitionOffset + ReservedSectors + NumberOfFAT * SectorsPerFAT

DataStart == RootStart + (RootEntries + SectorSize - 1) \div SectorSize

\* The clusters of a file or directory, from the first.
Chain(d, c) ==
  LET ch[n \in 0..LastCluster] ==
        IF n = 0 THEN <<c>>
        ELSE LET before == ch[n - 1]
                 next   == Fat(d, before[Len(before)])
             IN  IF next \in 2..LastCluster THEN Append(before, next) ELSE before
  IN ch[LastCluster]

\* Every cluster has a sector and an entry in the first FAT, and no chain comes
\* back to a cluster of its own.
ASSUME VolumeAssumption ==
  /\ SectorSize > 0 /\ NumberOfFAT > 0 /\ LastCluster < SectorsPerFAT * SectorSize
  /\ (PartitionOffset + ReservedSectors)..(DataStart + LastCluster - 2) \subseteq Sectors
  /\ \A c \in 2..LastCluster :
       LET ch == Chain(Format, c) IN \A j, k \in 1..Len(ch) : ch[j] = ch[k] => j = k

\* The bytes of the file that begins at cluster c.
Bytes(d, c) ==
  LET ch == Chain(d, c) IN
  [k \in 0..(Len(ch) * SectorSize - 1) |->
     d[DataStart + ch[k \div SectorSize + 1] - 2][k % SectorSize]]

\* The clusters of a directory as the driver goes through them, 1 again the
\* root, and the sectors that it has by the format: all of those of the root,
\* of which the driver reads one.
DirClusters(c) == IF c = 1 THEN <<1>> ELSE Chain(Format, c)

DirSectors(c) ==
  IF c = 1 THEN [i \in 1..(DataStart - RootStart) |-> RootStart + i - 1]
  ELSE [i \in 1..Len(Chain(Format, c)) |-> DataStart + Chain(Format, c)[i] - 2]

EntriesOf(s) == {Format[s][i] : i \in 0..(SectorSize - 1)}

\* An end mark in its first sector tells that a directory has no other.
Roomy(c) == \E e \in EntriesOf(DirSectors(c)[1]) : e.name[1] = Nul

\* What the entry for a name in directory c says.
Named(c, name) ==
  UNION {{e \in EntriesOf(DirSectors(c)[i]) : e.name = EntryName(name)} :
           i \in 1..Len(DirSectors(c))}

\* The entry that each name of a path leads to, and whether the directories
\* that it is in and behind are roomy.
Lookups(p) ==
  LET at[n \in 0..Len(p)] ==
        IF n = 0 THEN [cluster |-> 1, size |-> 0, roomy |-> TRUE]
        ELSE LET from == at[n - 1] IN
             IF from.cluster \notin 1..LastCluster THEN from
             ELSE LET roomy == from.roomy /\ Roomy(from.cluster) IN
                  IF Named(from.cluster, p[n]) = {}
                  THEN [cluster |-> NotFound, size |-> -1, roomy |-> roomy]
                  ELSE LET e == CHOOSE e \in Named(from.cluster, p[n]) : TRUE IN
                       [cluster |-> e.cluster, size |-> e.size, roomy |-> roomy]
  IN at

Lookup(p) == Lookups(p)[Len(p)]

\* Names that open's buffers are made for.  Short names of 8 and 2 characters
\* take in what follows in the buffer, those of 8 and 3 have one more than
\* memset(filename + n, 0, 11 - n) allows: both are left out.
Fits(name) ==
  \/ Len(name) < BaseLen + ExtLen
  \/ Len(name) = BaseLen + ExtLen /\ DotsIn(name) = {BaseLen}

\* The directories of a volume: no name twice, nothing but end marks behind an
\* end mark, and a mark in the FAT behind the last cluster.  The paths are
\* short names that fit, lead through directories to none, and what memory
\* may hold is not an entry for one of their names.
ASSUME DirectoryAssumption ==
  /\ 1 \in Directories /\ Directories \subseteq 1..LastCluster /\ RootEntries > 0
  /\ \A c \in Directories :
       LET s    == DirSectors(c)
           next == Fat(Format, DirClusters(c)[Len(DirClusters(c))])
       IN
       /\ next \in Nat /\ next >= BadCluster
       /\ \A i, j \in 1..Len(s), k, l \in 0..(SectorSize - 1) :
            /\ i < j \/ (i = j /\ k < l)
            /\ Format[s[i]][k].name[1] = Nul
            => Format[s[j]][l].name[1] = Nul
  /\ \A p \in Paths :
       /\ \A n \in 1..Len(p) :
            /\ Lookups(p)[n - 1].cluster \in Directories \cup {NotFound}
            /\ IsShort(p[n]) /\ Fits(p[n]) /\ p[n][1] # Nul
            /\ \A c \in Directories : \A e, f \in Named(c, p[n]) : e = f
            /\ \A u \in Uninitialised : u.name # EntryName(p[n])
       /\ \A c \in Directories : \A i \in 1..Len(DirClusters(c)) :
            DirClusters(c)[i] # Lookup(p).cluster

-----------------------------------------------------------------------------

Init ==
  /\ disk = Format /\ old = Format
  /\ pc = "idle" /\ op = "none" /\ size = 0 /\ calls = 0
  /\ rest = <<>> /\ cluster = 1 /\ lastSize = -1
  /\ file = [path |-> <<>>, cluster |-> NotFound, size |-> -1] /\ position = 0
  /\ start = 0 /\ end = 0 /\ clusterIdx = 0
  /\ readPos = 0 /\ writePos = 0 /\ endPos = 0 /\ dest = <<>>

\* Bytes in the clusters of the open file.
Room == Len(Chain(disk, file.cluster)) * SectorSize

\* Calls stay inside of the clusters that the file has, and begin at its
\* first byte or inside of a cluster: neither loop of read can tell the
\* start of a later cluster from the end of the one before.
Positions == {p \in 0..(Room - 1) : p = 0 \/ p % SectorSize # 0}

\* A write of nothing has a buffer of nothing, into which it reads a cluster:
\* such calls are left out.
Lengths(o) == IF o = "write" THEN Sizes \ {0} ELSE Sizes

Step == SearchCluster \/ SearchEnd \/ SeekStart \/ SeekEnd \/ SeekWrite
        \/ NextCluster \/ LastRead \/ LastWrite

Next ==
  \/ \E p \in Paths : CallOpen(p)
  \/ Opened /\ \E p \in Positions : setPosition(p)
  \/ Opened /\ \E o \in {"read", "write"} : \E n \in Lengths(o) :
       position + n <= Room /\ CallTransfer(o, n)
  \/ Step

Spec == Init /\ [][Next]_vars

\* The CPU executes the code.
FairSpec == Spec /\ WF_vars(Step)

-----------------------------------------------------------------------------
(* What must hold.                                                         *)

\* open finds what the directories on the disk say: never another file, and
\* the file if there is one, in directories with an end mark in the first
\* sector that the driver reads of them.
OpenRight ==
  pc = "idle" /\ op = "open" =>
    LET found == Lookup(file.path) IN
    /\ file.cluster < BadCluster => file.cluster = found.cluster /\ file.size = found.size
    /\ found.roomy => file.cluster = found.cluster

\* A read fills the buffer with the bytes of the file from the position on,
\* whatever clusters they are in, and changes nothing.
ReadExact ==
  pc = "idle" /\ op = "read" =>
    /\ LET b == Bytes(disk, file.cluster) IN
       dest = [i \in 0..(size - 1) |-> b[position + i]]
    /\ disk = old

\* A write that returns has changed the bytes from the position on and, on
\* the whole disk, nothing else; one that does not has changed nothing.
WriteExact ==
  /\ pc = "idle" /\ op = "write" =>
       \A s \in Sectors, i \in 0..(SectorSize - 1) :
         disk[s][i] = IF s = DataStart + file.cluster - 2
                         /\ i \in position..(position + size - 1)
                      THEN Written(i - position) ELSE old[s][i]
  /\ pc # "idle" => disk = old

\* No memcpy goes beyond the caller's buffer or a cluster, a cluster that is
\* read has room in clusterBuffer, and no cluster of another file is touched.
InBounds ==
  pc = "copy" =>
    /\ CopyLen >= 0
    /\ writePos + CopyLen <= size /\ Offset + CopyLen <= SectorSize
    /\ SectorSize <= BufferSize
    /\ LET ch == Chain(disk, file.cluster) IN \E k \in 1..Len(ch) : start = ch[k]

\* open and read return, and write does when it stays in the first cluster.
Ends ==
  (pc # "idle" /\ (op = "write" => position < SectorSize /\ endPos <= SectorSize))
    ~> pc = "idle"
=============================================================================
