------------------------------ MODULE FAT16Proofs -----------------------------
(* What is read and written is what the format says, for any volume of one  *)
(* sector to a cluster, any fragmentation of its files, and any sequence of *)
(* calls from positions and with lengths that Positions and Lengths allow.  *)
EXTENDS FAT16, MCFATNames, Induction, SequenceTheorems

-----------------------------------------------------------------------------
(* Clusters and bytes.                                                     *)

\* What the assumptions say of the constants.
LEMMA Geometry ==
  /\ {PartitionOffset, ReservedSectors, NumberOfFAT, SectorsPerFAT, SectorSize, LastCluster, BadCluster}
       \subseteq Nat
  /\ SectorSize > 0 /\ SectorSize \in Nat \ {0} /\ ReservedSectors = 1
  /\ \A c \in 2..LastCluster : c \in Nat
  BY GeometryAssumption, VolumeAssumption

\* Multiples of SectorSize.
LEMMA Products ==
  ASSUME NEW a \in Nat, NEW b \in Nat
  PROVE  /\ a * SectorSize \in Nat /\ (a + 1) * SectorSize \in Nat
         /\ (a + 1) * SectorSize = a * SectorSize + SectorSize
         /\ a <= b => a * SectorSize <= b * SectorSize
         /\ a < b => (a + 1) * SectorSize <= b * SectorSize
         /\ a * SectorSize < b * SectorSize => a < b
  <1>1. PICK m \in Nat \ {0} : m = SectorSize
    BY Geometry
  <1>2. a * m \in Nat /\ b * m \in Nat /\ (a + 1) * m \in Nat /\ (a + 1) * m = a * m + m
    BY <1>1
  <1>3. ASSUME NEW x \in Nat, NEW y \in Nat, x <= y PROVE x * m <= y * m
    <2>1. y * m = x * m + (y - x) * m /\ (y - x) * m >= 0 /\ x * m \in Nat
      BY <1>1, <1>3
    <2> QED
      BY <2>1
  <1>4. a < b => (a + 1) * m <= b * m
    BY <1>3
  <1>5. a * m < b * m => a < b
    <2>1. b <= a => b * m <= a * m
      BY <1>3
    <2> QED
      BY <1>2, <2>1
  <1> QED
    BY <1>1, <1>2, <1>3, <1>4, <1>5

\* A position is a cluster of the chain and a place in it.
LEMMA Position ==
  ASSUME NEW p \in Nat
  PROVE  /\ p \div SectorSize \in Nat /\ p % SectorSize \in 0..(SectorSize - 1)
         /\ p = (p \div SectorSize) * SectorSize + (p % SectorSize)
  BY Geometry

\* A position between two multiples is in the cluster of the lower.
LEMMA PositionIs ==
  ASSUME NEW k \in Nat, NEW p \in Nat, k * SectorSize <= p, p < (k + 1) * SectorSize
  PROVE  p \div SectorSize = k /\ p % SectorSize = p - k * SectorSize
  <1>1. PICK q \in Nat : q = p \div SectorSize
    BY Position
  <1>2. PICK r \in 0..(SectorSize - 1) : r = p % SectorSize
    BY Position
  <1>3. p = q * SectorSize + r /\ SectorSize \in Nat
    BY <1>1, <1>2, Position, Geometry
  <1>4. q * SectorSize \in Nat /\ (q + 1) * SectorSize = q * SectorSize + SectorSize
    BY Products
  <1>5. q * SectorSize < (k + 1) * SectorSize /\ k * SectorSize < (q + 1) * SectorSize
    <2>1. k * SectorSize \in Nat /\ (k + 1) * SectorSize \in Nat
      BY Products
    <2> HIDE DEF Products
    <2> QED
      BY <1>3, <1>4, <2>1
  <1>6. q < k + 1 /\ k < q + 1
    <2>1. k + 1 \in Nat /\ q + 1 \in Nat
      OBVIOUS
    <2> QED
      BY <1>5, <2>1, Products
  <1>7. q = k
    BY <1>6
  <1> QED
    BY <1>1, <1>2, <1>3, <1>4, <1>7

\* readFAT looks into the first FAT.
LEMMA ReadFATIs == \A c : readFAT(c) = Fat(disk, c)
  <1>1. fatOffset = PartitionOffset + ReservedSectors
    BY Geometry DEF fatOffset
  <1> QED
    BY <1>1 DEF readFAT, Fat

\* A cluster's sector is where the format has it: the one reserved sector
\* stands for the `- 1`.
LEMMA ClusterSectorIs ==
  ASSUME NEW c \in 2..LastCluster
  PROVE  ClusterSector(c) = DataStart + c - 2
  <1>1. PICK n \in Int : n = NumberOfFAT * SectorsPerFAT
    BY Geometry
  <1>2. PICK r \in Int : r = (RootEntries + SectorSize - 1) \div SectorSize
    BY Geometry, GeometryAssumption
  <1> QED
    BY <1>1, <1>2, Geometry DEF ClusterSector, dataOffset, DataStart, RootStart

-----------------------------------------------------------------------------
(* Chains.                                                                 *)

\* s is the beginning of the chain from c.
Follows(d, c, s) ==
  /\ s \in Seq(2..LastCluster) /\ s # <<>> /\ s[1] = c
  /\ \A k \in 1..(Len(s) - 1) : s[k + 1] = Fat(d, s[k])

\* One more cluster, if there is one.
Extended(d, s) ==
  LET next == Fat(d, s[Len(s)])
  IN  IF next \in 2..LastCluster THEN Append(s, next) ELSE s

\* A chain has a last cluster.
LEMMA LastIn ==
  ASSUME NEW d, NEW c, NEW s, Follows(d, c, s)
  PROVE  /\ Len(s) \in Nat \ {0}
         /\ \A k \in 1..Len(s) : s[k] \in 2..LastCluster
         /\ s[Len(s)] \in 2..LastCluster
  <1>1. Len(s) \in Nat /\ Len(s) > 0 /\ \A k \in 1..Len(s) : s[k] \in 2..LastCluster
    <2>1. s \in Seq(2..LastCluster) /\ s # <<>>
      BY DEF Follows
    <2>2. Len(s) \in Nat /\ Len(s) # 0
      BY <2>1, EmptySeq
    <2>3. \A k \in 1..Len(s) : s[k] \in 2..LastCluster
      BY <2>1, ElementOfSeq
    <2> QED
      BY <2>2, <2>3
  <1> QED
    BY <1>1

\* Appending the next cluster keeps a chain one.
LEMMA ExtendedFollows ==
  ASSUME NEW d, NEW c, NEW s, Follows(d, c, s)
  PROVE  Follows(d, c, Extended(d, s))
  <1>1. CASE Fat(d, s[Len(s)]) \in 2..LastCluster
    <2>1. PICK x \in 2..LastCluster : x = Fat(d, s[Len(s)])
      BY <1>1
    <2>2. PICK n \in Nat : n = Len(s) /\ n >= 1
      BY DEF Follows
    <2> DEFINE t == Append(s, x)
    <2>3. /\ t \in Seq(2..LastCluster) /\ Len(t) = n + 1
          /\ \A k \in 1..n : t[k] = s[k]
          /\ t[n + 1] = x
      BY <2>2 DEF Follows
    <2>4. ASSUME NEW k \in 1..(Len(t) - 1) PROVE t[k + 1] = Fat(d, t[k])
      <3>1. CASE k = n
        BY <2>1, <2>2, <2>3, <3>1
      <3>2. CASE k # n
        <4>1. k \in 1..(n - 1) /\ k \in 1..n /\ k + 1 \in 1..n
          BY <2>2, <2>3, <3>2
        <4>2. s[k + 1] = Fat(d, s[k])
          BY <2>2, <4>1 DEF Follows
        <4> QED
          BY <2>3, <4>1, <4>2
      <3> QED
        BY <3>1, <3>2
    <2>5. t # <<>> /\ t[1] = c
      BY <2>2, <2>3 DEF Follows
    <2>6. Extended(d, s) = t
      BY <1>1, <2>1 DEF Extended
    <2> HIDE DEF t
    <2> QED
      BY <2>3, <2>4, <2>5, <2>6 DEF Follows
  <1>2. CASE Fat(d, s[Len(s)]) \notin 2..LastCluster
    BY <1>2 DEF Extended
  <1> QED
    BY <1>1, <1>2

\* How Chain computes it.
Growing(d, c, ch) ==
  ch = [n \in 0..LastCluster |-> IF n = 0 THEN <<c>> ELSE Extended(d, ch[n - 1])]

\* The recursive function in Chain has values.
LEMMA ChainGrows ==
  ASSUME NEW d, NEW c \in 2..LastCluster
  PROVE  \E ch : Growing(d, c, ch) /\ Chain(d, c) = ch[LastCluster]
  <1> DEFINE Rec(f) == f = [n \in 0..LastCluster |->
                              IF n = 0 THEN <<c>>
                              ELSE LET before == f[n - 1]
                                       next   == Fat(d, before[Len(before)])
                                   IN  IF next \in 2..LastCluster THEN Append(before, next)
                                       ELSE before]
             ch == CHOOSE f : Rec(f)
  <1>1. Chain(d, c) = ch[LastCluster]
    BY DEF Chain
  <1>2. \A f : Rec(f) <=> Growing(d, c, f)
    BY DEF Growing, Extended
  <1>3. \E f : Growing(d, c, f)
    <2> DEFINE S == {s \in Seq(2..LastCluster) : Follows(d, c, s)}
               step == [x \in (1..LastCluster) \X S |-> Extended(d, x[2])]
    <2>1. step \in [(1..LastCluster) \X S -> S]
      BY ExtendedFollows DEF Follows
    <2>2. <<c>> \in S
      BY DEF Follows
    <2>3. LastCluster \in Nat
      BY Geometry
    <2>4. PICK f : Iterates(f, S, <<c>>, step, LastCluster)
      <3> HIDE DEF S, step
      <3> QED
        BY <2>1, <2>2, <2>3, Iteration
    <2>5. ASSUME NEW n \in 1..LastCluster PROVE f[n] = Extended(d, f[n - 1])
      <3>1. n - 1 \in 0..LastCluster
        BY <2>3
      <3>2. <<n, f[n - 1]>> \in (1..LastCluster) \X S
        <4> HIDE DEF S, step
        <4> QED
          BY <2>4, <3>1 DEF Iterates
      <3>3. f[n] = step[<<n, f[n - 1]>>]
        BY <2>4 DEF Iterates
      <3> QED
        BY <3>2, <3>3
    <2>6. \A n \in 0..LastCluster : f[n] = IF n = 0 THEN <<c>> ELSE Extended(d, f[n - 1])
      <3>1. \A n \in 0..LastCluster : n # 0 => n \in 1..LastCluster
        BY <2>3
      <3> QED
        BY <2>4, <2>5, <3>1 DEF Iterates
    <2>7. f = [n \in 0..LastCluster |-> f[n]]
      BY <2>4 DEF Iterates
    <2> HIDE DEF S, step
    <2> QED
      BY <2>6, <2>7 DEF Growing
  <1> HIDE DEF Rec
  <1>4. Rec(ch)
    BY <1>2, <1>3
  <1> QED
    BY <1>1, <1>2, <1>4

\* A chain begins with its first cluster, and each next one is what the FAT
\* says of the one before.
LEMMA ChainFollows ==
  ASSUME NEW d, NEW c \in 2..LastCluster
  PROVE  Follows(d, c, Chain(d, c))
  <1>1. PICK ch : Growing(d, c, ch) /\ Chain(d, c) = ch[LastCluster]
    BY ChainGrows
  <1> DEFINE T == {n \in 0..LastCluster : Follows(d, c, ch[n])}
  <1>2. LastCluster \in Nat
    BY Geometry
  <1>3. 0 \in T
    BY <1>1, <1>2 DEF Growing, Follows
  <1>4. ASSUME NEW n \in T, n < LastCluster PROVE n + 1 \in T
    <2>1. n + 1 \in 0..LastCluster /\ n + 1 # 0 /\ n + 1 - 1 = n
      BY <1>2, <1>4
    <2>2. ch[n + 1] = Extended(d, ch[n])
      BY <1>1, <2>1 DEF Growing
    <2> QED
      BY <2>1, <2>2, ExtendedFollows
  <1>5. LastCluster \in T
    <2> HIDE DEF T
    <2>1. T \subseteq 0..LastCluster
      BY DEF T
    <2>2. T = 0..LastCluster
      BY <1>2, <1>3, <1>4, <2>1, Counting
    <2> QED
      BY <1>2, <2>2
  <1> QED
    BY <1>1, <1>5

\* The entries of all clusters are as they were formatted: write never
\* changes a FAT.
FATKept(d) == \A c \in 1..LastCluster : Fat(d, c) = Fat(Format, c)

\* While the FAT is as formatted, so are the chains.
LEMMA ChainKept ==
  ASSUME NEW d, NEW c \in 2..LastCluster, FATKept(d)
  PROVE  Chain(d, c) = Chain(Format, c)
  <1>1. PICK ch : Growing(d, c, ch) /\ Chain(d, c) = ch[LastCluster]
    BY ChainGrows
  <1>2. PICK cf : Growing(Format, c, cf) /\ Chain(Format, c) = cf[LastCluster]
    BY ChainGrows
  <1> DEFINE T == {n \in 0..LastCluster : Follows(Format, c, cf[n]) /\ ch[n] = cf[n]}
  <1>3. LastCluster \in Nat
    BY Geometry
  <1>4. 0 \in T
    BY <1>1, <1>2, <1>3 DEF Growing, Follows
  <1>5. ASSUME NEW n \in T, n < LastCluster PROVE n + 1 \in T
    <2>1. n + 1 \in 0..LastCluster /\ n + 1 # 0 /\ n + 1 - 1 = n
      BY <1>3, <1>5
    <2>2. ch[n + 1] = Extended(d, ch[n]) /\ cf[n + 1] = Extended(Format, cf[n])
      BY <1>1, <1>2, <2>1 DEF Growing
    <2>3. PICK s : s = cf[n] /\ s = ch[n] /\ Follows(Format, c, s)
      OBVIOUS
    <2>4. s[Len(s)] \in 2..LastCluster
      BY <2>3, LastIn
    <2>5. Extended(d, s) = Extended(Format, s)
      BY <2>4, <1>3 DEF Extended, FATKept
    <2> QED
      BY <2>1, <2>2, <2>3, <2>5, ExtendedFollows
  <1>6. LastCluster \in T
    <2> HIDE DEF T
    <2>1. T \subseteq 0..LastCluster
      BY DEF T
    <2>2. T = 0..LastCluster
      BY <1>3, <1>4, <1>5, <2>1, Counting
    <2> QED
      BY <1>3, <2>2
  <1> QED
    BY <1>1, <1>2, <1>6

\* No cluster is twice in a chain.
LEMMA ChainApart ==
  ASSUME NEW d, NEW c \in 2..LastCluster, FATKept(d)
  PROVE  LET ch == Chain(d, c) IN \A j, k \in 1..Len(ch) : ch[j] = ch[k] => j = k
  BY ChainKept, VolumeAssumption

-----------------------------------------------------------------------------
(* The inductive invariant.                                                *)

\* The clusters of the open file.
Ch == Chain(disk, file.cluster)

\* Between and in calls.
DiskOK ==
  /\ DOMAIN disk = Sectors /\ FATKept(disk)
  /\ position \in Nat /\ (position = 0 \/ position % SectorSize # 0)
  /\ pc \in {"idle", "search", "start", "end", "copy", "endless"}
  /\ pc = "search" => op = "open"

\* A read or write under way stays in the clusters of its file.
CallOK ==
  pc \in {"start", "end", "copy", "endless"} =>
    /\ op \in {"read", "write"} /\ file.cluster \in 2..LastCluster
    /\ size \in Nat /\ endPos = position + size /\ (op = "write" => size # 0)
    /\ position < Len(Ch) * SectorSize /\ endPos <= Len(Ch) * SectorSize
    /\ DOMAIN dest = 0..(size - 1)

\* Cluster k of the file is not behind the one that p is in, or ends with p.
Reached(k, p) == k = position \div SectorSize \/ k * SectorSize < p

\* The loops that seek: start is on the way to the position, end is on the way
\* from there to endPos.
SeekOK ==
  /\ pc \in {"start", "end"} =>
       /\ readPos = position /\ writePos = 0
       /\ clusterIdx \in 0..(Len(Ch) - 1) /\ end = Ch[clusterIdx + 1]
  /\ pc = "start" =>
       /\ start = end /\ clusterIdx * SectorSize <= position
       /\ op = "write" => clusterIdx = 0
  /\ pc = "end" =>
       /\ op = "read"
       /\ position \div SectorSize <= clusterIdx /\ Reached(clusterIdx, endPos)
       /\ start = Ch[position \div SectorSize + 1]

\* Copying: start is the cluster of readPos, end the one of the last byte, and
\* what is behind readPos has been copied.
At(j, e) ==
  /\ j <= e /\ start = Ch[j + 1] /\ end = Ch[e + 1]
  /\ j * SectorSize <= readPos /\ readPos < (j + 1) * SectorSize
  /\ readPos <= endPos /\ endPos <= (e + 1) * SectorSize
  /\ j = e \/ e * SectorSize < endPos
  /\ op = "write" => j = e

CopyOK ==
  pc = "copy" =>
    /\ \E j, e \in 0..(Len(Ch) - 1) : At(j, e)
    /\ writePos \in Nat /\ readPos = position + writePos
    /\ op = "write" => writePos = 0 /\ start = file.cluster /\ endPos <= SectorSize
    /\ op = "read" =>
         LET b == Bytes(disk, file.cluster) IN
         \A i \in 0..(size - 1) : i < writePos => dest[i] = b[position + i]

IInv == DiskOK /\ CallOK /\ SeekOK /\ CopyOK /\ ReadExact /\ WriteExact

-----------------------------------------------------------------------------
(* Every action keeps the invariant.                                       *)

Under == {"start", "end", "copy", "endless"}

\* Initially nothing is under way.
LEMMA InitIInv == Init => IInv
  BY GeometryAssumption DEF Init, IInv, DiskOK, CallOK, SeekOK, CopyOK, ReadExact, WriteExact, Sectors, FATKept

\* A step without a transfer, after which none is under way or done.
LEMMA QuietStep ==
  ASSUME IInv, disk' = disk, pc' \in {"idle", "search"}, pc' = "search" => op' = "open",
         op' \notin {"read", "write"}, position' \in Nat, position' = 0 \/ position' % SectorSize # 0,
         pc' # "idle" => disk = old'
  PROVE  IInv'
  <1>1. DiskOK'
    BY DEF IInv, DiskOK
  <1>2. pc' \notin Under /\ pc' # "start" /\ pc' # "end" /\ pc' # "copy"
    BY DEF Under
  <1>3. CallOK' /\ SeekOK' /\ CopyOK'
    BY <1>2 DEF CallOK, SeekOK, CopyOK, Under
  <1>4. ReadExact' /\ WriteExact'
    BY DEF ReadExact, WriteExact
  <1> QED
    BY <1>1, <1>3, <1>4 DEF IInv

\* The steps of open transfer nothing.
LEMMA OpenStep ==
  ASSUME IInv, SearchCluster \/ SearchEnd \/ \E p \in Paths : CallOpen(p)
  PROVE  IInv'
  <1>1. CASE \E p \in Paths : CallOpen(p)
    <2>1. /\ disk' = disk /\ pc' = "search" /\ op' = "open" /\ position' = position /\ old' = disk
      BY <1>1 DEF CallOpen
    <2>2. position \in Nat /\ (position = 0 \/ position % SectorSize # 0)
      BY DEF IInv, DiskOK
    <2> QED
      BY <2>1, <2>2, QuietStep
  <1>2. CASE SearchCluster \/ SearchEnd
    <2>1. /\ disk' = disk /\ pc = "search" /\ op' = op /\ old' = old
          /\ (pc' = pc /\ position' = position) \/ (pc' = "idle" /\ position' = 0)
      <3>1. CASE SearchEnd
        BY <3>1 DEF SearchEnd, Resolved
      <3>2. CASE SearchCluster
        <4>1. /\ disk' = disk /\ pc = "search" /\ op' = op /\ old' = old
          BY <3>2 DEF SearchCluster
        <4>2. (\E c, s : Resolved(c, s)) \/ UNCHANGED <<rest, lastSize, pc, file, position>>
          BY <3>2 DEF SearchCluster, Entry
        <4> QED
          BY <4>1, <4>2 DEF Resolved
      <3> QED
        BY <1>2, <3>1, <3>2
    <2>2. /\ op = "open" /\ disk = old
          /\ position \in Nat /\ (position = 0 \/ position % SectorSize # 0)
      BY <2>1 DEF IInv, DiskOK, WriteExact
    <2> QED
      BY <2>1, <2>2, QuietStep
  <1> QED
    BY <1>1, <1>2

\* setPosition stays inside of the file.
LEMMA SetPositionStep ==
  ASSUME IInv, Opened, NEW p \in Positions, setPosition(p)
  PROVE  IInv'
  <1>1. p \in Nat /\ (p = 0 \/ p % SectorSize # 0)
    <2>1. Len(Ch) \in Nat
      BY ChainFollows, LastIn DEF Ch, Opened
    <2>2. Len(Ch) * SectorSize \in Nat
      BY <2>1, Products
    <2>3. PICK r \in Nat : r = Room
      BY <2>2 DEF Room, Ch
    <2>4. p \in 0..(r - 1)
      BY <2>3 DEF Positions
    <2> QED
      BY <2>3, <2>4 DEF Positions
  <1>2. /\ disk' = disk /\ pc' = pc /\ pc = "idle" /\ op' = "seek" /\ position' = p
    BY DEF setPosition
  <1> QED
    BY <1>1, <1>2, QuietStep

\* What is known of the file's chain while a transfer is under way.
LEMMA CallChain ==
  ASSUME DiskOK, file.cluster \in 2..LastCluster
  PROVE  /\ Len(Ch) \in Nat \ {0} /\ Ch[1] = file.cluster
         /\ \A k \in 1..Len(Ch) : Ch[k] \in 2..LastCluster
         /\ \A k \in 0..(Len(Ch) - 1) : Ch[k + 1] \in 2..LastCluster
         /\ \A k \in 0..(Len(Ch) - 1) : k + 1 < Len(Ch) => readFAT(Ch[k + 1]) = Ch[k + 2]
         /\ \A j, k \in 0..(Len(Ch) - 1) : Ch[j + 1] = Ch[k + 1] => j = k
  <1>1. Follows(disk, file.cluster, Ch) /\ FATKept(disk)
    BY ChainFollows DEF Ch, DiskOK
  <1>2. PICK n \in Nat \ {0} : n = Len(Ch)
    BY <1>1, LastIn
  <1>3. \A k \in 1..Len(Ch) : Ch[k] \in 2..LastCluster
    BY <1>1, LastIn
  <1>4. \A k \in 1..(Len(Ch) - 1) : Ch[k + 1] = Fat(disk, Ch[k])
    BY <1>1 DEF Follows
  <1>5. \A j, k \in 1..Len(Ch) : Ch[j] = Ch[k] => j = k
    BY <1>1, ChainApart DEF Ch
  <1>6. \A k \in 0..(n - 1) : k + 1 \in 1..n /\ (k + 1 < n => k + 1 \in 1..(n - 1) /\ k + 1 + 1 = k + 2)
    OBVIOUS
  <1>7. \A j, k \in 0..(n - 1) : j + 1 = k + 1 => j = k
    OBVIOUS
  <1>8. Ch[1] = file.cluster
    BY <1>1 DEF Follows
  <1>9. \A k \in 0..(n - 1) : k + 1 < n => readFAT(Ch[k + 1]) = Ch[k + 2]
    BY <1>2, <1>4, <1>6, ReadFATIs
  <1>10. \A j, k \in 0..(n - 1) : Ch[j + 1] = Ch[k + 1] => j = k
    BY <1>2, <1>5, <1>6, <1>7
  <1> QED
    BY <1>2, <1>3, <1>6, <1>8, <1>9, <1>10

\* A call begins in the file's first cluster.
LEMMA CallTransferStep ==
  ASSUME IInv, Opened, NEW o \in {"read", "write"}, NEW n \in Lengths(o),
         position + n <= Room, CallTransfer(o, n)
  PROVE  IInv'
  <1> USE DEF CallTransfer
  <1>1. /\ n \in Nat /\ (o = "write" => n # 0)
        /\ position \in Nat /\ (position = 0 \/ position % SectorSize # 0)
    BY GeometryAssumption DEF IInv, DiskOK, Lengths
  <1>2. /\ file.cluster \in 2..LastCluster /\ Ch' = Ch /\ Room = Len(Ch) * SectorSize
        /\ DiskOK
    BY DEF Opened, Ch, Room, IInv
  <1>3. PICK l \in Nat \ {0} : l = Len(Ch)
    BY <1>2, CallChain
  <1>4. Ch[1] = file.cluster
    BY <1>2, CallChain
  <1>5. position < l * SectorSize
    <2>1. PICK r \in Nat : r = l * SectorSize
      BY Products
    <2>2. r > 0
      <3>1. 0 < l
        OBVIOUS
      <3>2. (0 + 1) * SectorSize <= r
        BY <2>1, <3>1, Products
      <3> QED
        BY <2>1, <3>2, Geometry
    <2>3. position # r
      <3>1. r < (l + 1) * SectorSize
        BY <2>1, Products, Geometry
      <3>2. r % SectorSize = r - r
        BY <2>1, <3>1, PositionIs
      <3> QED
        BY <1>1, <2>1, <2>2, <3>2
    <2>4. position + n <= r
      BY <1>2, <1>3, <2>1
    <2> QED
      BY <1>1, <2>1, <2>3, <2>4
  <1>6. DiskOK'
    BY DEF IInv, DiskOK
  <1>7. CallOK'
    <2>1. endPos' = position' + n /\ position' = position /\ file' = file /\ size' = n /\ op' = o
      BY <1>1
    <2>2. DOMAIN dest' = 0..(size' - 1)
      BY <2>1
    <2> QED
      BY <1>1, <1>2, <1>3, <1>5, <2>1, <2>2 DEF CallOK
  <1>8. SeekOK'
    <2>1. 0 \in 0..(l - 1) /\ 0 * SectorSize = 0 /\ 0 + 1 = 1
      BY Geometry
    <2>2. /\ clusterIdx' = 0 /\ readPos' = position' /\ writePos' = 0 /\ start' = file.cluster
          /\ end' = file.cluster /\ position' = position /\ pc' = "start"
      OBVIOUS
    <2> QED
      BY <1>1, <1>2, <1>3, <1>4, <2>1, <2>2 DEF SeekOK
  <1>9. CopyOK' /\ ReadExact' /\ WriteExact'
    BY DEF CopyOK, ReadExact, WriteExact
  <1> QED
    BY <1>6, <1>7, <1>8, <1>9 DEF IInv

\* A step of a transfer, which changes neither disk nor file.
LEMMA TransferStep ==
  ASSUME IInv, pc \in Under, UNCHANGED <<disk, file, position, op, size, endPos, old>>,
         pc' \in Under, DOMAIN dest' = 0..(size - 1), SeekOK', CopyOK'
  PROVE  IInv'
  <1>1. Ch' = Ch
    BY DEF Ch
  <1>2. DiskOK'
    BY DEF IInv, DiskOK, Under
  <1>3. CallOK'
    BY <1>1 DEF IInv, CallOK, Under
  <1>4. ReadExact' /\ WriteExact'
    BY DEF IInv, ReadExact, WriteExact, Under
  <1> QED
    BY <1>2, <1>3, <1>4 DEF IInv

\* What holds whenever a transfer is under way.
LEMMA UnderFacts ==
  ASSUME IInv, pc \in Under
  PROVE  /\ DiskOK /\ file.cluster \in 2..LastCluster /\ op \in {"read", "write"}
         /\ position \in Nat /\ size \in Nat /\ endPos = position + size /\ endPos \in Nat
         /\ position = 0 \/ position % SectorSize # 0
         /\ Len(Ch) \in Nat \ {0} /\ Len(Ch) * SectorSize \in Nat
         /\ position < Len(Ch) * SectorSize /\ endPos <= Len(Ch) * SectorSize
         /\ DOMAIN dest = 0..(size - 1)
         /\ disk = old
  <1>1. DiskOK /\ file.cluster \in 2..LastCluster
    BY DEF IInv, CallOK, Under
  <1>2. Len(Ch) \in Nat \ {0}
    BY <1>1, CallChain
  <1>3. Len(Ch) * SectorSize \in Nat
    BY <1>2, Products
  <1>4. position \in Nat /\ size \in Nat /\ endPos = position + size
    BY DEF IInv, DiskOK, CallOK, Under
  <1>5. endPos \in Nat
    BY <1>4
  <1> QED
    BY <1>1, <1>2, <1>3, <1>4, <1>5 DEF IInv, DiskOK, CallOK, Under, WriteExact

\* The loops go on inside of the file: what is behind a cluster is in another.
LEMMA Onward ==
  ASSUME IInv, pc \in Under, NEW k \in 0..(Len(Ch) - 1), NEW p \in Nat,
         p <= Len(Ch) * SectorSize, p > (k + 1) * SectorSize
  PROVE  k + 1 \in 0..(Len(Ch) - 1) /\ readFAT(Ch[k + 1]) = Ch[k + 2] /\ k + 1 + 1 = k + 2
  <1>1. PICK l \in Nat \ {0} : l = Len(Ch)
    BY UnderFacts
  <1>2. k \in Nat /\ k + 1 \in Nat
    BY <1>1
  <1>3. (k + 1) * SectorSize < l * SectorSize
    <2>1. (k + 1) * SectorSize \in Nat /\ l * SectorSize \in Nat
      BY <1>2, Products
    <2>2. PICK a \in Nat, b \in Nat : a = (k + 1) * SectorSize /\ b = l * SectorSize
      BY <2>1
    <2>3. p <= b /\ p > a
      BY <1>1, <2>2
    <2>4. a < b
      BY <2>3
    <2> QED
      BY <2>2, <2>4
  <1>4. k + 1 < l
    BY <1>2, <1>3, Products
  <1>5. k + 1 \in 0..(l - 1) /\ k + 1 + 1 = k + 2
    BY <1>1, <1>2, <1>4
  <1>6. DiskOK /\ file.cluster \in 2..LastCluster
    BY UnderFacts
  <1>7. readFAT(Ch[k + 1]) = Ch[k + 2]
    BY <1>1, <1>4, <1>6, CallChain
  <1> QED
    BY <1>1, <1>5, <1>7

\* A cluster on, or start is the cluster of the position.
LEMMA SeekStartStep ==
  ASSUME IInv, SeekStart
  PROVE  IInv'
  <1> USE DEF SeekStart
  <1>1. /\ pc \in Under /\ pc = "start" /\ op = "read" /\ pc' \in {"start", "end"} /\ pc' \in Under
        /\ UNCHANGED <<disk, file, position, op, size, endPos, old, readPos, writePos, dest>>
    BY DEF Under
  <1>2. Ch' = Ch
    BY <1>1 DEF Ch
  <1>3. PICK k \in 0..(Len(Ch) - 1) : k = clusterIdx
    BY <1>1 DEF IInv, SeekOK
  <1>4. /\ start = end /\ end = Ch[k + 1] /\ k * SectorSize <= position
        /\ readPos = position /\ writePos = 0
    BY <1>1, <1>3 DEF IInv, SeekOK
  <1>5. /\ position \in Nat /\ position <= Len(Ch) * SectorSize /\ k \in Nat
        /\ position = 0 \/ position % SectorSize # 0
    BY <1>1, <1>3, UnderFacts
  <1>6. SeekOK'
    <2>1. CASE After(position)
      <3>1. position > (k + 1) * SectorSize
        BY <1>3, <2>1 DEF After
      <3>2. k + 1 \in 0..(Len(Ch) - 1) /\ readFAT(Ch[k + 1]) = Ch[k + 2] /\ k + 1 + 1 = k + 2
        BY <1>1, <1>5, <3>1, Onward
      <3>3. start' = Ch[k + 2] /\ end' = start' /\ clusterIdx' = k + 1 /\ pc' = "start"
        BY <1>1, <1>3, <1>4, <2>1, <3>2
      <3>4. (k + 1) * SectorSize <= position
        BY <1>5, <3>1, Products
      <3> QED
        BY <1>1, <1>2, <1>4, <3>2, <3>3, <3>4 DEF SeekOK
    <2>2. CASE ~After(position)
      <3>1. /\ position <= (k + 1) * SectorSize
            /\ start' = start /\ end' = end /\ clusterIdx' = clusterIdx /\ pc' = "end"
        <4>1. PICK q \in Nat : q = (k + 1) * SectorSize
          BY <1>5, Products
        <4>2. ~(position > q)
          BY <1>3, <2>2, <4>1 DEF After
        <4>3. position <= q
          BY <1>5, <4>2
        <4> QED
          BY <2>2, <4>1, <4>3
      <3>2. position < (k + 1) * SectorSize
        <4>1. PICK q \in Nat : q = (k + 1) * SectorSize
          BY <1>5, Products
        <4>2. k + 1 \in Nat /\ (k + 1) + 1 \in Nat
          BY <1>5
        <4>3. q < (k + 1 + 1) * SectorSize /\ q > 0
          <5>1. (k + 1 + 1) * SectorSize = q + SectorSize /\ q = k * SectorSize + SectorSize
                /\ k * SectorSize \in Nat
            BY <1>5, <4>1, <4>2, Products
          <5> HIDE DEF SeekStart
          <5> QED
            BY <5>1, Geometry
        <4>4. q % SectorSize = q - q
          BY <4>1, <4>2, <4>3, PositionIs
        <4>5. position # q
          BY <1>5, <4>1, <4>3, <4>4
        <4> QED
          BY <1>5, <3>1, <4>1, <4>5
      <3>3. position \div SectorSize = k
        BY <1>4, <1>5, <3>2, PositionIs
      <3>4. Reached(k, endPos) /\ k <= k
        BY <1>5, <3>3 DEF Reached
      <3> QED
        BY <1>1, <1>2, <1>3, <1>4, <3>1, <3>3, <3>4 DEF SeekOK, Reached
    <2> QED
      BY <2>1, <2>2
  <1>7. CopyOK'
    BY <1>1 DEF CopyOK
  <1>8. DOMAIN dest' = 0..(size - 1)
    BY <1>1, UnderFacts
  <1> QED
    BY <1>1, <1>6, <1>7, <1>8, TransferStep

\* A cluster on, or end is the cluster of the last byte.
LEMMA SeekEndStep ==
  ASSUME IInv, SeekEnd
  PROVE  IInv'
  <1> USE DEF SeekEnd
  <1>1. /\ pc \in Under /\ pc = "end" /\ op = "read" /\ pc' \in {"end", "copy"} /\ pc' \in Under
        /\ UNCHANGED <<disk, file, position, op, size, endPos, old, start, readPos, writePos, dest>>
    BY DEF Under, IInv, SeekOK
  <1>2. Ch' = Ch
    BY <1>1 DEF Ch
  <1>3. PICK k \in 0..(Len(Ch) - 1) : k = clusterIdx
    BY <1>1 DEF IInv, SeekOK
  <1>4. PICK j \in Nat : j = position \div SectorSize
    BY <1>1, UnderFacts, Position
  <1>5. /\ start = Ch[j + 1] /\ end = Ch[k + 1] /\ j <= k /\ (k = j \/ k * SectorSize < endPos)
        /\ readPos = position /\ writePos = 0
    BY <1>1, <1>3, <1>4 DEF IInv, SeekOK, Reached
  <1>6. /\ position \in Nat /\ endPos \in Nat /\ endPos <= Len(Ch) * SectorSize /\ k \in Nat
        /\ position <= endPos
    BY <1>1, <1>3, UnderFacts
  <1>7. CASE After(endPos)
    <2>1. endPos > (k + 1) * SectorSize
      BY <1>3, <1>7 DEF After
    <2>2. k + 1 \in 0..(Len(Ch) - 1) /\ readFAT(Ch[k + 1]) = Ch[k + 2] /\ k + 1 + 1 = k + 2
      BY <1>1, <1>6, <2>1, Onward
    <2>3. end' = Ch[k + 2] /\ clusterIdx' = k + 1 /\ pc' = "end"
      BY <1>1, <1>3, <1>5, <1>7, <2>2
    <2>4. (k + 1) * SectorSize < endPos /\ j <= k + 1
      BY <1>5, <1>6, <2>1, Products
    <2>5. SeekOK'
      BY <1>1, <1>2, <1>4, <1>5, <2>2, <2>3, <2>4 DEF SeekOK, Reached
    <2>6. CopyOK'
      BY <2>3 DEF CopyOK
    <2>7. DOMAIN dest' = 0..(size - 1)
      BY <1>1, UnderFacts
    <2> QED
      BY <1>1, <2>5, <2>6, <2>7, TransferStep
  <1>8. CASE ~After(endPos)
    <2>1. endPos <= (k + 1) * SectorSize /\ end' = end /\ pc' = "copy"
      <3>1. PICK q \in Nat : q = (k + 1) * SectorSize
        BY <1>6, Products
      <3>2. ~(endPos > q)
        BY <1>3, <1>8, <3>1 DEF After
      <3>3. endPos <= q
        BY <1>6, <3>2
      <3> QED
        BY <1>8, <3>1, <3>3
    <2>2. j * SectorSize <= position /\ position < (j + 1) * SectorSize
      <3>1. PICK r \in 0..(SectorSize - 1) : r = position % SectorSize
        BY <1>6, Position
      <3>2. position = j * SectorSize + r /\ (j + 1) * SectorSize = j * SectorSize + SectorSize
            /\ j * SectorSize \in Nat
        BY <1>4, <1>6, <3>1, Position, Products
      <3> QED
        BY <3>1, <3>2, Geometry
    <2>3. j \in 0..(Len(Ch) - 1)
      BY <1>3, <1>4, <1>5, <1>6
    <2>4. At(j, k)'
      BY <1>1, <1>2, <1>5, <1>6, <2>1, <2>2 DEF At
    <2>5. CopyOK'
      <3>1. (\E x, y \in 0..(Len(Ch) - 1) : At(x, y))'
        BY <1>2, <2>3, <2>4
      <3>2. writePos' = 0 /\ readPos' = position' /\ op' = "read" /\ position' \in Nat
        BY <1>1, <1>5, <1>6
      <3>3. size' \in Nat
        BY <1>1, UnderFacts
      <3>4. \A i \in 0..(size' - 1) : ~(i < 0)
        BY <3>3
      <3>5. readPos' = position' + writePos' /\ writePos' \in Nat /\ op' # "write"
        BY <3>2
      <3>6. (\A i \in 0..(size - 1) : i < writePos => dest[i] = Bytes(disk, file.cluster)[position + i])'
        BY <3>2, <3>4
      <3> HIDE DEF SeekEnd
      <3> QED
        BY <3>1, <3>5, <3>6 DEF CopyOK
    <2>6. SeekOK'
      BY <2>1 DEF SeekOK
    <2>7. DOMAIN dest' = 0..(size - 1)
      BY <1>1, UnderFacts
    <2> QED
      BY <1>1, <2>5, <2>6, <2>7, TransferStep
  <1> QED
    BY <1>7, <1>8

\* A write goes on only inside of the first cluster.
LEMMA SeekWriteStep ==
  ASSUME IInv, SeekWrite
  PROVE  IInv'
  <1> USE DEF SeekWrite
  <1>1. /\ pc \in Under /\ pc = "start" /\ op = "write" /\ pc' \in {"endless", "copy"} /\ pc' \in Under
        /\ UNCHANGED <<disk, file, position, op, size, endPos, old, start, end, readPos, writePos, dest>>
    BY DEF Under, loopVars
  <1>2. Ch' = Ch
    BY <1>1 DEF Ch
  <1>3. start = Ch[1] /\ end = Ch[1] /\ readPos = position /\ writePos = 0
    BY <1>1 DEF IInv, SeekOK
  <1>4. /\ position \in Nat /\ endPos \in Nat /\ position <= endPos
        /\ Len(Ch) \in Nat \ {0} /\ Ch[1] = file.cluster
    BY <1>1, UnderFacts, CallChain
  <1>5. SeekOK'
    BY <1>1 DEF SeekOK
  <1>6. CopyOK'
    <2>1. SUFFICES ASSUME pc' = "copy" PROVE CopyOK'
      BY DEF CopyOK
    <2>2. position < SectorSize /\ endPos <= SectorSize
      BY <1>4, <2>1, Geometry
    <2>3. 0 * SectorSize = 0 /\ (0 + 1) * SectorSize = SectorSize /\ 0 + 1 = 1
      BY Geometry
    <2>4. At(0, 0)' /\ 0 \in 0..(Len(Ch) - 1)
      BY <1>1, <1>2, <1>3, <1>4, <2>2, <2>3 DEF At
    <2> QED
      BY <1>1, <1>2, <1>3, <1>4, <2>2, <2>4 DEF CopyOK
  <1>7. DOMAIN dest' = 0..(size - 1)
    BY <1>1, UnderFacts
  <1> QED
    BY <1>1, <1>5, <1>6, <1>7, TransferStep

-----------------------------------------------------------------------------
(* What is copied.                                                         *)

\* A byte of a file is in the cluster that its position says.
LEMMA BytesAt ==
  ASSUME DiskOK, file.cluster \in 2..LastCluster, NEW k \in 0..(Len(Ch) - 1), NEW p \in Nat,
         k * SectorSize <= p, p < (k + 1) * SectorSize
  PROVE  Bytes(disk, file.cluster)[p] = readCluster(Ch[k + 1])[p - k * SectorSize]
  <1>1. PICK l \in Nat \ {0} : l = Len(Ch)
    BY CallChain
  <1>2. k \in Nat /\ k < l
    BY <1>1
  <1>3. p \div SectorSize = k /\ p % SectorSize = p - k * SectorSize
    BY <1>2, PositionIs
  <1>4. p \in 0..(l * SectorSize - 1)
    <2>1. PICK a \in Nat, b \in Nat : a = (k + 1) * SectorSize /\ b = l * SectorSize
      BY <1>2, Products
    <2>2. a <= b
      BY <1>2, <2>1, Products
    <2> QED
      BY <2>1, <2>2
  <1>5. Bytes(disk, file.cluster)[p] = disk[DataStart + Ch[k + 1] - 2][p - k * SectorSize]
    BY <1>1, <1>3, <1>4 DEF Bytes, Ch
  <1>6. Ch[k + 1] \in 2..LastCluster
    BY CallChain
  <1>7. ClusterSector(Ch[k + 1]) = DataStart + Ch[k + 1] - 2
    BY <1>6, ClusterSectorIs
  <1> QED
    BY <1>5, <1>7 DEF readCluster

\* Where a copy is, and how much it moves.
LEMMA CopyFacts ==
  ASSUME IInv, pc = "copy"
  PROVE  \E j, e \in 0..(Len(Ch) - 1) :
           /\ At(j, e) /\ j \in Nat /\ e \in Nat
           /\ start = end <=> j = e
           /\ writePos \in Nat /\ readPos \in Nat /\ readPos = position + writePos
           /\ j * SectorSize \in Nat /\ (j + 1) * SectorSize = j * SectorSize + SectorSize
           /\ readPos \div SectorSize = j /\ Offset = readPos - j * SectorSize
           /\ CopyLen = IF j = e THEN endPos - readPos ELSE (j + 1) * SectorSize - readPos
  <1>1. PICK j \in 0..(Len(Ch) - 1), e \in 0..(Len(Ch) - 1) : At(j, e)
    BY DEF IInv, CopyOK
  <1>2. pc \in Under
    BY DEF Under
  <1>3. j \in Nat /\ e \in Nat
    BY <1>2, UnderFacts
  <1>4. writePos \in Nat /\ readPos = position + writePos /\ readPos \in Nat
    <2>1. position \in Nat
      BY <1>2, UnderFacts
    <2>2. writePos \in Nat /\ readPos = position + writePos
      BY DEF IInv, CopyOK
    <2> QED
      BY <2>1, <2>2
  <1>5. j * SectorSize <= readPos /\ readPos < (j + 1) * SectorSize
    BY <1>1 DEF At
  <1>6. readPos \div SectorSize = j /\ readPos % SectorSize = readPos - j * SectorSize
    BY <1>3, <1>4, <1>5, PositionIs
  <1>7. j * SectorSize \in Nat /\ (j + 1) * SectorSize = j * SectorSize + SectorSize
    BY <1>3, Products
  <1>8. start = end <=> j = e
    <2>1. DiskOK /\ file.cluster \in 2..LastCluster
      BY <1>2, UnderFacts
    <2>2. start = Ch[j + 1] /\ end = Ch[e + 1]
      BY <1>1 DEF At
    <2> QED
      BY <2>1, <2>2, CallChain
  <1>9. CopyLen = IF j = e THEN endPos - readPos ELSE (j + 1) * SectorSize - readPos
    <2>1. Offset = readPos - j * SectorSize
      BY <1>6 DEF Offset
    <2>2. SectorSize - Offset = (j + 1) * SectorSize - readPos
      <3>1. PICK a \in Nat : a = j * SectorSize
        BY <1>7
      <3> QED
        BY <1>4, <1>7, <2>1, <3>1, Geometry
    <2> QED
      BY <1>8, <2>2 DEF CopyLen
  <1> QED
    BY <1>1, <1>3, <1>4, <1>6, <1>7, <1>8, <1>9 DEF Offset

\* What a memcpy of read puts in the buffer is of the file: the bytes up to the
\* end of the cluster, or to the end of the read.
LEMMA MovedRight ==
  ASSUME IInv, pc = "copy", op = "read", NEW i \in 0..(size - 1), i < writePos + CopyLen
  PROVE  Moved(dest, readCluster(start))[i] = Bytes(disk, file.cluster)[position + i]
  <1>1. pc \in Under
    BY DEF Under
  <1>2. PICK j \in 0..(Len(Ch) - 1), e \in 0..(Len(Ch) - 1) :
           /\ At(j, e) /\ j \in Nat /\ e \in Nat
           /\ writePos \in Nat /\ readPos \in Nat /\ readPos = position + writePos
           /\ j * SectorSize \in Nat /\ (j + 1) * SectorSize = j * SectorSize + SectorSize
           /\ Offset = readPos - j * SectorSize
           /\ CopyLen = IF j = e THEN endPos - readPos ELSE (j + 1) * SectorSize - readPos
    BY CopyFacts
  <1>3. /\ position \in Nat /\ size \in Nat /\ endPos \in Nat
        /\ DOMAIN dest = 0..(size - 1) /\ DiskOK /\ file.cluster \in 2..LastCluster
    BY <1>1, UnderFacts
  <1>4. PICK a \in Nat, b \in Nat : a = j * SectorSize /\ b = (j + 1) * SectorSize
    BY <1>2, Products
  <1>5. start = Ch[j + 1] /\ a <= readPos /\ readPos < b /\ (j = e => endPos <= b) /\ readPos <= endPos
    BY <1>2, <1>4 DEF At
  <1>6. PICK c \in Nat : c = CopyLen /\ readPos + c <= b
    <2>1. CASE j = e
      BY <1>2, <1>3, <1>5, <2>1
    <2>2. CASE j # e
      <3>1. CopyLen = b - readPos /\ readPos \in Nat /\ readPos < b
        BY <1>2, <1>4, <1>5, <2>2
      <3>2. b - readPos \in Nat /\ readPos + (b - readPos) <= b
        BY <3>1
      <3> QED
        BY <3>1, <3>2
    <2> QED
      BY <2>1, <2>2
  <1>7. CASE i < writePos
    <2>1. dest[i] = Bytes(disk, file.cluster)[position + i]
      BY <1>7 DEF IInv, CopyOK
    <2>2. i \notin writePos..(writePos + CopyLen - 1)
      BY <1>2, <1>6, <1>7
    <2> QED
      BY <1>3, <2>1, <2>2 DEF Moved
  <1>8. CASE i >= writePos
    <2>1. i \in writePos..(writePos + CopyLen - 1)
      <3>1. i \in Nat /\ i < writePos + c /\ writePos \in Nat
        BY <1>2, <1>3, <1>6
      <3>2. i \in writePos..(writePos + c - 1)
        BY <1>8, <3>1
      <3> QED
        BY <1>6, <3>2
    <2>2. PICK p \in Nat : p = position + i
      BY <1>3
    <2>3. a <= p /\ p < b /\ i - writePos + Offset = p - a
      <3>1. i \in Nat /\ i < writePos + c /\ Offset = readPos - a /\ readPos = position + writePos
        BY <1>2, <1>3, <1>4, <1>6
      <3>2. PICK n \in Nat : n = writePos
        BY <1>2
      <3>3. position \in Nat /\ a <= position + n /\ position + n + c <= b
        BY <1>2, <1>3, <1>5, <1>6, <3>2
      <3>4. a <= p /\ p < b /\ i - n + ((position + n) - a) = p - a
        BY <1>8, <2>2, <3>1, <3>2, <3>3
      <3>5. Offset = (position + n) - a
        BY <3>1, <3>2
      <3>6. i - writePos + Offset = i - n + ((position + n) - a)
        BY <3>2, <3>5
      <3> QED
        BY <3>4, <3>6
    <2>4. Bytes(disk, file.cluster)[p] = readCluster(Ch[j + 1])[p - a]
      BY <1>3, <1>4, <2>3, BytesAt
    <2>5. Moved(dest, readCluster(start))[i] = readCluster(start)[i - writePos + Offset]
      BY <1>3, <2>1 DEF Moved
    <2> QED
      BY <1>5, <2>2, <2>3, <2>4, <2>5
  <1> QED
    BY <1>2, <1>3, <1>7, <1>8

\* A cluster is copied to its end, start is the next one.
LEMMA NextClusterStep ==
  ASSUME IInv, NextCluster
  PROVE  IInv'
  <1>1. /\ pc = "copy" /\ start # end /\ pc' = pc
        /\ dest' = Moved(dest, readCluster(start)) /\ writePos' = writePos + CopyLen
        /\ readPos' = (readPos \div SectorSize + 1) * SectorSize /\ start' = readFAT(start)
        /\ UNCHANGED <<disk, file, position, op, size, end, endPos, old>>
    BY DEF NextCluster
  <1>2. pc \in Under /\ pc' \in Under
    BY <1>1 DEF Under
  <1>3. Ch' = Ch
    BY <1>1 DEF Ch
  <1>4. PICK j \in 0..(Len(Ch) - 1), e \in 0..(Len(Ch) - 1) :
           /\ At(j, e) /\ j \in Nat /\ e \in Nat /\ j # e
           /\ writePos \in Nat /\ readPos \in Nat /\ readPos = position + writePos
           /\ j * SectorSize \in Nat /\ (j + 1) * SectorSize = j * SectorSize + SectorSize
           /\ readPos \div SectorSize = j
           /\ CopyLen = (j + 1) * SectorSize - readPos
    BY <1>1, CopyFacts
  <1>5. /\ j < e /\ start = Ch[j + 1] /\ end = Ch[e + 1] /\ e * SectorSize < endPos
        /\ endPos <= (e + 1) * SectorSize /\ readPos < (j + 1) * SectorSize /\ op # "write"
    BY <1>4 DEF At
  <1>6. /\ position \in Nat /\ size \in Nat /\ endPos \in Nat /\ op = "read"
        /\ DOMAIN dest = 0..(size - 1) /\ DiskOK /\ file.cluster \in 2..LastCluster
        /\ Len(Ch) \in Nat \ {0}
    BY <1>2, <1>5, UnderFacts
  <1>7. PICK b \in Nat : b = (j + 1) * SectorSize
    BY <1>4, Products
  <1>8. readPos' = b /\ writePos' = writePos + (b - readPos) /\ readPos < b
    BY <1>1, <1>4, <1>5, <1>7
  <1>9. writePos' \in Nat /\ readPos' = position + writePos'
    BY <1>4, <1>6, <1>8
  <1>10. At(j + 1, e)' /\ j + 1 \in 0..(Len(Ch) - 1)
    <2>1. j + 1 \in Nat /\ j + 1 <= e /\ j + 1 < Len(Ch) /\ j + 1 \in 0..(Len(Ch) - 1) /\ j + 1 + 1 = j + 2
      BY <1>4, <1>5, <1>6
    <2>2. start' = Ch[j + 2]
      BY <1>1, <1>5, <1>6, <2>1, CallChain
    <2>3. (j + 1) * SectorSize <= e * SectorSize /\ e * SectorSize \in Nat
      BY <1>4, <2>1, Products
    <2>4. b <= endPos
      <3>1. PICK a \in Nat : a = e * SectorSize
        BY <2>3
      <3> QED
        BY <1>5, <1>6, <1>7, <2>3, <3>1
    <2>5. b < (j + 2) * SectorSize
      <3>1. (j + 1 + 1) * SectorSize = b + SectorSize
        BY <1>7, <2>1, Products
      <3> QED
        BY <2>1, <3>1, Geometry
    <2> QED
      BY <1>1, <1>3, <1>5, <1>7, <1>8, <2>1, <2>2, <2>4, <2>5 DEF At
  <1>11. CopyOK'
    <2>1. (\E x, y \in 0..(Len(Ch) - 1) : At(x, y))'
      BY <1>3, <1>10
    <2>2. (\A i \in 0..(size - 1) : i < writePos => dest[i] = Bytes(disk, file.cluster)[position + i])'
      BY <1>1, <1>6, MovedRight
    <2> QED
      BY <1>1, <1>6, <1>9, <2>1, <2>2 DEF CopyOK
  <1>12. SeekOK'
    BY <1>1 DEF SeekOK
  <1>13. DOMAIN dest' = 0..(size - 1)
    BY <1>1, <1>6 DEF Moved
  <1> QED
    BY <1>1, <1>2, <1>11, <1>12, <1>13, TransferStep

\* A call has returned.
LEMMA ReturnStep ==
  ASSUME IInv, pc' = "idle", position' = position, DOMAIN disk' = Sectors, FATKept(disk'),
         ReadExact', WriteExact'
  PROVE  IInv'
  <1>1. DiskOK'
    BY DEF IInv, DiskOK
  <1>2. CallOK' /\ SeekOK' /\ CopyOK'
    BY DEF CallOK, SeekOK, CopyOK
  <1> QED
    BY <1>1, <1>2 DEF IInv

\* What is left is copied: all is.
LEMMA LastReadStep ==
  ASSUME IInv, LastRead
  PROVE  IInv'
  <1>1. /\ pc = "copy" /\ start = end /\ op = "read" /\ pc' = "idle"
        /\ dest' = Moved(dest, readCluster(start))
        /\ UNCHANGED <<disk, file, position, op, size, old>>
    BY DEF LastRead
  <1>2. pc \in Under
    BY <1>1 DEF Under
  <1>3. /\ position \in Nat /\ size \in Nat /\ endPos = position + size /\ disk = old
        /\ DOMAIN dest = 0..(size - 1)
    BY <1>2, UnderFacts
  <1>4. writePos \in Nat /\ readPos = position + writePos /\ CopyLen = endPos - readPos
    BY <1>1, CopyFacts
  <1>5. writePos + CopyLen = size
    BY <1>3, <1>4
  <1>6. \A i \in 0..(size - 1) : dest'[i] = Bytes(disk, file.cluster)[position + i]
    <2>1. \A i \in 0..(size - 1) : i < size
      BY <1>3
    <2> QED
      BY <1>1, <1>5, <2>1, MovedRight
  <1>7. dest' = [i \in 0..(size - 1) |-> dest'[i]]
    BY <1>1, <1>3 DEF Moved
  <1>8. dest' = [i \in 0..(size - 1) |-> Bytes(disk, file.cluster)[position + i]]
    BY <1>6, <1>7
  <1>9. ReadExact' /\ WriteExact'
    BY <1>1, <1>3, <1>8 DEF ReadExact, WriteExact
  <1>10. DOMAIN disk' = Sectors /\ FATKept(disk')
    BY <1>1 DEF IInv, DiskOK
  <1> QED
    BY <1>1, <1>9, <1>10, ReturnStep

\* The FAT is before the data.
LEMMA DataBehindFAT ==
  ASSUME NEW c \in 1..LastCluster, NEW f \in 2..LastCluster
  PROVE  /\ PartitionOffset + ReservedSectors + c \div SectorSize \in Sectors
         /\ PartitionOffset + ReservedSectors + c \div SectorSize # DataStart + f - 2
  <1>1. PICK q \in Nat, r \in 0..(SectorSize - 1) : q = c \div SectorSize /\ r = c % SectorSize
    <2>1. c \in Nat
      OBVIOUS
    <2> QED
      BY <2>1, Position
  <1>2. q < SectorsPerFAT
    <2>1. c \in Nat /\ c <= LastCluster
      BY Geometry
    <2>2. c = q * SectorSize + r
      BY <1>1, <2>1, Position
    <2>3. PICK a \in Nat, b \in Nat : a = q * SectorSize /\ b = SectorsPerFAT * SectorSize
      BY Products, Geometry
    <2>4. a < b
      BY <2>1, <2>2, <2>3, Geometry, VolumeAssumption
    <2> QED
      BY <2>3, <2>4, Products, Geometry
  <1>3. PICK n \in Nat : n = NumberOfFAT * SectorsPerFAT /\ SectorsPerFAT <= n
    <2>1. PICK x \in Nat \ {0}, y \in Nat : x = NumberOfFAT /\ y = SectorsPerFAT
      BY Geometry, VolumeAssumption
    <2>2. x * y = y + (x - 1) * y /\ (x - 1) * y \in Nat
      BY <2>1
    <2>3. x * y \in Nat /\ y <= x * y
      BY <2>1, <2>2
    <2> QED
      BY <2>1, <2>3
  <1>4. PICK m \in Nat : m = (RootEntries + SectorSize - 1) \div SectorSize
    <2>1. RootEntries + SectorSize - 1 \in Nat
      BY Geometry, GeometryAssumption
    <2> QED
      BY <2>1, Position
  <1>5. DataStart = PartitionOffset + ReservedSectors + n + m
    BY <1>3, <1>4 DEF DataStart, RootStart
  <1>6. PICK z \in Nat : z = PartitionOffset + ReservedSectors + q
    BY Geometry
  <1>7. z \in (PartitionOffset + ReservedSectors)..(DataStart + LastCluster - 2)
    BY <1>2, <1>3, <1>5, <1>6, Geometry
  <1>8. z # DataStart + f - 2
    BY <1>2, <1>3, <1>5, <1>6, Geometry
  <1> QED
    BY <1>1, <1>6, <1>7, <1>8, VolumeAssumption

\* One sector changes, and only where it is to.
LEMMA LastWriteStep ==
  ASSUME IInv, LastWrite
  PROVE  IInv'
  <1>1. /\ pc = "copy" /\ start = end /\ op = "write" /\ pc' = "idle"
        /\ UNCHANGED <<file, position, op, size, old, calls>>
    BY DEF LastWrite
  <1>2. pc \in Under
    BY <1>1 DEF Under
  <1>3. /\ position \in Nat /\ size \in Nat /\ endPos = position + size /\ disk = old
        /\ DiskOK /\ file.cluster \in 2..LastCluster /\ DOMAIN disk = Sectors /\ FATKept(disk)
    BY <1>2, UnderFacts DEF DiskOK
  <1>4. writePos = 0 /\ start = file.cluster /\ endPos <= SectorSize /\ readPos = position
    BY <1>1, <1>3 DEF IInv, CopyOK
  <1>5. Offset = position /\ CopyLen = size
    <2>1. PICK j \in 0..(Len(Ch) - 1), e \in 0..(Len(Ch) - 1) :
             /\ At(j, e) /\ Offset = readPos - j * SectorSize /\ CopyLen = endPos - readPos
      BY <1>1, CopyFacts
    <2>2. j = 0
      <3>1. Len(Ch) \in Nat \ {0} /\ Ch[1] = file.cluster
        BY <1>3, CallChain
      <3>2. Ch[j + 1] = Ch[0 + 1] /\ 0 \in 0..(Len(Ch) - 1)
        BY <1>4, <2>1, <3>1 DEF At
      <3> QED
        BY <1>3, <3>2, CallChain
    <2>3. 0 * SectorSize = 0
      BY Geometry
    <2> QED
      BY <1>3, <1>4, <2>1, <2>2, <2>3
  <1> DEFINE w == DataStart + file.cluster - 2
  <1>6. ClusterSector(start) = w
    BY <1>3, <1>4, ClusterSectorIs
  <1>7. disk' = [disk EXCEPT ![w] = [i \in 0..(SectorSize - 1) |->
                   IF i \in position..(position + size - 1) THEN Written(i - position) ELSE disk[w][i]]]
    <2>1. disk' = [disk EXCEPT ![w] = [i \in 0..(SectorSize - 1) |->
                   IF i \in Offset..(Offset + CopyLen - 1)
                   THEN Written(writePos + i - Offset) ELSE disk[w][i]]]
      BY <1>6 DEF LastWrite
    <2>2. \A i \in 0..(SectorSize - 1) : writePos + i - Offset = i - position
      BY <1>3, <1>4, <1>5, Geometry
    <2> HIDE DEF w
    <2> QED
      BY <1>5, <2>1, <2>2
  <1>8. /\ DOMAIN disk' = Sectors
        /\ \A s \in Sectors : s # w => disk'[s] = disk[s]
        /\ \A i \in 0..(SectorSize - 1) : w \in Sectors =>
             disk'[w][i] = IF i \in position..(position + size - 1) THEN Written(i - position)
                           ELSE disk[w][i]
    <2> HIDE DEF w
    <2> QED
      BY <1>3, <1>7
  <1>9. FATKept(disk')
    <2> SUFFICES ASSUME NEW c \in 1..LastCluster PROVE Fat(disk', c) = Fat(Format, c)
      BY DEF FATKept
    <2>1. PICK s \in Sectors : s = PartitionOffset + ReservedSectors + c \div SectorSize /\ s # w
      BY <1>3, DataBehindFAT
    <2>2. disk'[s] = disk[s]
      BY <1>8, <2>1
    <2>3. Fat(disk', c) = Fat(disk, c)
      BY <2>1, <2>2 DEF Fat
    <2> QED
      BY <1>3, <2>3 DEF FATKept
  <1>10. ReadExact' /\ WriteExact'
    <2>1. ReadExact'
      BY <1>1 DEF ReadExact
    <2>2. ASSUME NEW s \in Sectors, NEW i \in 0..(SectorSize - 1)
          PROVE  disk'[s][i] = IF s = w /\ i \in position..(position + size - 1)
                               THEN Written(i - position) ELSE old[s][i]
      <3> HIDE DEF w
      <3> QED
        BY <1>3, <1>8
    <2>3. \A i : Written(i)' = Written(i)
      BY <1>1 DEF Written
    <2> QED
      BY <1>1, <2>1, <2>2, <2>3 DEF WriteExact
  <1> QED
    BY <1>1, <1>8, <1>9, <1>10, ReturnStep

\* No step.
LEMMA StutterStep ==
  ASSUME IInv, UNCHANGED vars
  PROVE  IInv'
  BY DEF IInv, vars, openVars, loopVars, DiskOK, CallOK, SeekOK, CopyOK, At, Reached, Ch, ReadExact,
         WriteExact, Written

\* The invariant is inductive.
LEMMA NextIInv == IInv /\ [Next]_vars => IInv'
  <1> SUFFICES ASSUME IInv, [Next]_vars PROVE IInv'
    OBVIOUS
  <1>1. CASE \E p \in Paths : CallOpen(p)
    BY <1>1, OpenStep
  <1>2. CASE Opened /\ \E p \in Positions : setPosition(p)
    BY <1>2, SetPositionStep
  <1>3. CASE Opened /\ \E o \in {"read", "write"} : \E n \in Lengths(o) :
               position + n <= Room /\ CallTransfer(o, n)
    BY <1>3, CallTransferStep
  <1>4. CASE Step
    BY <1>4, OpenStep, SeekStartStep, SeekEndStep, SeekWriteStep, NextClusterStep, LastReadStep,
       LastWriteStep DEF Step
  <1>5. CASE UNCHANGED vars
    BY <1>5, StutterStep
  <1> QED
    BY <1>1, <1>2, <1>3, <1>4, <1>5 DEF Next

\* It holds always.
LEMMA SpecIInv == Spec => []IInv
  BY InitIInv, NextIInv, PTL DEF Spec


-----------------------------------------------------------------------------
(* Names.                                                                  *)

\* What names are made of, and what may follow one.
Characters == STRING \cup {Dot, Space, "junk"}

\* What the assumptions say of the names in a path.
LEMMA NamesTyped ==
  ASSUME NEW p \in Paths, NEW n \in 1..Len(p)
  PROVE  /\ p[n] \in Seq(Characters) /\ Len(p[n]) \in Nat \ {0} /\ Fits(p[n])
         /\ IsShort(p[n]) /\ p[n][1] # Nul
  <1>1. p[n] \in Seq(Characters)
    <2>1. p[n] \in Seq(STRING)
      BY PathAssumption, ElementOfSeq
    <2>2. STRING \subseteq Characters
      BY DEF Characters
    <2>3. p[n] \in [1..Len(p[n]) -> Characters] /\ Len(p[n]) \in Nat
      BY <2>1, <2>2, ElementOfSeq, LenProperties
    <2> QED
      BY <2>3
  <1>2. Len(p[n]) \in 1..(BaseLen + ExtLen)
    BY PathAssumption
  <1>3. Len(p[n]) \in Nat \ {0}
    BY <1>2, NameAssumption
  <1> QED
    BY <1>1, <1>3, DirectoryAssumption

\* Where the base of a name ends.
BaseEnd(name) == IF DotsIn(name) = {} THEN Len(name) ELSE (CHOOSE d \in DotsIn(name) : TRUE) - 1

\* Where the base of a short name ends.
LEMMA BaseEndIs ==
  ASSUME NEW name \in Seq(Characters), IsShort(name)
  PROVE  /\ BaseEnd(name) \in 1..BaseLen /\ BaseEnd(name) <= Len(name)
         /\ \A k \in 1..BaseEnd(name) : name[k] # Dot
         /\ BaseEnd(name) < Len(name) => name[BaseEnd(name) + 1] = Dot
  <1>1. CASE DotsIn(name) = {}
    <2>1. BaseEnd(name) = Len(name) /\ Len(name) \in 1..BaseLen
      BY <1>1 DEF BaseEnd, IsShort
    <2>2. Len(name) \in Nat /\ \A k \in 1..Len(name) : name[k] # Dot
      BY <1>1 DEF DotsIn
    <2> QED
      BY <2>1, <2>2
  <1>2. CASE DotsIn(name) # {}
    <2>1. PICK d \in 2..(BaseLen + 1) : DotsIn(name) = {d} /\ Len(name) - d \in 1..ExtLen
      BY <1>2 DEF IsShort
    <2>2. BaseEnd(name) = d - 1
      BY <2>1 DEF BaseEnd
    <2>3. Len(name) \in Nat /\ d \in Nat /\ d < Len(name) /\ d - 1 \in 1..BaseLen /\ d - 1 + 1 = d
      BY <2>1, NameAssumption
    <2>4. name[d] = Dot /\ \A k \in 1..Len(name) : k # d => name[k] # Dot
      BY <2>1 DEF DotsIn
    <2>5. \A k \in 1..(d - 1) : k \in 1..Len(name) /\ k # d
      BY <2>3
    <2> QED
      BY <2>2, <2>3, <2>4, <2>5
  <1> QED
    BY <1>1, <1>2

\* What the loop of filenameToFAT needs of a name, and what may follow it.
Based(name) ==
  /\ BaseEnd(name) \in 1..BaseLen /\ BaseEnd(name) <= Len(name)
  /\ \A k \in 1..BaseEnd(name) : name[k] # Dot
  /\ BaseEnd(name) < Len(name) => name[BaseEnd(name) + 1] = Dot

\* What the loop of filenameToFAT has made of a name after i rounds.
AfterRounds(name, i) ==
  LET n == IF i <= BaseEnd(name) THEN i ELSE BaseEnd(name) IN
  [j |-> n, base |-> [k \in 1..BaseLen |-> IF k <= n THEN name[k] ELSE Space]]

Round(name, i, s) ==
  IF s.j < Len(name) /\ name[s.j + 1] # Dot
  THEN [j |-> s.j + 1, base |-> [s.base EXCEPT ![i] = name[s.j + 1]]]
  ELSE s

\* One round of the loop takes one character until the base ends.
LEMMA RoundIs ==
  ASSUME NEW name \in Seq(Characters), Based(name), NEW i \in 1..BaseLen
  PROVE  Round(name, i, AfterRounds(name, i - 1)) = AfterRounds(name, i)
  <1>1. PICK n \in 1..BaseLen : n = BaseEnd(name)
    BY DEF Based
  <1>2. /\ n <= Len(name) /\ Len(name) \in Nat
        /\ \A k \in 1..n : name[k] # Dot
        /\ n < Len(name) => name[n + 1] = Dot
    BY <1>1 DEF Based
  <1>3. BaseLen \in Nat /\ i \in Nat /\ i - 1 \in Nat /\ i - 1 + 1 = i
    BY NameAssumption
  <1>4. CASE i <= n
    <2> DEFINE b == [k \in 1..BaseLen |-> IF k <= i - 1 THEN name[k] ELSE Space]
    <2>1. AfterRounds(name, i - 1) = [j |-> i - 1, base |-> b]
      BY <1>1, <1>3, <1>4 DEF AfterRounds
    <2>2. i - 1 < Len(name) /\ name[i - 1 + 1] # Dot
      BY <1>2, <1>3, <1>4
    <2>3. Round(name, i, AfterRounds(name, i - 1)) = [j |-> i, base |-> [b EXCEPT ![i] = name[i]]]
      <3> HIDE DEF b
      <3>1. PICK r \in Nat : r = i - 1 /\ r + 1 = i
        BY <1>3
      <3>2. r < Len(name) /\ name[r + 1] # Dot
        BY <2>2, <3>1
      <3>3. Round(name, i, [j |-> r, base |-> b]) = [j |-> r + 1, base |-> [b EXCEPT ![i] = name[r + 1]]]
        BY <3>2 DEF Round
      <3> QED
        BY <2>1, <3>1, <3>3
    <2>4. [b EXCEPT ![i] = name[i]] = [k \in 1..BaseLen |-> IF k <= i THEN name[k] ELSE Space]
      <3>1. \A k \in 1..BaseLen : [b EXCEPT ![i] = name[i]][k] = IF k <= i THEN name[k] ELSE Space
        BY <1>3
      <3> QED
        BY <3>1
    <2>5. AfterRounds(name, i) = [j |-> i, base |-> [k \in 1..BaseLen |-> IF k <= i THEN name[k] ELSE Space]]
      BY <1>1, <1>4 DEF AfterRounds
    <2> QED
      BY <2>3, <2>4, <2>5
  <1>5. CASE i > n
    <2> DEFINE b == [k \in 1..BaseLen |-> IF k <= n THEN name[k] ELSE Space]
    <2>1. AfterRounds(name, i - 1) = [j |-> n, base |-> b]
      <3>1. CASE i - 1 <= n
        <4>1. i - 1 = n
          BY <1>3, <1>5, <3>1
        <4> QED
          BY <1>1, <4>1 DEF AfterRounds
      <3>2. CASE ~(i - 1 <= n)
        BY <1>1, <3>2 DEF AfterRounds
      <3> QED
        BY <3>1, <3>2
    <2>2. AfterRounds(name, i) = [j |-> n, base |-> b]
      BY <1>1, <1>3, <1>5 DEF AfterRounds
    <2>3. ~(n < Len(name) /\ name[n + 1] # Dot)
      BY <1>2
    <2> QED
      BY <2>1, <2>2, <2>3 DEF Round
  <1> QED
    BY <1>3, <1>4, <1>5

\* The recursive function in BaseLoop has these values.
LEMMA BaseLoopIs ==
  ASSUME NEW name \in Seq(Characters), Based(name)
  PROVE  BaseLoop(name) = AfterRounds(name, BaseLen)
  <1> DEFINE Rec(f) == f = [i \in 0..BaseLen |->
                              IF i = 0 THEN [j |-> 0, base |-> Spaces(BaseLen)]
                              ELSE LET s == f[i - 1] IN
                                   IF s.j < Len(name) /\ name[s.j + 1] # Dot
                                   THEN [j |-> s.j + 1, base |-> [s.base EXCEPT ![i] = name[s.j + 1]]]
                                   ELSE s]
             step == CHOOSE f : Rec(f)
             Made(f) == f = [i \in 0..BaseLen |->
                               IF i = 0 THEN AfterRounds(name, 0) ELSE Round(name, i, f[i - 1])]
             after == [i \in 0..BaseLen |-> AfterRounds(name, i)]
  <1>1. BaseLoop(name) = step[BaseLen]
    BY DEF BaseLoop
  <1>2. BaseLen \in Nat /\ \A i \in 0..BaseLen : i # 0 => i \in 1..BaseLen /\ i - 1 \in 0..BaseLen
    BY NameAssumption
  <1>3. AfterRounds(name, 0) = [j |-> 0, base |-> Spaces(BaseLen)]
    <2>1. 0 <= BaseEnd(name) /\ \A k \in 1..BaseLen : ~(k <= 0)
      BY <1>2 DEF Based
    <2> QED
      BY <2>1 DEF AfterRounds, Spaces
  <1>4. \A f : Rec(f) <=> Made(f)
    BY <1>3 DEF Round
  <1>5. Made(after)
    <2>1. \A i \in 0..BaseLen : after[i] = IF i = 0 THEN AfterRounds(name, 0)
                                           ELSE Round(name, i, after[i - 1])
      BY <1>2, RoundIs
    <2> QED
      BY <2>1
  <1>6. Made(step)
    <2> HIDE DEF Rec, Made, after
    <2>1. Rec(step)
      BY <1>4, <1>5
    <2> QED
      BY <1>4, <2>1
  <1> HIDE DEF step
  <1>7. step[0] = AfterRounds(name, 0) /\ \A i \in 0..BaseLen : i # 0 => step[i] = Round(name, i, step[i - 1])
    BY <1>2, <1>6
  <1> DEFINE T == {i \in 0..BaseLen : step[i] = AfterRounds(name, i)}
  <1>8. 0 \in T
    BY <1>2, <1>7
  <1>9. ASSUME NEW i \in T, i < BaseLen PROVE i + 1 \in T
    <2>1. i + 1 \in 0..BaseLen /\ i + 1 # 0 /\ i + 1 - 1 = i /\ i + 1 \in 1..BaseLen
      BY <1>2, <1>9
    <2>2. PICK m \in 1..BaseLen : m = i + 1 /\ m - 1 = i
      BY <2>1
    <2>3. step[m] = Round(name, m, AfterRounds(name, m - 1))
      BY <1>7, <2>1, <2>2
    <2>4. step[m] = AfterRounds(name, m)
      BY <2>3, RoundIs
    <2> QED
      BY <2>1, <2>2, <2>4
  <1>10. BaseLen \in T
    <2> HIDE DEF T
    <2>1. T \subseteq 0..BaseLen
      BY DEF T
    <2>2. T = 0..BaseLen
      BY <1>2, <1>8, <1>9, <2>1, Counting
    <2> QED
      BY <1>2, <2>2
  <1> QED
    BY <1>1, <1>10

\* filenameToFAT makes of a short name what an entry holds.
THEOREM NameRight ==
  ASSUME NEW name \in Seq(Characters), IsShort(name)
  PROVE  filenameToFAT(name) = EntryName(name)
  <1>1. PICK n \in 1..BaseLen : n = BaseEnd(name)
    BY BaseEndIs
  <1>2. BaseLen \in Nat /\ ExtLen \in Nat /\ Len(name) \in Nat /\ n <= BaseLen /\ n \in Nat
    BY <1>1, NameAssumption
  <1> DEFINE base == [k \in 1..BaseLen |-> IF k <= n THEN name[k] ELSE Space]
             ext == [i \in 1..ExtLen |-> IF n + 1 + i <= Len(name) THEN name[n + 1 + i] ELSE Space]
  <1>3. BaseLoop(name) = [j |-> n, base |-> base]
    <2>1. Based(name)
      BY BaseEndIs DEF Based
    <2> QED
      BY <1>1, <1>2, <2>1, BaseLoopIs DEF AfterRounds
  <1>4. filenameToFAT(name) = base \o ext
    <2>1. BaseLoop(name).j = n /\ BaseLoop(name).base = base
      BY <1>3
    <2> HIDE DEF base
    <2> QED
      BY <2>1 DEF filenameToFAT
  <1>5. EntryName(name) = [i \in 1..(BaseLen + ExtLen) |->
                             IF i <= BaseLen THEN IF i <= n THEN name[i] ELSE Space
                             ELSE IF n + 1 + i - BaseLen <= Len(name) THEN name[n + 1 + i - BaseLen]
                             ELSE Space]
    BY <1>1 DEF EntryName, BaseEnd
  <1> DEFINE Chars == {name[k] : k \in 1..Len(name)} \cup {Space}
  <1>6. base \in Seq(Chars) /\ Len(base) = BaseLen
    <2>1. \A k \in 1..BaseLen : k <= n => k \in 1..Len(name)
      BY <1>1, <1>2, BaseEndIs
    <2>2. base \in [1..BaseLen -> Chars]
      BY <2>1
    <2> HIDE DEF base, Chars
    <2> QED
      BY <1>2, <2>2
  <1>7. ext \in Seq(Chars) /\ Len(ext) = ExtLen
    <2>1. \A i \in 1..ExtLen : n + 1 + i <= Len(name) => n + 1 + i \in 1..Len(name)
      BY <1>2
    <2>2. ext \in [1..ExtLen -> Chars]
      BY <2>1
    <2> HIDE DEF ext, Chars
    <2> QED
      BY <1>2, <2>2
  <1>8. \A i \in 1..BaseLen : base[i] = IF i <= n THEN name[i] ELSE Space
    OBVIOUS
  <1>9. \A i \in 1..ExtLen : ext[i] = IF n + 1 + i <= Len(name) THEN name[n + 1 + i] ELSE Space
    OBVIOUS
  <1> HIDE DEF base, ext, Chars
  <1>10. /\ base \o ext \in Seq(Chars) /\ Len(base \o ext) = BaseLen + ExtLen
         /\ \A i \in 1..(BaseLen + ExtLen) :
              (base \o ext)[i] = IF i <= BaseLen THEN base[i] ELSE ext[i - BaseLen]
    BY <1>6, <1>7, ConcatProperties
  <1>11. ASSUME NEW i \in 1..(BaseLen + ExtLen) PROVE (base \o ext)[i] = EntryName(name)[i]
    <2>1. CASE i <= BaseLen
      <3>1. i \in 1..BaseLen
        BY <1>2, <2>1
      <3> QED
        BY <1>5, <1>8, <1>10, <2>1, <3>1
    <2>2. CASE ~(i <= BaseLen)
      <3>1. PICK x \in 1..ExtLen : x = i - BaseLen
        BY <1>2, <2>2
      <3>2. n + 1 + x = n + 1 + i - BaseLen
        BY <1>2, <3>1
      <3> QED
        BY <1>5, <1>9, <1>10, <2>2, <3>1, <3>2
    <2> QED
      BY <2>1, <2>2
  <1>12. base \o ext = [i \in 1..(BaseLen + ExtLen) |-> (base \o ext)[i]]
    BY <1>10, LenProperties
  <1>13. EntryName(name) = [i \in 1..(BaseLen + ExtLen) |-> EntryName(name)[i]]
    BY <1>5
  <1> QED
    BY <1>4, <1>11, <1>12, <1>13

\* A name that fills the buffer is taken without what follows it.
LEMMA FullName ==
  ASSUME NEW name \in Seq(Characters), IsShort(name), DotsIn(name) = {BaseLen},
         Len(name) = BaseLen + ExtLen, NEW x \in Characters, x # Dot
  PROVE  filenameToFAT(Append(name, x)) = filenameToFAT(name)
  <1> DEFINE f == Append(name, x)
  <1>1. BaseLen \in Nat /\ ExtLen \in Nat \ {0} /\ Len(name) \in Nat
    BY NameAssumption
  <1>2. /\ f \in Seq(Characters) /\ Len(f) = Len(name) + 1
        /\ \A k \in 1..Len(name) : f[k] = name[k]
        /\ f[Len(name) + 1] = x
    BY AppendProperties
  <1>3. BaseEnd(name) = BaseLen - 1 /\ Based(name)
    BY BaseEndIs DEF Based, BaseEnd
  <1>4. DotsIn(f) = {BaseLen}
    <2>1. \A i \in 1..Len(f) : i \in 1..Len(name) \/ i = Len(name) + 1
      BY <1>1, <1>2
    <2>2. \A i : i \in DotsIn(f) <=> i \in 1..Len(f) /\ f[i] = Dot
      BY DEF DotsIn
    <2>3. \A i : i \in DotsIn(name) <=> i \in 1..Len(name) /\ name[i] = Dot
      BY DEF DotsIn
    <2>4. \A i \in 1..Len(name) : i \in 1..Len(f)
      BY <1>1, <1>2
    <2> HIDE DEF f
    <2>5. \A i : i \in DotsIn(f) <=> i \in DotsIn(name)
      BY <1>2, <2>1, <2>2, <2>3, <2>4
    <2> QED
      BY <2>5
  <1> HIDE DEF f
  <1>5. BaseEnd(f) = BaseLen - 1
    BY <1>4 DEF BaseEnd
  <1>6. PICK n \in 1..BaseLen : n = BaseLen - 1 /\ n + 1 = BaseLen /\ n + 1 \in 1..Len(name)
    BY <1>1, <1>3 DEF Based
  <1>7. \A k \in 1..n : k \in 1..Len(name)
    BY <1>1, <1>6
  <1>8. Based(f)
    <2>1. \A k \in 1..n : name[k] # Dot
      BY <1>3, <1>6 DEF Based
    <2>2. name[n + 1] = Dot
      BY <1>6 DEF DotsIn
    <2>3. n <= Len(f)
      BY <1>1, <1>2, <1>6
    <2> QED
      BY <1>2, <1>5, <1>6, <1>7, <2>1, <2>2, <2>3 DEF Based
  <1>9. BaseLoop(f) = BaseLoop(name) /\ BaseLoop(f).j = n
    <2>1. AfterRounds(f, BaseLen) = AfterRounds(name, BaseLen) /\ AfterRounds(f, BaseLen).j = n
      BY <1>1, <1>2, <1>3, <1>5, <1>6, <1>7 DEF AfterRounds
    <2> QED
      BY <1>2, <1>3, <1>8, <2>1, BaseLoopIs
  <1>10. \A i \in 1..ExtLen : n + 1 + i \in 1..Len(name) /\ n + 1 + i <= Len(name) /\ n + 1 + i <= Len(f)
    BY <1>1, <1>2, <1>6
  <1>11. PICK b : b = BaseLoop(name)
    OBVIOUS
  <1>12. [i \in 1..ExtLen |-> IF b.j + 1 + i <= Len(f) THEN f[b.j + 1 + i] ELSE Space]
           = [i \in 1..ExtLen |-> IF b.j + 1 + i <= Len(name) THEN name[b.j + 1 + i] ELSE Space]
    <2>1. b.j = n
      BY <1>9, <1>11
    <2> QED
      BY <1>2, <1>10, <2>1
  <1>13. filenameToFAT(f) = filenameToFAT(name)
    BY <1>9, <1>11, <1>12 DEF filenameToFAT
  <1> QED
    BY <1>13 DEF f

\* What open looks for, and it is no end mark.
LEMMA FatnameIs ==
  ASSUME NEW p \in Paths, NEW n \in 1..Len(p)
  PROVE  /\ {filenameToFAT(f) : f \in FilenameBuffers(p[n])} = {EntryName(p[n])}
         /\ EntryName(p[n])[1] # Nul
  <1>1. {filenameToFAT(f) : f \in FilenameBuffers(p[n])} = {filenameToFAT(p[n])}
    <2>1. CASE Len(p[n]) < BaseLen + ExtLen
      BY <2>1 DEF FilenameBuffers
    <2>2. CASE ~(Len(p[n]) < BaseLen + ExtLen)
      <3>1. FilenameBuffers(p[n]) = {p[n], Append(p[n], "junk")}
        BY <2>2 DEF FilenameBuffers
      <3>2. filenameToFAT(Append(p[n], "junk")) = filenameToFAT(p[n])
        <4>1. DotsIn(p[n]) = {BaseLen} /\ Len(p[n]) = BaseLen + ExtLen
          BY <2>2, NamesTyped DEF Fits
        <4>2. "junk" # Dot
          BY Zenon DEF Dot
        <4>3. "junk" \in Characters
          BY DEF Characters
        <4> QED
          BY <4>1, <4>2, <4>3, NamesTyped, FullName
      <3> QED
        BY <3>1, <3>2
    <2> QED
      BY <2>1, <2>2
  <1>2. filenameToFAT(p[n]) = EntryName(p[n])
    BY NamesTyped, NameRight
  <1>3. EntryName(p[n])[1] # Nul
    <2>1. BaseEnd(p[n]) \in 1..BaseLen /\ p[n][1] # Nul
      BY NamesTyped, BaseEndIs
    <2>2. 1 \in 1..(BaseLen + ExtLen) /\ 1 <= BaseLen /\ 1 <= BaseEnd(p[n])
      BY <2>1, NameAssumption
    <2>3. EntryName(p[n])[1] = p[n][1]
      BY <2>2 DEF EntryName, BaseEnd
    <2> QED
      BY <2>1, <2>3
  <1> QED
    BY <1>1, <1>2, <1>3

\* The first m characters of s.
Upto(s, m) == [k \in 1..m |-> s[k]]

\* Of a part that is padded with spaces, what is before them is left.
LEMMA PackedPadded ==
  ASSUME NEW u, NEW s \in Seq(Characters), NEW before \in Nat, NEW to \in Nat, before + Len(s) <= to,
         \A k \in 1..Len(s) : u[before + k] = s[k] /\ s[k] # Space,
         \A i \in (before + 1)..to : i > before + Len(s) => u[i] = Space
  PROVE  Packed(u, before + 1, to) = s
  <1> DEFINE Rec(f) == f = [i \in (before + 1 - 1)..to |->
                              IF i = before + 1 - 1 THEN <<>>
                              ELSE IF u[i] # Space THEN Append(f[i - 1], u[i]) ELSE f[i - 1]]
             copy == CHOOSE f : Rec(f)
             Value(i) == IF i <= before + Len(s) THEN Upto(s, i - before) ELSE s
             made == [i \in before..to |-> Value(i)]
  <1>1. Packed(u, before + 1, to) = copy[to]
    BY DEF Packed
  <1>2. Len(s) \in Nat /\ before + 1 - 1 = before /\ before \in before..to /\ to \in before..to
    OBVIOUS
  <1>3. Upto(s, 0) = <<>> /\ Upto(s, Len(s)) = s
    <2>1. s = [k \in 1..Len(s) |-> s[k]]
      BY LenProperties
    <2> QED
      BY <2>1 DEF Upto
  <1>4. ASSUME NEW m \in 1..Len(s) PROVE Append(Upto(s, m - 1), s[m]) = Upto(s, m)
    <2>1. m - 1 \in Nat /\ \A k \in 1..(m - 1) : k \in 1..Len(s)
      OBVIOUS
    <2>2. Upto(s, m - 1) \in Seq(Characters) /\ Len(Upto(s, m - 1)) = m - 1 /\ s[m] \in Characters
      <3>1. \A k \in 1..Len(s) : s[k] \in Characters
        BY ElementOfSeq
      <3>2. Upto(s, m - 1) \in [1..(m - 1) -> Characters]
        BY <2>1, <3>1 DEF Upto
      <3> QED
        BY <2>1, <3>1, <3>2
    <2>3. /\ Append(Upto(s, m - 1), s[m]) \in Seq(Characters)
          /\ Len(Append(Upto(s, m - 1), s[m])) = m
          /\ \A k \in 1..(m - 1) : Append(Upto(s, m - 1), s[m])[k] = Upto(s, m - 1)[k]
          /\ Append(Upto(s, m - 1), s[m])[m] = s[m]
      BY <2>1, <2>2, AppendProperties
    <2>4. ASSUME NEW k \in 1..m PROVE Append(Upto(s, m - 1), s[m])[k] = s[k]
      <3>1. CASE k = m
        BY <2>3, <3>1
      <3>2. CASE k # m
        <4>1. k \in 1..(m - 1)
          BY <3>2
        <4>2. Upto(s, m - 1)[k] = s[k]
          BY <4>1 DEF Upto
        <4> QED
          BY <2>3, <4>1, <4>2
      <3> QED
        BY <3>1, <3>2
    <2>5. Append(Upto(s, m - 1), s[m]) = [k \in 1..m |-> Append(Upto(s, m - 1), s[m])[k]]
      BY <2>3, LenProperties
    <2> QED
      BY <2>4, <2>5 DEF Upto
  <1>5. Value(before) = <<>> /\ Value(to) = s
    <2>1. before <= before + Len(s) /\ before - before = 0
      BY <1>2
    <2>2. to <= before + Len(s) => to - before = Len(s)
      <3>1. PICK n \in Nat : n = Len(s) /\ before + n <= to
        BY <1>2
      <3>2. to <= before + n => to - before = n
        BY <3>1
      <3> QED
        BY <3>1, <3>2
    <2>3. Value(before) = <<>>
      BY <1>3, <2>1
    <2>4. CASE to <= before + Len(s)
      <3>1. Value(to) = Upto(s, Len(s))
        BY <2>2, <2>4
      <3> QED
        BY <1>3, <2>3, <3>1
    <2>5. CASE ~(to <= before + Len(s))
      BY <2>3, <2>5
    <2> QED
      BY <2>4, <2>5
  <1>6. ASSUME NEW i \in before..to, i # before
        PROVE  Value(i) = IF u[i] # Space THEN Append(Value(i - 1), u[i]) ELSE Value(i - 1)
    <2>1. CASE i <= before + Len(s)
      <3>1. PICK m \in 1..Len(s) : m = i - before /\ m - 1 = i - 1 - before /\ i = before + m
        BY <1>2, <1>6, <2>1
      <3>2. u[i] = s[m] /\ s[m] # Space
        BY <3>1
      <3>3. Value(i) = Upto(s, m) /\ Value(i - 1) = Upto(s, m - 1)
        BY <1>2, <2>1, <3>1
      <3> QED
        BY <1>4, <3>2, <3>3
    <2>2. CASE i > before + Len(s)
      <3>1. u[i] = Space
        BY <1>2, <2>2
      <3>2. Value(i) = s
        BY <1>2, <2>2
      <3>3. Value(i - 1) = s
        <4>1. i - 1 <= before + Len(s) => i - 1 - before = Len(s)
          BY <1>2, <2>2
        <4> QED
          BY <1>3, <4>1
      <3> QED
        BY <3>1, <3>2, <3>3
    <2> QED
      BY <1>2, <2>1, <2>2
  <1> DEFINE Made(f) == f = [i \in before..to |->
                               IF i = before THEN <<>>
                               ELSE IF u[i] # Space THEN Append(f[i - 1], u[i]) ELSE f[i - 1]]
  <1>7. \A f : Rec(f) <=> Made(f)
    BY <1>2
  <1> HIDE DEF Value
  <1>8. Made(made)
    <2>1. \A i \in before..to : i # before => i - 1 \in before..to
      OBVIOUS
    <2>2. \A i \in before..to : made[i] = IF i = before THEN <<>>
                                ELSE IF u[i] # Space THEN Append(made[i - 1], u[i]) ELSE made[i - 1]
      BY <1>5, <1>6, <2>1
    <2> QED
      BY <2>2
  <1> HIDE DEF Rec, copy
  <1>9. Made(copy)
    <2> HIDE DEF Made, made
    <2>1. Rec(copy)
      BY <1>7, <1>8 DEF copy
    <2> QED
      BY <1>7, <2>1
  <1>10. /\ copy[before] = <<>>
         /\ \A i \in before..to : i # before =>
              copy[i] = IF u[i] # Space THEN Append(copy[i - 1], u[i]) ELSE copy[i - 1]
    BY <1>2, <1>9
  <1> DEFINE T == {k \in 0..(to - before) : copy[before + k] = Value(before + k)}
  <1>11. 0 \in T
    <2>1. before + 0 = before /\ 0 \in 0..(to - before)
      BY <1>2
    <2> QED
      BY <1>5, <1>10, <2>1
  <1>12. ASSUME NEW k \in T, k < to - before PROVE k + 1 \in T
    <2>1. PICK i \in before..to : i = before + (k + 1) /\ i # before /\ i - 1 = before + k
      BY <1>2, <1>12
    <2>2. k + 1 \in 0..(to - before)
      BY <1>2, <1>12
    <2>3. copy[i - 1] = Value(i - 1)
      BY <2>1
    <2> QED
      BY <1>6, <1>10, <2>1, <2>2, <2>3
  <1>13. copy[to] = Value(to)
    <2>1. T \subseteq 0..(to - before) /\ to - before \in Nat
      BY <1>2
    <2> HIDE DEF T
    <2>2. T = 0..(to - before)
      BY <1>11, <1>12, <2>1, Counting
    <2>3. to - before \in T /\ before + (to - before) = to
      BY <1>2, <2>1, <2>2
    <2> QED
      BY <2>3 DEF T
  <1> QED
    BY <1>1, <1>5, <1>13

\* What list shows for the entry of a short name is that name.
THEOREM GivenBack ==
  ASSUME NEW name \in Seq(Characters), IsShort(name), \A k \in 1..Len(name) : name[k] # Space
  PROVE  fatToFilename(filenameToFAT(name)) = name
  <1>1. PICK n \in 1..BaseLen : n = BaseEnd(name)
    BY BaseEndIs
  <1>2. BaseLen \in Nat \ {0} /\ ExtLen \in Nat \ {0} /\ Len(name) \in Nat /\ n <= Len(name)
    BY <1>1, NameAssumption, BaseEndIs
  <1>3. PICK u : u = EntryName(name)
    OBVIOUS
  <1>4. \A i \in 1..(BaseLen + ExtLen) :
          u[i] = IF i <= BaseLen THEN IF i <= n THEN name[i] ELSE Space
                 ELSE IF n + 1 + i - BaseLen <= Len(name) THEN name[n + 1 + i - BaseLen] ELSE Space
    BY <1>1, <1>3 DEF EntryName, BaseEnd
  <1>5. \A k \in 1..n : k \in 1..Len(name)
    BY <1>2
  <1>6. Upto(name, n) \in Seq(Characters) /\ Len(Upto(name, n)) = n
    <2>1. \A k \in 1..n : name[k] \in Characters
      BY <1>5, ElementOfSeq
    <2>2. Upto(name, n) \in [1..n -> Characters]
      BY <2>1 DEF Upto
    <2> QED
      BY <2>2
  <1>7. Packed(u, 1, BaseLen) = Upto(name, n)
    <2>1. PICK s \in Seq(Characters) : s = Upto(name, n) /\ Len(s) = n
      BY <1>6
    <2>2. \A k \in 1..Len(s) : u[0 + k] = s[k] /\ s[k] # Space
      <3>1. ASSUME NEW k \in 1..n PROVE u[k] = name[k] /\ 0 + k = k
        <4>1. k \in 1..(BaseLen + ExtLen) /\ k <= BaseLen /\ k <= n /\ 0 + k = k
          BY <1>2
        <4> QED
          BY <1>4, <4>1
      <3> QED
        BY <1>5, <2>1, <3>1 DEF Upto
    <2>3. \A i \in (0 + 1)..BaseLen : i > 0 + Len(s) => u[i] = Space
      <3>1. ASSUME NEW i \in 1..BaseLen, i > n PROVE u[i] = Space
        <4>1. i \in 1..(BaseLen + ExtLen) /\ i <= BaseLen /\ ~(i <= n)
          BY <1>2, <3>1
        <4> QED
          BY <1>4, <4>1
      <3> QED
        BY <2>1, <3>1
    <2>4. 0 \in Nat /\ BaseLen \in Nat /\ 0 + Len(s) <= BaseLen /\ 0 + 1 = 1
      BY <1>2, <2>1
    <2>5. Packed(u, 0 + 1, BaseLen) = s
      BY <2>2, <2>3, <2>4, PackedPadded
    <2> QED
      BY <2>1, <2>4, <2>5
  <1>8. BaseLen + 1 \in 1..(BaseLen + ExtLen) /\ ~(BaseLen + 1 <= BaseLen) /\ n + 1 + (BaseLen + 1) - BaseLen = n + 2
    BY <1>2
  <1>9. u[BaseLen + 1] = IF n + 2 <= Len(name) THEN name[n + 2] ELSE Space
    BY <1>4, <1>8
  <1>10. CASE n = Len(name)
    <2>1. u[BaseLen + 1] = Space
      BY <1>2, <1>9, <1>10
    <2>2. Upto(name, n) = name
      BY <1>10, LenProperties DEF Upto
    <2>3. fatToFilename(u) = Upto(name, n) \o <<>>
      BY <1>7, <2>1 DEF fatToFilename
    <2> QED
      BY <1>3, <2>2, <2>3, ConcatEmptySeq, NameRight
  <1>11. CASE n # Len(name)
    <2>1. n + 1 \in 1..Len(name) /\ name[n + 1] = Dot /\ n + 2 <= Len(name) /\ Len(name) - (n + 1) \in 1..ExtLen
      <3>1. n < Len(name) /\ name[n + 1] = Dot /\ n + 1 \in 1..Len(name)
        BY <1>1, <1>2, <1>11, BaseEndIs
      <3>2. n + 1 \in DotsIn(name)
        BY <3>1 DEF DotsIn
      <3>3. PICK d \in 2..(BaseLen + 1) : DotsIn(name) = {d} /\ Len(name) - d \in 1..ExtLen
        BY <3>2 DEF IsShort
      <3>4. d = n + 1
        BY <3>2, <3>3
      <3> QED
        BY <1>2, <3>1, <3>3, <3>4
    <2>2. PICK x \in 1..ExtLen : x = Len(name) - (n + 1) /\ Len(name) = n + 1 + x
      <3>1. PICK l \in Nat, x \in 1..ExtLen : l = Len(name) /\ x = l - (n + 1)
        BY <1>2, <2>1
      <3>2. x = Len(name) - (n + 1) /\ l = n + 1 + x
        BY <1>2, <3>1
      <3> QED
        BY <3>1, <3>2
    <2> DEFINE ext == [k \in 1..x |-> name[n + 1 + k]]
    <2>3. \A k \in 1..x : n + 1 + k \in 1..Len(name)
      BY <1>2, <2>2
    <2>4. ext \in Seq(Characters) /\ Len(ext) = x /\ \A k \in 1..x : ext[k] = name[n + 1 + k]
      <3>1. \A k \in 1..x : name[n + 1 + k] \in Characters
        BY <2>3, ElementOfSeq
      <3>2. ext \in [1..x -> Characters] /\ \A k \in 1..x : ext[k] = name[n + 1 + k]
        BY <3>1
      <3> HIDE DEF ext
      <3> QED
        BY <3>2
    <2> HIDE DEF ext
    <2>5. \A k \in 1..x : u[BaseLen + k] = ext[k] /\ ext[k] # Space
      <3>1. ASSUME NEW k \in 1..x PROVE u[BaseLen + k] = name[n + 1 + k]
        <4>1. PICK i \in 1..(BaseLen + ExtLen) : i = BaseLen + k /\ ~(i <= BaseLen) /\ n + 1 + i - BaseLen = n + 1 + k
          BY <1>2
        <4> QED
          BY <1>2, <1>4, <2>2, <2>3, <4>1
      <3> QED
        BY <2>3, <2>4, <3>1
    <2>6. \A i \in (BaseLen + 1)..(BaseLen + ExtLen) : i > BaseLen + x => u[i] = Space
      <3>1. ASSUME NEW i \in (BaseLen + 1)..(BaseLen + ExtLen), i > BaseLen + x PROVE u[i] = Space
        <4>1. i \in 1..(BaseLen + ExtLen) /\ ~(i <= BaseLen) /\ ~(n + 1 + i - BaseLen <= Len(name))
          BY <1>2, <2>2, <3>1
        <4> QED
          BY <1>4, <4>1
      <3> QED
        BY <3>1
    <2>7. Packed(u, BaseLen + 1, BaseLen + ExtLen) = ext
      <3>1. BaseLen \in Nat /\ BaseLen + ExtLen \in Nat /\ BaseLen + x <= BaseLen + ExtLen
        BY <1>2
      <3> QED
        BY <2>4, <2>5, <2>6, <3>1, PackedPadded
    <2>8. fatToFilename(u) = Upto(name, n) \o (<<Dot>> \o ext)
      <3>1. u[BaseLen + 1] # Space
        BY <1>9, <2>1, <2>3, <1>2
      <3> QED
        BY <1>7, <2>7, <3>1 DEF fatToFilename
    <2>9. <<Dot>> \in Seq(Characters) /\ Len(<<Dot>>) = 1 /\ <<Dot>>[1] = Dot
      BY DEF Characters
    <2>10. PICK w \in Seq(Characters) : w = <<Dot>> \o ext
      BY <2>4, <2>9, ConcatProperties
    <2>11. /\ Len(w) = 1 + x
           /\ \A k \in 1..(1 + x) : w[k] = IF k <= 1 THEN Dot ELSE ext[k - 1]
      BY <2>4, <2>9, <2>10, ConcatProperties
    <2>12. PICK v \in Seq(Characters) : v = Upto(name, n) \o w
      BY <1>6, ConcatProperties
    <2>13. /\ Len(v) = n + (1 + x)
           /\ \A k \in 1..(n + (1 + x)) : v[k] = IF k <= n THEN Upto(name, n)[k] ELSE w[k - n]
      <3>1. PICK t \in Seq(Characters) : t = Upto(name, n) /\ Len(t) = n
        BY <1>6
      <3>2. v = t \o w /\ n \in Nat /\ 1 + x \in Nat /\ Len(w) = 1 + x
        BY <1>2, <2>11, <2>12, <3>1
      <3>3. Len(t \o w) = Len(t) + Len(w)
        BY ConcatProperties
      <3>4. \A k \in 1..(Len(t) + Len(w)) : (t \o w)[k] = IF k <= Len(t) THEN t[k] ELSE w[k - Len(t)]
        BY ConcatProperties
      <3> QED
        BY <3>1, <3>2, <3>3, <3>4
    <2>14. Len(v) = Len(name)
      BY <1>2, <2>2, <2>13
    <2>15. ASSUME NEW k \in 1..Len(name) PROVE v[k] = name[k]
      <3>1. k \in 1..(n + (1 + x))
        BY <1>2, <2>2
      <3>2. CASE k <= n
        <4>1. k \in 1..n
          BY <3>2
        <4> QED
          BY <2>13, <3>1, <3>2, <4>1 DEF Upto
      <3>3. CASE k = n + 1
        <4>1. k - n = 1 /\ 1 \in 1..(1 + x) /\ ~(k <= n)
          BY <3>3
        <4> QED
          BY <2>1, <2>11, <2>13, <3>1, <3>3, <4>1
      <3>4. CASE k > n + 1
        <4>1. PICK y \in 1..x : y = k - n - 1 /\ n + 1 + y = k /\ k - n = y + 1 /\ y + 1 - 1 = y
          BY <1>2, <3>1, <3>4
        <4>2. w[y + 1] = ext[y]
          <5>1. y + 1 \in 1..(1 + x) /\ ~(y + 1 <= 1)
            BY <4>1
          <5> QED
            BY <2>11, <4>1, <5>1
        <4>3. v[k] = w[y + 1]
          BY <2>13, <3>1, <3>4, <4>1
        <4> QED
          BY <2>4, <4>1, <4>2, <4>3
      <3> QED
        BY <3>2, <3>3, <3>4
    <2>16. v = name
      BY <2>14, <2>15, SeqEqual
    <2> QED
      BY <1>3, <2>8, <2>10, <2>12, <2>16, NameRight
  <1> QED
    BY <1>10, <1>11

\* Every short name becomes what an entry for it holds and is given back, for
\* any alphabet, lengths of the parts and bound.
THEOREM NamesGivenBack == NameSpec => []NamesKept
  <1> DEFINE Typed == typedName \in Seq(Letters \cup {Dot})
  <1>1. NameInit => Typed
    BY DEF NameInit
  <1>2. Typed /\ [NameNext]_typedName => Typed'
    <2> SUFFICES ASSUME Typed, NameNext PROVE Typed'
      OBVIOUS
    <2>1. PICK c \in Letters \cup {Dot} : typedName' = Append(typedName, c)
      BY DEF NameNext, TypeName
    <2> QED
      BY <2>1, AppendProperties
  <1>3. Typed => NamesKept
    <2> SUFFICES ASSUME Typed PROVE NamesKept
      OBVIOUS
    <2>1. \A c \in Letters \cup {Dot} : c \in Characters /\ c # Space
      <3>1. Dot # Space
        BY Zenon DEF Dot, Space
      <3> QED
        BY <3>1, LetterAssumption DEF Characters
    <2>2. /\ typedName \in Seq(Characters)
          /\ \A k \in 1..Len(typedName) : typedName[k] # Space
      <3>1. \A k \in 1..Len(typedName) : typedName[k] \in Letters \cup {Dot}
        BY ElementOfSeq
      <3>2. typedName \in [1..Len(typedName) -> Characters] /\ Len(typedName) \in Nat
        BY <2>1, <3>1, LenProperties
      <3> QED
        BY <2>1, <3>1, <3>2
    <2> QED
      BY <2>2, NameRight, GivenBack DEF NamesKept
  <1> QED
    BY <1>1, <1>2, <1>3, PTL DEF NameSpec

-----------------------------------------------------------------------------
(* Paths.                                                                  *)

\* The directories are as they were formatted: write changes files only.
DirKept(d) ==
  \A c \in Directories : \A k \in 1..Len(DirClusters(c)) :
    d[DirSectors(c)[k]] = Format[DirSectors(c)[k]]

\* What open has found for the first n names of a path: what is there, or
\* nothing, which in roomy directories is what is there.
ResultOK(p, n, c, s) ==
  LET found == Lookups(p)[n] IN
  \/ c = found.cluster /\ s = found.size
  \/ c = NotFound /\ (found.roomy => found.cluster = NotFound)

\* The first k - 1 sectors of a directory have neither the name nor an end mark.
Passed(c, k, name) ==
  \A i \in 1..(k - 1), x \in 0..(SectorSize - 1) :
    LET e == Format[DirSectors(c)[i]][x] IN e.name # EntryName(name) /\ e.name[1] # Nul

\* open looks for name n + 1 in the directory that the first n lead to, or has
\* come to no directory or to the end of one that is not roomy.
Searching(p, n) ==
  LET from == Lookups(p)[n] IN
  \/ /\ from.cluster \in Directories
     /\ \E k \in 1..Len(DirClusters(from.cluster)) :
          cluster = DirClusters(from.cluster)[k] /\ Passed(from.cluster, k, p[n + 1])
  \/ /\ cluster \in Nat /\ cluster >= BadCluster
     /\ \/ from.cluster = NotFound \/ ~from.roomy
        \/ from.cluster \in Directories /\ ~Roomy(from.cluster)

SearchOK ==
  pc = "search" =>
    /\ file.path \in Paths /\ file.cluster = NotFound
    /\ \E n \in 0..(Len(file.path) - 1) :
         /\ rest = [i \in 1..(Len(file.path) - n) |-> file.path[n + i]]
         /\ Searching(file.path, n)

\* A file that is open is one of those that a path leads to.
FileOK == file.cluster \in 2..LastCluster => \E p \in Paths : file.cluster = Lookup(p).cluster

OpenInv == IInv /\ DirKept(disk) /\ SearchOK /\ FileOK /\ OpenRight

\* One more name.
LookedUp(from, name) ==
  IF from.cluster \notin 1..LastCluster THEN from
  ELSE LET roomy == from.roomy /\ Roomy(from.cluster) IN
       IF Named(from.cluster, name) = {}
       THEN [cluster |-> NotFound, size |-> -1, roomy |-> roomy]
       ELSE LET e == CHOOSE e \in Named(from.cluster, name) : TRUE IN
            [cluster |-> e.cluster, size |-> e.size, roomy |-> roomy]

\* The recursive function in Lookups has values.
LEMMA LookupsAre ==
  ASSUME NEW p \in Paths
  PROVE  /\ Len(p) \in Nat \ {0}
         /\ Lookups(p)[0] = [cluster |-> 1, size |-> 0, roomy |-> TRUE]
         /\ \A n \in 1..Len(p) : Lookups(p)[n] = LookedUp(Lookups(p)[n - 1], p[n])
  <1> DEFINE Start == [cluster |-> 1, size |-> 0, roomy |-> TRUE]
             N == Len(p)
             Rec(f) == f = [n \in 0..N |->
                              IF n = 0 THEN [cluster |-> 1, size |-> 0, roomy |-> TRUE]
                              ELSE LET from == f[n - 1] IN
                                   IF from.cluster \notin 1..LastCluster THEN from
                                   ELSE LET roomy == from.roomy /\ Roomy(from.cluster) IN
                                        IF Named(from.cluster, p[n]) = {}
                                        THEN [cluster |-> NotFound, size |-> -1, roomy |-> roomy]
                                        ELSE LET e == CHOOSE e \in Named(from.cluster, p[n]) : TRUE IN
                                             [cluster |-> e.cluster, size |-> e.size, roomy |-> roomy]]
             at == CHOOSE f : Rec(f)
             Made(f) == f = [n \in 0..N |-> IF n = 0 THEN Start ELSE LookedUp(f[n - 1], p[n])]
  <1>1. Lookups(p) = at
    BY DEF Lookups
  <1>2. \A f : Rec(f) <=> Made(f)
    BY DEF LookedUp
  <1>3. N \in Nat \ {0}
    <2>1. p \in Seq(Seq(STRING)) /\ p # <<>>
      BY PathAssumption
    <2> QED
      BY <2>1, EmptySeq
  <1>4. \E f : Made(f)
    <2> DEFINE Entries == UNION {Named(c, p[n]) : c \in 1..LastCluster, n \in 1..N}
               Clusters == {1, NotFound} \cup {e.cluster : e \in Entries}
               FileSizes == {0, -1} \cup {e.size : e \in Entries}
               S == [cluster : Clusters, size : FileSizes, roomy : BOOLEAN]
               step == [x \in (1..N) \X S |-> LookedUp(x[2], p[x[1]])]
    <2>1. /\ 1 \in Clusters /\ NotFound \in Clusters /\ 0 \in FileSizes /\ -1 \in FileSizes
          /\ \A e \in Entries : e.cluster \in Clusters /\ e.size \in FileSizes
      OBVIOUS
    <2>2. Start \in S
      <3> HIDE DEF Clusters, FileSizes
      <3> QED
        BY <2>1
    <2>3. ASSUME NEW n \in 1..N, NEW s \in S PROVE LookedUp(s, p[n]) \in S
      <3> DEFINE b == s.roomy /\ Roomy(s.cluster)
      <3>0. b \in BOOLEAN
        OBVIOUS
      <3>1. CASE s.cluster \notin 1..LastCluster
        BY <3>1 DEF LookedUp
      <3>2. CASE s.cluster \in 1..LastCluster /\ Named(s.cluster, p[n]) = {}
        <4>1. LookedUp(s, p[n]) = [cluster |-> NotFound, size |-> -1, roomy |-> b]
          BY <3>2 DEF LookedUp
        <4> HIDE DEF Clusters, FileSizes, b
        <4> QED
          BY <2>1, <3>0, <4>1
      <3>3. CASE s.cluster \in 1..LastCluster /\ Named(s.cluster, p[n]) # {}
        <4>1. PICK e \in Named(s.cluster, p[n]) : e = CHOOSE x \in Named(s.cluster, p[n]) : TRUE
          BY <3>3
        <4>2. e \in Entries
          <5> HIDE DEF S, step, Clusters, FileSizes, b
          <5>1. PICK c \in 1..LastCluster : c = s.cluster
            BY <3>3
          <5>2. Named(c, p[n]) \in {Named(x, p[m]) : x \in 1..LastCluster, m \in 1..N}
            <6> HIDE DEF N
            <6> QED
              OBVIOUS
          <5> QED
            BY <4>1, <5>1, <5>2
        <4>3. LookedUp(s, p[n]) = [cluster |-> e.cluster, size |-> e.size, roomy |-> b]
          BY <3>3, <4>1 DEF LookedUp
        <4> HIDE DEF Entries, Clusters, FileSizes, b
        <4> QED
          BY <2>1, <3>0, <4>2, <4>3
      <3> HIDE DEF S, b
      <3> QED
        BY <3>1, <3>2, <3>3
    <2> HIDE DEF S
    <2>4. step \in [(1..N) \X S -> S]
      BY <2>3
    <2>5. PICK f : Iterates(f, S, Start, step, N)
      <3> HIDE DEF step, N, Start
      <3> QED
        BY <1>3, <2>2, <2>4, Iteration
    <2>6. ASSUME NEW n \in 1..N PROVE f[n] = LookedUp(f[n - 1], p[n])
      <3>1. n - 1 \in 0..N
        BY <1>3
      <3>2. <<n, f[n - 1]>> \in (1..N) \X S
        <4> HIDE DEF step
        <4> QED
          BY <2>5, <3>1 DEF Iterates
      <3>3. f[n] = step[<<n, f[n - 1]>>]
        BY <2>5 DEF Iterates
      <3> QED
        BY <3>2, <3>3
    <2>7. \A n \in 0..N : f[n] = IF n = 0 THEN Start ELSE LookedUp(f[n - 1], p[n])
      <3>1. \A n \in 0..N : n # 0 => n \in 1..N
        BY <1>3
      <3> QED
        BY <2>5, <2>6, <3>1 DEF Iterates
    <2>8. f = [n \in 0..N |-> f[n]]
      BY <2>5 DEF Iterates
    <2> HIDE DEF step
    <2> QED
      BY <2>7, <2>8
  <1>5. Made(at)
    <2> HIDE DEF Rec, Made
    <2>1. Rec(at)
      BY <1>2, <1>4
    <2> QED
      BY <1>2, <2>1
  <1> HIDE DEF at
  <1>6. at[0] = Start
    <2>1. 0 \in 0..N
      BY <1>3
    <2> QED
      BY <1>5, <2>1
  <1>7. \A n \in 1..N : at[n] = LookedUp(at[n - 1], p[n])
    <2>1. \A n \in 1..N : n \in 0..N /\ n # 0
      BY <1>3
    <2> QED
      BY <1>5, <2>1
  <1> QED
    BY <1>1, <1>3, <1>6, <1>7

\* Where a path has come to before its last name.
LEMMA OnTheWay ==
  ASSUME NEW p \in Paths, NEW n \in 0..(Len(p) - 1)
  PROVE  Lookups(p)[n].cluster \in Directories \cup {NotFound}
  <1>1. PICK k \in 1..Len(p) : k = n + 1 /\ k - 1 = n
    BY LookupsAre
  <1> QED
    BY <1>1, DirectoryAssumption

-----------------------------------------------------------------------------
(* Directories.                                                            *)

\* The root directory is between the FATs and the data, and not empty.
LEMMA Layout ==
  \E z \in Nat, m \in Nat \ {0} :
    /\ RootStart = PartitionOffset + ReservedSectors + z /\ DataStart = RootStart + m
    /\ rootOffset = z + PartitionOffset
  <1>1. PICK z \in Nat : z = NumberOfFAT * SectorsPerFAT
    BY Geometry
  <1>2. PICK x \in Nat : x = RootEntries + SectorSize - 1 /\ x >= SectorSize
    <2>1. SectorSize \in Nat \ {0}
      BY Geometry
    <2>2. RootEntries \in Nat
      BY GeometryAssumption
    <2>3. RootEntries > 0
      BY DirectoryAssumption
    <2> QED
      BY <2>1, <2>2, <2>3
  <1>3. PICK m \in Nat : m = x \div SectorSize
    BY Position
  <1>4. m # 0
    <2>1. x = m * SectorSize + (x % SectorSize) /\ x % SectorSize \in 0..(SectorSize - 1)
      BY <1>3, Position
    <2>2. m = 0 => m * SectorSize = 0
      BY Geometry
    <2>3. PICK r \in 0..(SectorSize - 1) : r = x % SectorSize
      BY <2>1
    <2> QED
      BY <1>2, <2>1, <2>2, <2>3, Geometry
  <1> QED
    BY <1>1, <1>2, <1>3, <1>4 DEF RootStart, DataStart, rootOffset

\* Where a directory is: the driver and the format agree.
LEMMA DirIs ==
  ASSUME NEW c \in Directories
  PROVE  /\ c \in 1..LastCluster
         /\ Len(DirClusters(c)) \in Nat \ {0} /\ DirClusters(c)[1] = c
         /\ Len(DirSectors(c)) \in Nat /\ Len(DirClusters(c)) <= Len(DirSectors(c))
         /\ \A k \in 1..Len(DirClusters(c)) :
              /\ DirClusters(c)[k] \in 1..LastCluster
              /\ DirSectors(c)[k] = ClusterSector(DirClusters(c)[k])
              /\ DirSectors(c)[k] \in Sectors
         /\ \A k \in 1..(Len(DirClusters(c)) - 1) : DirClusters(c)[k + 1] = Fat(Format, DirClusters(c)[k])
  <1>1. c \in 1..LastCluster /\ 1 \in 1..LastCluster /\ LastCluster \in Nat /\ RootEntries \in Nat \ {0}
    BY Geometry, GeometryAssumption, DirectoryAssumption
  <1>2. PICK z \in Nat, m \in Nat \ {0} :
          /\ RootStart = PartitionOffset + ReservedSectors + z /\ DataStart = RootStart + m
          /\ rootOffset = z + PartitionOffset
    BY Layout
  <1>3. CASE c = 1
    <2>1. DirClusters(c) = <<1>> /\ DirSectors(c) = [i \in 1..m |-> RootStart + i - 1]
      <3>1. DataStart - RootStart = m
        BY <1>2, Geometry
      <3> QED
        BY <1>3, <3>1 DEF DirClusters, DirSectors
    <2>2. ClusterSector(1) = RootStart
      BY <1>2, Geometry DEF ClusterSector
    <2>3. RootStart \in Sectors
      <3>1. RootStart \in (PartitionOffset + ReservedSectors)..(DataStart + LastCluster - 2)
        BY <1>1, <1>2, Geometry
      <3> QED
        BY <3>1, VolumeAssumption
    <2>4. Len(DirSectors(c)) = m /\ DirSectors(c)[1] = RootStart
      <3>1. RootStart \in Nat /\ RootStart + 1 - 1 = RootStart /\ 1 \in 1..m
        BY <1>2, Geometry
      <3> QED
        BY <2>1, <3>1
    <2>5. Len(DirClusters(c)) = 1 /\ DirClusters(c)[1] = 1
      BY <2>1
    <2>6. Len(DirSectors(c)) \in Nat /\ Len(DirClusters(c)) <= Len(DirSectors(c))
      BY <1>2, <2>4, <2>5
    <2>7. ASSUME NEW k \in 1..Len(DirClusters(c))
          PROVE  /\ DirClusters(c)[k] \in 1..LastCluster
                 /\ DirSectors(c)[k] = ClusterSector(DirClusters(c)[k])
                 /\ DirSectors(c)[k] \in Sectors
      <3>1. k = 1
        BY <2>5
      <3> QED
        BY <1>1, <2>2, <2>3, <2>4, <2>5, <3>1
    <2>8. \A k \in 1..(Len(DirClusters(c)) - 1) : FALSE
      BY <2>5
    <2> QED
      BY <1>1, <1>3, <2>5, <2>6, <2>7, <2>8
  <1>4. CASE c # 1
    <2>1. c \in 2..LastCluster
      BY <1>1, <1>4
    <2>2. Follows(Format, c, DirClusters(c))
      BY <1>4, <2>1, ChainFollows DEF DirClusters
    <2>3. /\ Len(DirClusters(c)) \in Nat \ {0}
          /\ \A k \in 1..Len(DirClusters(c)) : DirClusters(c)[k] \in 2..LastCluster
      BY <2>2, LastIn
    <2>4. DirSectors(c) = [i \in 1..Len(DirClusters(c)) |-> DataStart + DirClusters(c)[i] - 2]
      BY <1>4 DEF DirSectors, DirClusters
    <2>5. ASSUME NEW x \in 2..LastCluster
          PROVE  ClusterSector(x) = DataStart + x - 2 /\ DataStart + x - 2 \in Sectors /\ x \in 1..LastCluster
      <3>1. DataStart + x - 2 \in (PartitionOffset + ReservedSectors)..(DataStart + LastCluster - 2)
        BY <1>1, <1>2, Geometry
      <3> QED
        BY <1>1, <3>1, ClusterSectorIs, VolumeAssumption
    <2>6. Len(DirSectors(c)) = Len(DirClusters(c))
      BY <2>3, <2>4
    <2> QED
      BY <1>1, <2>2, <2>3, <2>4, <2>5, <2>6 DEF Follows
  <1> QED
    BY <1>3, <1>4

\* An entry for a name is in one of the directory's sectors.
LEMMA NamedIs ==
  ASSUME NEW c \in Directories, NEW name, NEW e
  PROVE  e \in Named(c, name) <=>
           \E i \in 1..Len(DirSectors(c)), x \in 0..(SectorSize - 1) :
             e = Format[DirSectors(c)[i]][x] /\ e.name = EntryName(name)
  <1>1. e \in Named(c, name) <=> \E i \in 1..Len(DirSectors(c)) :
                                   e \in EntriesOf(DirSectors(c)[i]) /\ e.name = EntryName(name)
    BY DEF Named
  <1>2. \A s : e \in EntriesOf(s) <=> \E x \in 0..(SectorSize - 1) : e = Format[s][x]
    BY DEF EntriesOf
  <1> QED
    BY <1>1, <1>2

\* What open reads of a directory.
LEMMA DirRead ==
  ASSUME FATKept(disk), DirKept(disk), NEW c \in Directories, NEW k \in 1..Len(DirClusters(c))
  PROVE  /\ readCluster(DirClusters(c)[k]) = Format[DirSectors(c)[k]]
         /\ k < Len(DirClusters(c)) =>
              /\ k + 1 \in 1..Len(DirClusters(c))
              /\ readFAT(DirClusters(c)[k]) = DirClusters(c)[k + 1]
         /\ k = Len(DirClusters(c)) =>
              readFAT(DirClusters(c)[k]) \in Nat /\ readFAT(DirClusters(c)[k]) >= BadCluster
  <1>1. readCluster(DirClusters(c)[k]) = Format[DirSectors(c)[k]]
    BY DirIs DEF readCluster, DirKept
  <1>2. readFAT(DirClusters(c)[k]) = Fat(Format, DirClusters(c)[k])
    BY DirIs, ReadFATIs DEF FATKept
  <1>3. k < Len(DirClusters(c)) => k + 1 \in 1..Len(DirClusters(c)) /\ k \in 1..(Len(DirClusters(c)) - 1)
    BY DirIs
  <1>4. LET next == Fat(Format, DirClusters(c)[Len(DirClusters(c))]) IN next \in Nat /\ next >= BadCluster
    BY DirIs, DirectoryAssumption
  <1> QED
    BY <1>1, <1>2, <1>3, <1>4, DirIs

-----------------------------------------------------------------------------
(* Opening.                                                                *)

\* What one more name of a path leads to.
LEMMA NextName ==
  ASSUME NEW p \in Paths, NEW n \in 0..(Len(p) - 1), NEW from, NEW found,
         from = Lookups(p)[n], found = Lookups(p)[n + 1]
  PROVE  /\ n + 1 \in 1..Len(p)
         /\ from.cluster \in Directories \cup {NotFound}
         /\ from.cluster = NotFound => found = from
         /\ from.cluster \in Directories =>
              /\ found.roomy => from.roomy /\ Roomy(from.cluster)
              /\ Named(from.cluster, p[n + 1]) = {} => found.cluster = NotFound
              /\ \A e \in Named(from.cluster, p[n + 1]) : found.cluster = e.cluster /\ found.size = e.size
  <1>1. PICK m \in 1..Len(p) : m = n + 1 /\ m - 1 = n
    BY LookupsAre
  <1>2. found = LookedUp(from, p[m])
    BY <1>1, LookupsAre
  <1>3. from.cluster \in Directories \cup {NotFound}
    BY OnTheWay
  <1>4. CASE from.cluster = NotFound
    <2>1. NotFound \notin 1..LastCluster /\ NotFound \notin Directories
      BY Geometry, GeometryAssumption, DirectoryAssumption DEF NotFound
    <2> QED
      BY <1>1, <1>2, <1>3, <1>4, <2>1 DEF LookedUp
  <1>5. CASE from.cluster \in Directories
    <2>1. PICK c \in Directories : c = from.cluster
      BY <1>5
    <2>2. c \in 1..LastCluster /\ c # NotFound
      BY Geometry, GeometryAssumption, DirectoryAssumption DEF NotFound
    <2> DEFINE roomy == from.roomy /\ Roomy(c)
    <2>3. CASE Named(c, p[m]) = {}
      <3>1. found = [cluster |-> NotFound, size |-> -1, roomy |-> roomy]
        BY <1>2, <2>1, <2>2, <2>3 DEF LookedUp
      <3>2. found.cluster = NotFound /\ found.roomy = roomy
        <4> HIDE DEF roomy
        <4> QED
          BY <3>1
      <3>3. found.roomy => roomy
        BY <3>2
      <3> QED
        BY <1>1, <1>3, <2>1, <2>2, <2>3, <3>2, <3>3
    <2>4. CASE Named(c, p[m]) # {}
      <3>1. PICK e \in Named(c, p[m]) : e = CHOOSE x \in Named(c, p[m]) : TRUE
        BY <2>4
      <3>2. found = [cluster |-> e.cluster, size |-> e.size, roomy |-> roomy]
        BY <1>2, <2>1, <2>2, <2>4, <3>1 DEF LookedUp
      <3>3. found.cluster = e.cluster /\ found.size = e.size /\ found.roomy = roomy
        <4> HIDE DEF roomy
        <4> QED
          BY <3>2
      <3>4. found.roomy => roomy
        BY <3>3
      <3>5. \A f \in Named(c, p[m]) : e = f
        BY <3>1, DirectoryAssumption
      <3> QED
        BY <1>1, <1>3, <2>1, <2>2, <2>4, <3>3, <3>4, <3>5
    <2> QED
      BY <2>3, <2>4
  <1> QED
    BY <1>3, <1>4, <1>5

\* A search that ends without a directory to look in, or at the end of one
\* that is not roomy, may not find what is there.
Lost(p, n) ==
  LET from == Lookups(p)[n] IN
  \/ from.cluster = NotFound \/ ~from.roomy
  \/ from.cluster \in Directories /\ ~Roomy(from.cluster)

\* Then nothing found is the right answer, as far as roomy directories go.
LEMMA Missed ==
  ASSUME NEW p \in Paths, NEW n \in 0..(Len(p) - 1), Lost(p, n), NEW s
  PROVE  ResultOK(p, n + 1, NotFound, s)
  <1>1. PICK from, found : from = Lookups(p)[n] /\ found = Lookups(p)[n + 1]
    OBVIOUS
  <1>2. from.cluster = NotFound \/ ~from.roomy \/ (from.cluster \in Directories /\ ~Roomy(from.cluster))
    BY <1>1 DEF Lost
  <1>3. /\ from.cluster \in Directories \cup {NotFound}
        /\ from.cluster = NotFound => found = from
        /\ from.cluster \in Directories => (found.roomy => from.roomy /\ Roomy(from.cluster))
    BY <1>1, NextName
  <1>4. found.roomy => found.cluster = NotFound
    BY <1>2, <1>3
  <1> QED
    BY <1>1, <1>4 DEF ResultOK

\* A function on 1..k is a sequence.
LEMMA FunctionIsSeq ==
  ASSUME NEW T, NEW k \in Nat, NEW f \in [1..k -> T]
  PROVE  f \in Seq(T) /\ Len(f) = k
  OBVIOUS

\* open goes on with the next name, or returns what it has found.
LEMMA Resolve ==
  ASSUME pc = "search", op' = op, op = "open", SearchOK, FileOK,
         NEW n \in 0..(Len(file.path) - 1),
         rest = [i \in 1..(Len(file.path) - n) |-> file.path[n + i]],
         NEW c, NEW s, ResultOK(file.path, n + 1, c, s), Resolved(c, s)
  PROVE  SearchOK' /\ FileOK' /\ OpenRight'
  <1>1. PICK p \in Paths : p = file.path
    BY DEF SearchOK
  <1>2. Len(p) \in Nat \ {0} /\ n \in 0..(Len(p) - 1) /\ n \in Nat /\ p \in Seq(Seq(STRING))
    BY <1>1, LookupsAre, PathAssumption
  <1>3. PICK l \in Nat : l = Len(p) /\ l - n \in Nat \ {0}
    BY <1>2
  <1>4. rest = [i \in 1..(l - n) |-> p[n + i]]
    BY <1>1, <1>3
  <1>5. rest \in Seq(Seq(STRING)) /\ Len(rest) = l - n
    <2>1. \A i \in 1..(l - n) : p[n + i] \in Seq(STRING)
      <3>1. \A i \in 1..(l - n) : n + i \in 1..Len(p)
        BY <1>2, <1>3
      <3> QED
        BY <1>2, <3>1, ElementOfSeq
    <2>2. rest \in [1..(l - n) -> Seq(STRING)]
      BY <1>4, <2>1
    <2> DEFINE T == Seq(STRING)
    <2>3. PICK k \in Nat : k = l - n
      BY <1>3
    <2>4. rest \in [1..k -> T]
      BY <2>2, <2>3
    <2> HIDE DEF T
    <2>5. rest \in Seq(T) /\ Len(rest) = k
      BY <2>4, FunctionIsSeq, Zenon
    <2> QED
      BY <2>3, <2>5 DEF T
  <1>6. PICK found : found = Lookups(p)[n + 1]
    OBVIOUS
  <1>7. \/ c = found.cluster /\ s = found.size
        \/ c = NotFound /\ (found.roomy => found.cluster = NotFound)
    BY <1>1, <1>6 DEF ResultOK
  <1>8. BadCluster \in Nat /\ NotFound = BadCluster + 1 /\ NotFound \in Nat /\ LastCluster < BadCluster
        /\ LastCluster \in Nat /\ NotFound \notin 2..LastCluster
    BY Geometry, GeometryAssumption DEF NotFound
  <1>9. CASE l - n > 1
    <2>1. UNCHANGED <<pc, file, position>> /\ cluster' = c /\ rest' = Tail(rest)
      BY <1>5, <1>9 DEF Resolved
    <2>2. PICK m \in 0..(l - 1) : m = n + 1 /\ l - m = l - n - 1 /\ l - m \in Nat
      <3>1. n \in Nat /\ l \in Nat /\ l - n > 1
        BY <1>2, <1>3, <1>9
      <3>2. \A a, b \in Nat : b - a > 1 =>
              /\ a + 1 \in 0..(b - 1) /\ b - (a + 1) = b - a - 1 /\ b - (a + 1) \in Nat
        OBVIOUS
      <3>3. /\ n + 1 \in 0..(l - 1) /\ l - (n + 1) = l - n - 1 /\ l - (n + 1) \in Nat
        BY <3>1, <3>2, Zenon
      <3> QED
        BY <3>3, Zenon
    <2>3. rest' = [i \in 1..(l - m) |-> p[m + i]]
      <3>1. rest' = [i \in 1..(Len(rest) - 1) |-> rest[i + 1]]
        BY <1>5, <2>1
      <3>2. Len(rest) - 1 = l - m
        BY <1>2, <1>5, <2>2
      <3>3. \A i \in 1..(l - m) : rest[i + 1] = p[m + i]
        <4>1. ASSUME NEW i \in 1..(l - m) PROVE i + 1 \in 1..(l - n) /\ n + (i + 1) = m + i
          BY <1>2, <1>3, <2>2
        <4> QED
          BY <1>4, <4>1
      <3> QED
        BY <3>1, <3>2, <3>3
    <2>4. found = Lookups(p)[m] /\ found.cluster \in Directories \cup {NotFound}
      BY <1>3, <1>6, <2>2, OnTheWay
    <2>5. Searching(p, m)'
      <3>1. CASE c = found.cluster /\ found.cluster \in Directories
        <4>1. PICK d \in Directories : d = found.cluster
          BY <3>1
        <4>2. 1 \in 1..Len(DirClusters(d)) /\ DirClusters(d)[1] = d
          BY DirIs
        <4>3. Passed(d, 1, p[m + 1])
          BY DEF Passed
        <4> QED
          BY <2>1, <2>4, <3>1, <4>1, <4>2, <4>3 DEF Searching
      <3>2. CASE c = NotFound /\ (found.roomy => found.cluster = NotFound)
        <4>1. cluster' \in Nat /\ cluster' >= BadCluster
          BY <1>8, <2>1, <3>2
        <4>2. found.cluster = NotFound \/ ~found.roomy
          BY <3>2
        <4> QED
          BY <2>4, <4>1, <4>2 DEF Searching
      <3>3. CASE c = found.cluster /\ found.cluster = NotFound
        BY <3>2, <3>3
      <3> QED
        BY <1>7, <2>4, <3>1, <3>2, <3>3
    <2>6. SearchOK'
      <3>1. file'.path = p /\ file'.path \in Paths /\ file'.cluster = NotFound
        BY <1>1, <2>1 DEF SearchOK
      <3> QED
        BY <1>3, <2>2, <2>3, <2>5, <3>1 DEF SearchOK
    <2> QED
      BY <2>1, <2>6 DEF FileOK, OpenRight
  <1>10. CASE ~(l - n > 1)
    <2>1. pc' = "idle" /\ file' = [file EXCEPT !.cluster = c, !.size = s]
      BY <1>5, <1>10 DEF Resolved
    <2>2. n + 1 = l /\ found = Lookup(p)
      BY <1>2, <1>3, <1>6, <1>10 DEF Lookup
    <2>3. file'.path = p /\ file'.cluster = c /\ file'.size = s
      BY <1>1, <2>1 DEF SearchOK
    <2>4. SearchOK'
      BY <2>1 DEF SearchOK
    <2>5. FileOK'
      <3>1. c \in 2..LastCluster => c = Lookup(p).cluster
        BY <1>7, <1>8, <2>2
      <3> QED
        BY <2>3, <3>1 DEF FileOK
    <2>6. OpenRight'
      <3>1. c < BadCluster => c = found.cluster /\ s = found.size
        BY <1>7, <1>8
      <3>2. found.roomy => c = found.cluster
        BY <1>7
      <3> QED
        BY <2>2, <2>3, <3>1, <3>2 DEF OpenRight
    <2> QED
      BY <2>4, <2>5, <2>6
  <1> QED
    BY <1>9, <1>10

\* What looking through one sector of a directory shows.
LEMMA MarkFound ==
  ASSUME NEW p \in Paths, NEW n \in 1..Len(p), NEW c \in Directories,
         NEW k \in 1..Len(DirClusters(c)), Passed(c, k, p[n]), NEW i \in 0..(SectorSize - 1),
         Format[DirSectors(c)[k]][i].name[1] = Nul,
         \A l \in 0..(i - 1) : Format[DirSectors(c)[k]][l].name # EntryName(p[n])
  PROVE  Named(c, p[n]) = {}
  <1> SUFFICES ASSUME NEW e \in Named(c, p[n]) PROVE FALSE
    OBVIOUS
  <1>1. PICK j \in 1..Len(DirSectors(c)), x \in 0..(SectorSize - 1) :
          e = Format[DirSectors(c)[j]][x] /\ e.name = EntryName(p[n])
    BY NamedIs
  <1>2. e.name[1] # Nul
    BY <1>1, FatnameIs
  <1>3. /\ Len(DirClusters(c)) \in Nat \ {0}
        /\ Len(DirSectors(c)) \in Nat /\ Len(DirClusters(c)) <= Len(DirSectors(c))
    BY DirIs
  <1>4. k < j \/ (k = j /\ i < x) => e.name[1] = Nul
    <2>1. \A a, b \in 1..Len(DirSectors(c)), y, z \in 0..(SectorSize - 1) :
            /\ a < b \/ (a = b /\ y < z)
            /\ Format[DirSectors(c)[a]][y].name[1] = Nul
            => Format[DirSectors(c)[b]][z].name[1] = Nul
      BY DirectoryAssumption
    <2>2. k \in 1..Len(DirSectors(c)) /\ j \in 1..Len(DirSectors(c))
      BY <1>3
    <2>3. k < j \/ (k = j /\ i < x) => Format[DirSectors(c)[j]][x].name[1] = Nul
      BY <2>1, <2>2
    <2> QED
      BY <1>1, <2>3
  <1>5. ~(j < k)
    <2>1. j < k => j \in 1..(k - 1)
      BY <1>3
    <2> QED
      BY <1>1, <2>1 DEF Passed
  <1>6. j = k
    BY <1>2, <1>3, <1>4, <1>5
  <1>7. x # i
    BY <1>1, <1>2, <1>6
  <1>8. ~(x < i)
    <2>1. x < i => x \in 0..(i - 1)
      BY Geometry
    <2> QED
      BY <1>1, <1>6, <2>1
  <1> QED
    BY <1>2, <1>4, <1>6, <1>7, <1>8, Geometry

\* A sector without an end mark, behind others without one.
LEMMA NoMark ==
  ASSUME NEW c \in Directories, NEW k \in 1..Len(DirClusters(c)), NEW name, Passed(c, k, name),
         \A i \in 0..(SectorSize - 1) : Format[DirSectors(c)[k]][i].name[1] # Nul
  PROVE  ~Roomy(c)
  <1>1. \A x \in 0..(SectorSize - 1) : Format[DirSectors(c)[1]][x].name[1] # Nul
    <2>1. k = 1 \/ 1 \in 1..(k - 1)
      BY DirIs
    <2> QED
      BY <2>1 DEF Passed
  <1> QED
    BY <1>1 DEF Roomy, EntriesOf

\* One sector.
LEMMA SearchClusterStep ==
  ASSUME DiskOK, DirKept(disk), SearchOK, FileOK, SearchCluster
  PROVE  SearchOK' /\ FileOK' /\ OpenRight'
  <1>1. /\ pc = "search" /\ op = "open" /\ op' = op /\ FATKept(disk) /\ cluster < BadCluster
        /\ disk' = disk
    BY DEF SearchCluster, DiskOK
  <1>2. PICK p \in Paths : p = file.path
    BY <1>1 DEF SearchOK
  <1>3. PICK n \in 0..(Len(p) - 1) :
          rest = [i \in 1..(Len(p) - n) |-> p[n + i]] /\ Searching(p, n)
    BY <1>1, <1>2 DEF SearchOK
  <1>4. PICK from, found : from = Lookups(p)[n] /\ found = Lookups(p)[n + 1]
    OBVIOUS
  <1>5. from.cluster \in Directories
        /\ \E k \in 1..Len(DirClusters(from.cluster)) :
             cluster = DirClusters(from.cluster)[k] /\ Passed(from.cluster, k, p[n + 1])
    <2>1. ~(cluster \in Nat /\ cluster >= BadCluster)
      BY <1>1, Geometry
    <2> QED
      BY <1>3, <1>4, <2>1 DEF Searching
  <1>6. PICK c \in Directories : c = from.cluster
    BY <1>5
  <1>7. PICK k \in 1..Len(DirClusters(c)) : cluster = DirClusters(c)[k] /\ Passed(c, k, p[n + 1])
    BY <1>5, <1>6
  <1>8. PICK m \in 1..Len(p) :
          /\ m = n + 1
          /\ Named(c, p[m]) = {} => found.cluster = NotFound
          /\ \A e \in Named(c, p[m]) : found.cluster = e.cluster /\ found.size = e.size
    <2>1. n + 1 \in 1..Len(p)
      BY NextName
    <2>2. Named(c, p[n + 1]) = {} => found.cluster = NotFound
      BY <1>4, <1>6, NextName
    <2>3. \A e \in Named(c, p[n + 1]) : found.cluster = e.cluster /\ found.size = e.size
      BY <1>4, <1>6, NextName
    <2> QED
      BY <2>1, <2>2, <2>3
  <1>9. Head(rest) = p[m]
    <2>1. 1 \in 1..(Len(p) - n) /\ n + 1 = m
      BY <1>8, LookupsAre
    <2> QED
      BY <1>3, <2>1
  <1>10. /\ readCluster(cluster) = Format[DirSectors(c)[k]]
         /\ k < Len(DirClusters(c)) =>
              k + 1 \in 1..Len(DirClusters(c)) /\ readFAT(cluster) = DirClusters(c)[k + 1]
         /\ k = Len(DirClusters(c)) => readFAT(cluster) \in Nat /\ readFAT(cluster) >= BadCluster
    BY <1>1, <1>7, DirRead
  <1>11. {filenameToFAT(f) : f \in FilenameBuffers(p[m])} = {EntryName(p[m])}
    BY FatnameIs
  <1> DEFINE E(u) == [i \in 0..(2 * SectorSize - 1) |->
                        IF i < SectorSize THEN readCluster(cluster)[i] ELSE u]
             Stops(u, i) == E(u)[i].name[1] = Nul \/ E(u)[i].name = EntryName(p[m])
             EndsAt(u, i) == Stops(u, i) /\ \A l \in 0..(i - 1) : ~Stops(u, l)
             Looked(name, u) ==
               \/ \E i \in DOMAIN E(u) :
                    /\ E(u)[i].name[1] = Nul \/ E(u)[i].name = name
                    /\ \A l \in 0..(i - 1) : ~(E(u)[l].name[1] = Nul \/ E(u)[l].name = name)
                    /\ IF E(u)[i].name[1] = Nul THEN Resolved(NotFound, lastSize) ELSE Entry(E(u)[i])
               \/ /\ \A i \in DOMAIN E(u) : ~(E(u)[i].name[1] = Nul \/ E(u)[i].name = name)
                  /\ cluster' = readFAT(cluster)
                  /\ UNCHANGED <<rest, lastSize, pc, file, position>>
  <1>12. PICK u \in Uninitialised :
           \/ \E i \in 0..(2 * SectorSize - 1) :
                /\ EndsAt(u, i)
                /\ IF E(u)[i].name[1] = Nul THEN Resolved(NotFound, lastSize) ELSE Entry(E(u)[i])
           \/ /\ \A i \in 0..(2 * SectorSize - 1) : ~Stops(u, i)
              /\ cluster' = readFAT(cluster)
              /\ UNCHANGED <<rest, lastSize, pc, file, position>>
    <2>1. \E name \in {filenameToFAT(f) : f \in FilenameBuffers(Head(rest))}, u \in Uninitialised : Looked(name, u)
      <3>1. PICK name \in {filenameToFAT(f) : f \in FilenameBuffers(Head(rest))}, u \in Uninitialised :
               LET entries == [i \in 0..(2 * SectorSize - 1) |->
                                 IF i < SectorSize THEN readCluster(cluster)[i] ELSE u]
                   Halts(i) == entries[i].name[1] = Nul \/ entries[i].name = name
                   First(i) == Halts(i) /\ \A k_1 \in 0..(i - 1) : ~Halts(k_1)
               IN  \/ \E i \in DOMAIN entries :
                        /\ First(i)
                        /\ IF entries[i].name[1] = Nul THEN Resolved(NotFound, lastSize)
                           ELSE Entry(entries[i])
                   \/ /\ \A i \in DOMAIN entries : ~Halts(i)
                      /\ cluster' = readFAT(cluster)
                      /\ UNCHANGED <<rest, lastSize, pc, file, position>>
        BY Zenon DEF SearchCluster
      <3>2. Looked(name, u)
        BY <3>1
      <3> HIDE DEF Looked
      <3> QED
        BY <3>2
    <2> HIDE DEF Looked
    <2>2. PICK u \in Uninitialised : Looked(EntryName(p[m]), u)
      BY <1>9, <1>11, <2>1
    <2>3. DOMAIN E(u) = 0..(2 * SectorSize - 1)
      OBVIOUS
    <2> HIDE DEF E
    <2> QED
      BY <2>2, <2>3 DEF Looked
  <1>13. u.name # EntryName(p[m])
    BY DirectoryAssumption
  <1>14. SectorSize \in Nat \ {0}
    BY Geometry
  <1>15. \A i \in 0..(SectorSize - 1) : i \in 0..(2 * SectorSize - 1) /\ E(u)[i] = Format[DirSectors(c)[k]][i]
    BY <1>10, <1>14
  <1>16. \A i \in 0..(2 * SectorSize - 1) : i \notin 0..(SectorSize - 1) => E(u)[i] = u
    BY <1>14
  <1> HIDE DEF E
  <1>17. ASSUME \A i \in 0..(SectorSize - 1) : ~Stops(u, i) PROVE ~Roomy(c)
    BY <1>7, <1>15, <1>17, NoMark
  <1>18. ASSUME NEW d, NEW s, ResultOK(p, n + 1, d, s), Resolved(d, s)
         PROVE  SearchOK' /\ FileOK' /\ OpenRight'
    BY <1>1, <1>2, <1>3, <1>18, Resolve
  <1>19. ASSUME NEW i \in 0..(2 * SectorSize - 1), EndsAt(u, i),
                IF E(u)[i].name[1] = Nul THEN Resolved(NotFound, lastSize) ELSE Entry(E(u)[i])
         PROVE  SearchOK' /\ FileOK' /\ OpenRight'
    <2>1. CASE i \in 0..(SectorSize - 1) /\ E(u)[i].name[1] = Nul
      <3>1. Format[DirSectors(c)[k]][i].name[1] = Nul
        BY <1>15, <2>1
      <3>2. ASSUME NEW l \in 0..(i - 1) PROVE Format[DirSectors(c)[k]][l].name # EntryName(p[m])
        <4>1. l \in 0..(SectorSize - 1)
          BY <1>14, <2>1
        <4> QED
          BY <1>15, <1>19, <4>1
      <3>3. Named(c, p[m]) = {}
        BY <1>7, <1>8, <2>1, <3>1, <3>2, MarkFound
      <3>4. found.cluster = NotFound
        BY <1>8, <3>3
      <3>5. ResultOK(p, n + 1, NotFound, lastSize)
        BY <1>4, <3>4 DEF ResultOK
      <3> QED
        BY <1>18, <1>19, <2>1, <3>5
    <2>2. CASE i \in 0..(SectorSize - 1) /\ E(u)[i].name[1] # Nul
      <3>1. PICK e : e = E(u)[i]
        OBVIOUS
      <3>2. e = Format[DirSectors(c)[k]][i] /\ e.name = EntryName(p[m])
        BY <1>15, <1>19, <2>2, <3>1
      <3>3. e \in Named(c, p[m])
        <4>1. k \in 1..Len(DirSectors(c))
          BY DirIs
        <4> QED
          BY <2>2, <3>2, <4>1, NamedIs
      <3>4. found.cluster = e.cluster /\ found.size = e.size
        BY <1>8, <3>3
      <3>5. ResultOK(p, n + 1, e.cluster, e.size)
        BY <1>4, <3>4 DEF ResultOK
      <3>6. Resolved(e.cluster, e.size)
        BY <1>19, <2>2, <3>1 DEF Entry
      <3> QED
        BY <1>18, <3>5, <3>6
    <2>3. CASE i \notin 0..(SectorSize - 1)
      <3>1. E(u)[i].name[1] = Nul
        BY <1>13, <1>16, <1>19, <2>3
      <3>2. \A l \in 0..(SectorSize - 1) : l \in 0..(i - 1)
        BY <1>14, <2>3
      <3>3. ~Roomy(c)
        BY <1>17, <1>19, <3>2
      <3>4. ResultOK(p, n + 1, NotFound, lastSize)
        BY <1>4, <1>6, <3>3, Missed DEF Lost
      <3> QED
        BY <1>18, <1>19, <3>1, <3>4
    <2> QED
      BY <2>1, <2>2, <2>3
  <1>20. ASSUME \A i \in 0..(2 * SectorSize - 1) : ~Stops(u, i), cluster' = readFAT(cluster),
                UNCHANGED <<rest, lastSize, pc, file, position>>
         PROVE  SearchOK' /\ FileOK' /\ OpenRight'
    <2>1. \A i \in 0..(SectorSize - 1) : ~Stops(u, i)
      BY <1>15, <1>20
    <2>2. CASE k < Len(DirClusters(c))
      <3>1. PICK j \in 1..Len(DirClusters(c)) : j = k + 1 /\ cluster' = DirClusters(c)[j] /\ j - 1 = k
        BY <1>10, <1>20, <2>2
      <3>2. Passed(c, j, p[n + 1])
        <4> SUFFICES ASSUME NEW i \in 1..(j - 1), NEW x \in 0..(SectorSize - 1)
                     PROVE  /\ Format[DirSectors(c)[i]][x].name # EntryName(p[m])
                            /\ Format[DirSectors(c)[i]][x].name[1] # Nul
          BY <1>8 DEF Passed
        <4>1. i = k \/ i \in 1..(k - 1)
          BY <3>1
        <4> QED
          BY <1>7, <1>8, <1>15, <2>1, <4>1 DEF Passed
      <3>3. Searching(p, n)'
        BY <1>4, <1>6, <3>1, <3>2 DEF Searching
      <3> QED
        BY <1>1, <1>2, <1>3, <1>20, <3>3 DEF SearchOK, FileOK, OpenRight
    <2>3. CASE ~(k < Len(DirClusters(c)))
      <3>1. k = Len(DirClusters(c))
        BY <2>3, DirIs
      <3>2. cluster' \in Nat /\ cluster' >= BadCluster
        BY <1>10, <1>20, <3>1
      <3>3. ~Roomy(c)
        BY <1>17, <2>1
      <3>4. Searching(p, n)'
        BY <1>4, <1>6, <3>2, <3>3 DEF Searching
      <3> QED
        BY <1>1, <1>2, <1>3, <1>20, <3>4 DEF SearchOK, FileOK, OpenRight
    <2> QED
      BY <2>2, <2>3
  <1> QED
    BY <1>12, <1>19, <1>20

\* No directory to look in, or its end.
LEMMA SearchEndStep ==
  ASSUME DiskOK, SearchOK, FileOK, SearchEnd
  PROVE  SearchOK' /\ FileOK' /\ OpenRight'
  <1>1. /\ pc = "search" /\ op = "open" /\ op' = op /\ cluster >= BadCluster
        /\ Resolved(NotFound, lastSize)
    BY DEF SearchEnd, DiskOK
  <1>2. PICK p \in Paths : p = file.path
    BY <1>1 DEF SearchOK
  <1>3. PICK n \in 0..(Len(p) - 1) :
          rest = [i \in 1..(Len(p) - n) |-> p[n + i]] /\ Searching(p, n)
    BY <1>1, <1>2 DEF SearchOK
  <1>4. Lost(p, n)
    <2>1. ASSUME NEW c \in Directories, NEW k \in 1..Len(DirClusters(c)), cluster = DirClusters(c)[k]
          PROVE  FALSE
      <3>1. cluster \in 1..LastCluster
        BY <2>1, DirIs
      <3> QED
        BY <1>1, <3>1, Geometry, GeometryAssumption
    <2> QED
      BY <1>3, <2>1 DEF Searching, Lost
  <1>5. ResultOK(p, n + 1, NotFound, lastSize)
    BY <1>4, Missed
  <1> QED
    BY <1>1, <1>2, <1>3, <1>5, Resolve

\* A search begins in the root directory.
LEMMA CallOpenStep ==
  ASSUME FileOK, NEW p \in Paths, CallOpen(p)
  PROVE  SearchOK' /\ FileOK' /\ OpenRight'
  <1>1. /\ pc' = "search" /\ rest' = p /\ cluster' = 1
        /\ file'.path = p /\ file'.cluster = NotFound
    BY DEF CallOpen
  <1>2. Len(p) \in Nat \ {0} /\ Lookups(p)[0].cluster = 1 /\ 1 \in Directories
    BY LookupsAre, DirectoryAssumption
  <1>3. rest' = [i \in 1..(Len(p) - 0) |-> p[0 + i]]
    <2>1. p \in [1..Len(p) -> Seq(STRING)]
      BY PathAssumption, LenProperties
    <2>2. Len(p) - 0 = Len(p) /\ \A i \in 1..Len(p) : 0 + i = i
      BY <1>2
    <2> QED
      BY <1>1, <2>1, <2>2
  <1>4. Searching(p, 0)'
    <2>1. 1 \in 1..Len(DirClusters(1)) /\ DirClusters(1)[1] = 1 /\ Passed(1, 1, p[0 + 1])
      BY <1>2, DirIs DEF Passed
    <2> QED
      BY <1>1, <1>2, <2>1 DEF Searching
  <1>5. 0 \in 0..(Len(p) - 1) /\ NotFound \notin 2..LastCluster
    BY <1>2, Geometry, GeometryAssumption DEF NotFound
  <1> QED
    BY <1>1, <1>3, <1>4, <1>5 DEF SearchOK, FileOK, OpenRight

-----------------------------------------------------------------------------
(* The other steps change nothing that open reads.                         *)

\* Files are not in the way of directories.
LEMMA DirBehind ==
  ASSUME FileOK, file.cluster \in 2..LastCluster, NEW c \in Directories, NEW k \in 1..Len(DirClusters(c))
  PROVE  DirSectors(c)[k] \in Sectors /\ DirSectors(c)[k] # DataStart + file.cluster - 2
  <1>1. PICK p \in Paths : file.cluster = Lookup(p).cluster
    BY DEF FileOK
  <1>2. PICK x \in 1..LastCluster : x = DirClusters(c)[k] /\ DirSectors(c)[k] = ClusterSector(x)
                                    /\ DirSectors(c)[k] \in Sectors
    BY DirIs
  <1>3. x # file.cluster
    <2>1. DirClusters(c)[k] # Lookup(p).cluster
      BY LookupsAre, DirectoryAssumption
    <2> QED
      BY <1>1, <1>2, <2>1
  <1>4. PICK f \in 2..LastCluster : f = file.cluster
    OBVIOUS
  <1>5. PICK z \in Nat, m \in Nat \ {0} :
          /\ RootStart = PartitionOffset + ReservedSectors + z /\ DataStart = RootStart + m
          /\ rootOffset = z + PartitionOffset
    BY Layout
  <1>6. PartitionOffset \in Nat /\ ReservedSectors = 1
    BY Geometry
  <1>7. CASE x = 1
    <2>1. ClusterSector(x) = z + PartitionOffset + 1
      BY <1>5, <1>7 DEF ClusterSector
    <2> QED
      BY <1>2, <1>4, <1>5, <1>6, <2>1
  <1>8. CASE x # 1
    <2>1. x \in 2..LastCluster
      BY <1>8
    <2>2. ClusterSector(x) = DataStart + x - 2
      BY <2>1, ClusterSectorIs
    <2> QED
      BY <1>2, <1>3, <1>4, <1>5, <1>6, <2>1, <2>2
  <1> QED
    BY <1>7, <1>8

\* Transfers and seeks leave the directories alone.
LEMMA TransferKeeps ==
  ASSUME IInv, FileOK, SearchOK, DirKept(disk), UNCHANGED file, pc' # "search", op' # "open",
         disk' = disk \/ LastWrite
  PROVE  DirKept(disk)' /\ SearchOK' /\ FileOK' /\ OpenRight'
  <1>1. SearchOK' /\ OpenRight'
    BY DEF SearchOK, OpenRight
  <1>2. FileOK'
    BY DEF FileOK
  <1>3. CASE disk' = disk
    BY <1>1, <1>2, <1>3 DEF DirKept
  <1>4. CASE LastWrite
    <2>1. /\ pc = "copy" /\ start = end /\ op = "write" /\ DOMAIN disk = Sectors
          /\ start = file.cluster /\ file.cluster \in 2..LastCluster
      BY <1>4 DEF LastWrite, IInv, DiskOK, CallOK, CopyOK
    <2>2. ClusterSector(start) = DataStart + file.cluster - 2
      BY <2>1, ClusterSectorIs
    <2>3. \A s \in Sectors : s # DataStart + file.cluster - 2 => disk'[s] = disk[s]
      BY <1>4, <2>1, <2>2 DEF LastWrite
    <2>4. ASSUME NEW c \in Directories, NEW k \in 1..Len(DirClusters(c))
          PROVE  disk'[DirSectors(c)[k]] = Format[DirSectors(c)[k]]
      BY <2>1, <2>3, DirBehind DEF DirKept
    <2> QED
      BY <1>1, <1>2, <2>4 DEF DirKept
  <1> QED
    BY <1>3, <1>4

\* The invariant of open is inductive.
LEMMA NextOpenInv ==
  ASSUME OpenInv, [Next]_vars
  PROVE  OpenInv'
  <1> USE DEF OpenInv
  <1>1. IInv'
    BY NextIInv
  <1>2. IInv /\ DiskOK /\ FileOK /\ SearchOK /\ DirKept(disk)
    BY DEF IInv
  <1>3. CASE \E p \in Paths : CallOpen(p)
    <2>1. disk' = disk
      BY <1>3 DEF CallOpen
    <2> QED
      BY <1>1, <1>2, <1>3, <2>1, CallOpenStep DEF DirKept
  <1>4. CASE SearchCluster
    <2>1. disk' = disk
      BY <1>4 DEF SearchCluster
    <2> QED
      BY <1>1, <1>2, <1>4, <2>1, SearchClusterStep DEF DirKept
  <1>5. CASE SearchEnd
    <2>1. disk' = disk
      BY <1>5 DEF SearchEnd
    <2> QED
      BY <1>1, <1>2, <1>5, <2>1, SearchEndStep DEF DirKept
  <1>6. CASE \/ \E p \in Positions : setPosition(p)
             \/ \E o \in {"read", "write"} : \E n \in Lengths(o) : CallTransfer(o, n)
    <2>1. /\ UNCHANGED file /\ pc' # "search" /\ op' # "open" /\ disk' = disk
      BY <1>6 DEF setPosition, CallTransfer
    <2> QED
      BY <1>1, <1>2, <2>1, TransferKeeps
  <1>7. CASE SeekStart \/ SeekEnd \/ SeekWrite \/ NextCluster \/ LastRead \/ LastWrite
    <2>1. /\ UNCHANGED file /\ op' = op /\ (disk' = disk \/ LastWrite)
          /\ pc \in {"start", "end", "copy"} /\ pc' \in {"start", "end", "copy", "endless", "idle"}
      BY <1>7 DEF SeekStart, SeekEnd, SeekWrite, NextCluster, LastRead, LastWrite
    <2>2. op \in {"read", "write"}
      BY <2>1 DEF IInv, CallOK
    <2> QED
      BY <1>1, <1>2, <2>1, <2>2, TransferKeeps
  <1>8. CASE UNCHANGED vars
    <2>1. UNCHANGED <<disk, pc, rest, cluster, file, op>>
      BY <1>8 DEF vars, openVars
    <2>2. SearchOK' /\ FileOK' /\ OpenRight' /\ DirKept(disk)'
      BY <1>2, <2>1 DEF SearchOK, Searching, FileOK, OpenRight, DirKept
    <2> QED
      BY <1>1, <2>2
  <1> QED
    BY <1>3, <1>4, <1>5, <1>6, <1>7, <1>8 DEF Next, Step

-----------------------------------------------------------------------------
(* Theorems.                                                               *)

\* A read that begins at the file's first byte or inside of any of its
\* clusters, of any length that they hold, fills the buffer with the bytes
\* that the format says are there, however the file is scattered, and changes
\* nothing.  The code reads other bytes from the start of a later cluster:
\* Positions has none of those.
THEOREM ReadsRight == Spec => []ReadExact
  <1>1. IInv => ReadExact
    BY DEF IInv
  <1> QED
    BY <1>1, SpecIInv, PTL

\* A write that returns has changed the bytes it was to change and nothing
\* else on the disk; one that does not return has changed nothing.
THEOREM WritesRight == Spec => []WriteExact
  <1>1. IInv => WriteExact
    BY DEF IInv
  <1> QED
    BY <1>1, SpecIInv, PTL

\* In a call from the file's first byte or from inside of a cluster, no memcpy
\* leaves the caller's buffer or that of a cluster, which has room for what is
\* read into it, and no cluster of another file is read or written.  It would
\* not be so from the start of a later cluster (Positions), nor for a write
\* of nothing (Lengths).
THEOREM CopiesInBounds == Spec => []InBounds
  <1>1. ASSUME IInv PROVE InBounds
    <2> SUFFICES ASSUME pc = "copy"
                 PROVE  /\ CopyLen >= 0 /\ writePos + CopyLen <= size /\ Offset + CopyLen <= SectorSize
                        /\ SectorSize <= BufferSize
                        /\ \E k \in 1..Len(Ch) : start = Ch[k]
      BY DEF InBounds, Ch
    <2>1. pc \in Under /\ IInv
      BY <1>1 DEF Under
    <2>2. PICK j \in 0..(Len(Ch) - 1), e \in 0..(Len(Ch) - 1) :
             /\ At(j, e) /\ j \in Nat /\ e \in Nat
             /\ writePos \in Nat /\ readPos \in Nat /\ readPos = position + writePos
             /\ j * SectorSize \in Nat /\ (j + 1) * SectorSize = j * SectorSize + SectorSize
             /\ Offset = readPos - j * SectorSize
             /\ CopyLen = IF j = e THEN endPos - readPos ELSE (j + 1) * SectorSize - readPos
      BY <2>1, CopyFacts
    <2>3. /\ position \in Nat /\ size \in Nat /\ endPos = position + size /\ Len(Ch) \in Nat \ {0}
      BY <2>1, UnderFacts
    <2>4. PICK a \in Nat, b \in Nat : a = j * SectorSize /\ b = (j + 1) * SectorSize /\ b = a + SectorSize
      BY <2>2, Products
    <2>5. /\ start = Ch[j + 1] /\ a <= readPos /\ readPos < b /\ readPos <= endPos
          /\ (j = e => endPos <= b) /\ (j # e => b <= endPos)
      <3>1. j # e => j < e /\ e * SectorSize < endPos
        BY <2>2 DEF At
      <3>2. j # e => (j + 1) * SectorSize <= e * SectorSize /\ e * SectorSize \in Nat
        BY <2>2, <3>1, Products
      <3>3. j # e => b <= endPos
        BY <2>3, <2>4, <3>1, <3>2
      <3> QED
        BY <2>2, <2>4, <3>3 DEF At
    <2>6. CopyLen >= 0 /\ writePos + CopyLen <= size
      <3>1. CopyLen = IF j = e THEN endPos - readPos ELSE b - readPos
        BY <2>2, <2>4
      <3>2. CopyLen \in Int /\ CopyLen >= 0 /\ CopyLen <= endPos - readPos
        BY <2>2, <2>3, <2>5, <3>1
      <3> QED
        BY <2>2, <2>3, <3>2
    <2>7. Offset + CopyLen <= SectorSize
      BY <2>2, <2>3, <2>4, <2>5, Geometry
    <2>8. j + 1 \in 1..Len(Ch)
      BY <2>2, <2>3
    <2>9. SectorSize <= BufferSize
      <3>1. CASE op = "read"
        BY <3>1, Geometry DEF BufferSize
      <3>2. CASE op # "read"
        <4>1. PICK n \in Nat \ {0}, x \in Nat : n = size /\ x = n - 1 /\ x + 1 = n
          BY <2>1, <2>3, <3>2 DEF IInv, CallOK, Under
        <4>2. (x + 1) * SectorSize = x * SectorSize + SectorSize /\ x * SectorSize \in Nat
          BY Products
        <4>3. SectorSize * n = n * SectorSize
          BY Geometry
        <4> QED
          BY <3>2, <4>1, <4>2, <4>3, Geometry DEF BufferSize
      <3> QED
        BY <3>1, <3>2
    <2> QED
      BY <2>5, <2>6, <2>7, <2>8, <2>9
  <1> QED
    BY <1>1, SpecIInv, PTL

\* For short names that fit open's buffers (not those of 8 and 2 or 3
\* characters), open finds what the directories on the disk say, at any depth
\* and however their clusters are scattered, whatever has been written to
\* files before: never another file, and the file if there is one, where the
\* directories have an end mark in the first sector that the driver reads.
THEOREM PathsRight == Spec => []OpenRight
  <1>1. Init => OpenInv
    <2> SUFFICES ASSUME Init PROVE OpenInv
      OBVIOUS
    <2>1. disk = Format /\ pc = "idle" /\ op = "none" /\ file.cluster = NotFound
      BY DEF Init
    <2>2. NotFound \notin 2..LastCluster
      BY Geometry, GeometryAssumption DEF NotFound
    <2> QED
      BY <2>1, <2>2, InitIInv DEF OpenInv, DirKept, SearchOK, FileOK, OpenRight
  <1>2. OpenInv => OpenRight
    BY DEF OpenInv
  <1> QED
    BY <1>1, <1>2, NextOpenInv, PTL DEF Spec
=============================================================================
