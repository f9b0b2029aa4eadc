---------------------------- MODULE PhysicalMemory ---------------------------
(* The physical pages of kernel/src/MMU.cpp, from the map that Boot hands   *)
(* over: initializeMMU copies it into `blocks`, joining neighbours, gives  *)
(* each usable block a bitmap, and reserves the kernel; kmallocPage and     *)
(* freePage work on the bitmaps, kmalloc and kmalloc_a move on from the     *)
(* start of the largest range, and nothing stops them.                     *)
EXTENDS Boot

CONSTANTS
  BlockCount,  \* entries of `blocks`: 64
  Sizes,       \* sizes asked of kmalloc
  MaxHeld,     \* bound on the pages that callers hold
  MaxAddr      \* bound on the exploration: from there on nothing is asked of kmalloc

ASSUME BlocksAssumption == BlockCount \in Nat \ {0}
ASSUME SizesAssumption == Sizes \subseteq Nat

Unusable == {"EfiReservedMemoryType", "EfiLoaderCode", "EfiRuntimeServicesCode",
             "EfiRuntimeServicesData", "EfiUnusableMemory", "EfiACPIMemoryNVS",
             "EfiACPIReclaimMemory", "EfiMemoryMappedIO", "EfiMemoryMappedIOPortSpace",
             "EfiPalCode", "EfiMaxMemoryType"}

\* Mutant: memory of the loader is usable.
isUsable_Loader(type) == type \notin Unusable \ {"EfiLoaderCode"}

isUsable(type) == type \notin Unusable

\* From _kernel_start to _kernel_end, where Boot has put it.
Kernel == (lowest \div PageSize)..((highest - 1) \div PageSize)

VARIABLES
  i,            \* the descriptor that comes next; 0 before initializeMMU; Overrun
  blocks,       \* blocks[1], ... that are present
  frames,       \* for each block the indices of its set bits
  kmallocAddr,
  held          \* for each page, how often callers hold it

mmuVars == <<i, blocks, frames, kmallocAddr, held>>
vars == <<bootVars, mmuVars>>

\* A block is written behind the last entry of `blocks`: over what, is up to
\* the linker, and the model ends.
Overrun == -1

-----------------------------------------------------------------------------
(* initializeMMU.                                                          *)

\* Mutant: what is not usable counts as well.
Largest_Any(m) ==
  Min({a \in 1..Len(m) : \A b \in 1..Len(m) : m[b].pages <= m[a].pages})

\* The first of the largest usable descriptors.
Largest(m) ==
  LET usable == {a \in 1..Len(m) : isUsable(m[a].type)} IN
  Min({a \in usable : \A b \in usable : m[b].pages <= m[a].pages})

\* Mutant: neighbours are joined whatever their types.
Joins_AnyType(d, b) == d.start = b.start + b.pages

Joins(d, b) == d.type = b.type /\ d.start = b.start + b.pages

\* The first of the two loops over the map.
FindLargest ==
  /\ at = "kernel" /\ i = 0
  /\ kmallocAddr' = map[Largest(map)].start * PageSize
  /\ i' = 1
  /\ UNCHANGED <<bootVars, blocks, frames, held>>

Descriptor ==
  /\ i \in 1..Len(map)
  /\ LET k == Len(blocks)
         joins == k # 0 /\ Joins(map[i], blocks[k]) IN
       \/ /\ joins
          /\ blocks' = [blocks EXCEPT ![k].pages = @ + map[i].pages]
          /\ i' = i + 1
       \/ /\ ~joins /\ k < BlockCount
          /\ blocks' = Append(blocks, map[i])
          /\ i' = i + 1
       \/ /\ ~joins /\ k >= BlockCount
          /\ blocks' = blocks
          /\ i' = Overrun
  /\ UNCHANGED <<bootVars, frames, kmallocAddr, held>>

\* The size of the bitmaps of the usable ones of the first k blocks.
BitmapBytes(k) ==
  LET bytes[b \in 0..k] ==
        IF b = 0 THEN 0
        ELSE bytes[b - 1] + IF isUsable(blocks[b].type) THEN (blocks[b].pages + 7) \div 8 ELSE 0
  IN bytes[k]

\* The block that a page is found in: every usable one that contains it.
Containing(p) == {b \in 1..Len(blocks) : isUsable(blocks[b].type) /\ p \in Pages(blocks[b])}

\* 1 << index, in an int, the shift taken modulo 32, and then in a byte: the
\* bit of the page for the first eight of 32 pages, and nothing for others.
Shifted(index) == IF index % 32 < 8 THEN {index} ELSE {}

reservePage(p, f) ==
  [b \in DOMAIN f |-> IF b \in Containing(p) THEN f[b] \cup Shifted(p - blocks[b].start) ELSE f[b]]

freePage(p, f) ==
  [b \in DOMAIN f |-> IF b \in Containing(p) THEN f[b] \ Shifted(p - blocks[b].start) ELSE f[b]]

\* Bitmaps of zeros, then the kernel's pages: reservePage only sets bits.
Bitmaps ==
  /\ i = Len(map) + 1
  /\ kmallocAddr' = kmallocAddr + BitmapBytes(Len(blocks))
  /\ frames' = LET zeros == [b \in 1..Len(blocks) |-> {}]
               IN [b \in 1..Len(blocks) |-> UNION {reservePage(p, zeros)[b] : p \in Kernel}]
  /\ i' = i + 1
  /\ UNCHANGED <<bootVars, blocks, held>>

Ready == i = Len(map) + 2

-----------------------------------------------------------------------------
(* Afterwards.                                                             *)

\* Nothing looks at where the range ends, and no bit is set for its pages.
kmalloc(size) ==
  /\ Ready
  /\ kmallocAddr' = kmallocAddr + size
  /\ UNCHANGED <<bootVars, i, blocks, frames, held>>

kmalloc_a(size) ==
  LET addr == IF kmallocAddr % PageSize # 0
              THEN (kmallocAddr \div PageSize + 1) * PageSize ELSE kmallocAddr IN
  /\ Ready
  /\ kmallocAddr' = addr + size
  /\ UNCHANGED <<bootVars, i, blocks, frames, held>>

\* The indices of a block's pages whose bits are clear.
Clear(b) == (0..(blocks[b].pages - 1)) \ frames[b]

\* Mutant: the bit is found in one byte of the bitmap only.
MarkPage_Shift(b, j) == [frames EXCEPT ![b] = @ \cup Shifted(j)]

MarkPage(b, j) == [frames EXCEPT ![b] = @ \cup {j}]

\* The first page whose bit is clear, or -1 with nothing changed.
kmallocPage ==
  /\ Ready
  /\ \E b \in 1..Len(blocks) :
       /\ isUsable(blocks[b].type)
       /\ \A c \in 1..(b - 1) : isUsable(blocks[c].type) => Clear(c) = {}
       /\ \E j \in Clear(b) :
            /\ \A k \in Clear(b) : j <= k
            /\ frames' = MarkPage(b, j)
            /\ held' = [held EXCEPT ![blocks[b].start + j] = @ + 1]
  /\ UNCHANGED <<bootVars, i, blocks, kmallocAddr>>

\* A caller gives back what it holds.
FreePage(p) ==
  /\ Ready /\ held[p] > 0
  /\ frames' = freePage(p, frames)
  /\ held' = [held EXCEPT ![p] = @ - 1]
  /\ UNCHANGED <<bootVars, i, blocks, kmallocAddr>>

-----------------------------------------------------------------------------
Init ==
  /\ BootInit
  /\ i = 0 /\ blocks = << >> /\ frames = << >>
  /\ kmallocAddr = 0
  /\ held = [p \in DOMAIN memory |-> 0]

Next ==
  \/ BootNext /\ UNCHANGED mmuVars
  \/ FindLargest \/ Descriptor \/ Bitmaps
  \/ kmallocAddr < MaxAddr /\ \E size \in Sizes : kmalloc(size) \/ kmalloc_a(size)
  \/ MapThenSumSet(LAMBDA p : held[p], DOMAIN held) < MaxHeld /\ kmallocPage
  \/ \E p \in DOMAIN held : FreePage(p)

Spec == Init /\ [][Next]_vars

-----------------------------------------------------------------------------
\* A map of no more than BlockCount descriptors fits.  Joined or not, the
\* blocks of any map that fits hold every page of the memory once, under the
\* type that it has when the kernel is entered, and no other page.
BlocksAreTheMap ==
  /\ Len(map) <= BlockCount => i # Overrun
  /\ i > Len(map) =>
       /\ \A p \in DOMAIN memory :
            \E b \in 1..Len(blocks) : /\ p \in Pages(blocks[b]) /\ blocks[b].type = memory[p]
                                      /\ \A c \in 1..Len(blocks) \ {b} : p \notin Pages(blocks[c])
       /\ \A b \in 1..Len(blocks) : Pages(blocks[b]) \subseteq DOMAIN memory

\* kmallocPage gives no page again before it is given back, although freePage
\* looks for the bits of most pages in the wrong place.  It says nothing of
\* the pages that kmalloc uses: they have no bits set, and kmallocPage gives
\* them away.
NoPageAgain == \A p \in DOMAIN held : held[p] <= 1

\* kmallocPage never gives a page of the kernel: reservePage misses most of
\* them, but they are in blocks that kmallocPage passes over.
KernelKept == \A p \in DOMAIN held : held[p] > 0 => p \notin Kernel

\* A usable range, hence the largest, has a byte for each usable page.
HasRoom ==
  \E a \in 1..Len(map) :
    /\ isUsable(map[a].type)
    /\ Cardinality({p \in DOMAIN memory : isUsable(memory[p])}) <= map[a].pages * PageSize

\* Where the bitmaps end: the first of them is at the largest range's start.
BitmapsEnd == map[Largest(map)].start * PageSize + BitmapBytes(Len(blocks))

\* On any machine with room for them, the bitmaps of all blocks are inside of
\* one usable block, also where that joins descriptors, and kmalloc gives
\* nothing that is in front of their end.  What it gives may well be behind
\* the end of the block.
BitmapsInside ==
  Ready /\ HasRoom =>
    /\ BitmapsEnd <= kmallocAddr
    /\ \E b \in 1..Len(blocks) :
         /\ isUsable(blocks[b].type)
         /\ map[Largest(map)].start \in Pages(blocks[b])
         /\ BitmapsEnd <= (blocks[b].start + blocks[b].pages) * PageSize
=============================================================================
