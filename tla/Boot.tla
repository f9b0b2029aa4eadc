--------------------------------- MODULE Boot ---------------------------------
(* boot/boot.c: efi_main reads KERNEL.ELF, puts its segments where they are *)
(* linked, sets the screen mode, takes the firmware's memory map and enters *)
(* the kernel with it.  Memory is what the firmware says that each page is *)
(* used for, and what is in it, byte by byte.                              *)
EXTENDS Integers, SequencesExt, FiniteSetsExt

CONSTANTS
  Firmwares,   \* [memory, modes, mode]: at the start, and what it can show
  MemoryMaps(_),   \* the maps that a firmware may make of a memory
  Images,      \* KERNEL.ELF: [size, headers]
  PageSize,    \* EFI_PAGE_SIZE
  TargetMode   \* 1920 x 1080

ASSUME FirmwareAssumption ==
  \A f \in Firmwares : IsFiniteSet(DOMAIN f.memory) /\ DOMAIN f.memory \subseteq Nat
ASSUME PageAssumption == PageSize \in Nat \ {0}

\* As kernel.ld links it: from a page boundary on, no segment over another.
ASSUME ImageAssumption ==
  \A f \in Images :
    LET loads == {h \in Range(f.headers) : h.type = "PT_LOAD"}
        bytes(h) == h.vaddr..(h.vaddr + h.memsz - 1)
    IN /\ f.headers \in Seq([type : STRING, offset : Nat, vaddr : Nat, filesz : Nat, memsz : Nat])
       /\ f.size \in Nat
       /\ loads # {} /\ Min({h.vaddr : h \in loads}) % PageSize = 0
       /\ \A g, h \in loads : g # h => bytes(g) \cap bytes(h) = {}
       /\ \A h \in loads : h.filesz \in 1..h.memsz /\ h.offset + h.filesz <= f.size

VARIABLES
  at,            \* where efi_main is
  firmware, image,
  memory,        \* the type of each page
  ram,           \* address to byte: -1 unknown, n + 1 for byte n of the file
  kernelBuffer,  \* the first page of it
  segment,       \* the header that comes next
  mode,          \* the screen's
  map            \* what LibMemoryMap gave

bootVars == <<at, firmware, image, memory, ram, kernelBuffer, segment, mode, map>>

Free == "EfiConventionalMemory"

PagesFor(bytes) == (bytes + PageSize - 1) \div PageSize

-----------------------------------------------------------------------------
(* The firmware (external).                                                *)

\* Where n free pages in a row begin.
Room(n) == {p \in DOMAIN memory : \A q \in p..(p + n - 1) : q \in DOMAIN memory /\ memory[q] = Free}

Give(p, n, type) == [q \in DOMAIN memory |-> IF q \in p..(p + n - 1) THEN type ELSE memory[q]]

\* A pool comes from one of the ends of the free memory.
PoolPlaces(n) == {p \in Room(n) : \/ \A q \in Room(n) : p <= q
                                  \/ \A q \in Room(n) : q <= p}

\* The pages of a descriptor, by number.
Pages(d) == d.start..(d.start + d.pages - 1)

\* Descriptors may come in any order, and neighbours may be of one type, but
\* together they have every page once, with its type.
Describes(descriptors, mem) ==
  LET D == DOMAIN descriptors IN
  /\ descriptors \in Seq([start : Nat, pages : Nat \ {0}, type : STRING])
  /\ \A a \in D : \A p \in Pages(descriptors[a]) : p \in DOMAIN mem /\ mem[p] = descriptors[a].type
  /\ \A p \in DOMAIN mem : \E a \in D : p \in Pages(descriptors[a])
  /\ \A a, b \in D : a # b => Pages(descriptors[a]) \cap Pages(descriptors[b]) = {}

-----------------------------------------------------------------------------
(* efi_main.                                                               *)

Loads == {h \in Range(image.headers) : h.type = "PT_LOAD"}

lowest  == Min({h.vaddr : h \in Loads})
highest == Max({h.vaddr + h.memsz : h \in Loads})

\* Any call of the firmware up to the map may fail: PANIC ends all.
Panic ==
  /\ at \in {"volume", "allocate", "gop"}
  /\ at' = "panic"
  /\ UNCHANGED <<firmware, image, memory, ram, kernelBuffer, segment, mode, map>>

\* getVolume, Open, getFileSize, AllocatePool, Read and Close.
ReadKernel ==
  /\ at = "volume"
  /\ LET n == PagesFor(image.size) IN
     \E p \in PoolPlaces(n) :
       /\ kernelBuffer' = p
       /\ memory' = Give(p, n, "EfiLoaderData")
       /\ ram' = [a \in DOMAIN ram |-> IF a - p * PageSize \in 0..(image.size - 1)
                                       THEN a - p * PageSize + 1 ELSE ram[a]]
  /\ at' = "allocate"
  /\ UNCHANGED <<firmware, image, segment, mode, map>>

kernelPages == PagesFor(highest - lowest)

\* Mutant: a status that AllocatePages returns is not looked at.
kernelRegion_Unchecked == {lowest \div PageSize}

\* AllocateAddress: there and nowhere else, if all of it is free.
kernelRegion == Room(kernelPages) \cap {lowest \div PageSize}

AllocateKernel ==
  /\ at = "allocate"
  /\ \E p \in kernelRegion : memory' = Give(p, kernelPages, "EfiLoaderCode")
  /\ at' = "load" /\ segment' = 1
  /\ UNCHANGED <<firmware, image, ram, kernelBuffer, mode, map>>

\* memcpy from kernelBuffer, then memset.
SegmentByte(h, k) == IF k < h.filesz THEN ram[kernelBuffer * PageSize + h.offset + k] ELSE 0

LoadSegment ==
  /\ at = "load" /\ segment <= Len(image.headers)
  /\ segment' = segment + 1
  /\ LET h == image.headers[segment] IN
     ram' = IF h.type # "PT_LOAD" THEN ram
            ELSE [a \in DOMAIN ram |-> IF a - h.vaddr \in 0..(h.memsz - 1)
                                       THEN SegmentByte(h, a - h.vaddr) ELSE ram[a]]
  /\ UNCHANGED <<at, firmware, image, memory, kernelBuffer, mode, map>>

FreeBuffer ==
  /\ at = "load" /\ segment > Len(image.headers)
  /\ memory' = Give(kernelBuffer, PagesFor(image.size), Free)
  /\ at' = "gop"
  /\ UNCHANGED <<firmware, image, ram, kernelBuffer, segment, mode, map>>

\* LocateProtocol, QueryMode and SetMode: the first that fits, if there is one.
SetMode ==
  /\ at = "gop"
  /\ mode' = IF TargetMode \in Range(firmware.modes) THEN TargetMode ELSE mode
  /\ at' = "map"
  /\ UNCHANGED <<firmware, image, memory, ram, kernelBuffer, segment, map>>

\* LibMemoryMap allocates the buffer first, so that the map has it.
LibMemoryMap ==
  /\ at = "map"
  /\ \E p \in PoolPlaces(1) : memory' = Give(p, 1, "EfiLoaderData")
  /\ map' \in {m \in MemoryMaps(memory') : Describes(m, memory')}
  /\ at' = "exit"
  /\ UNCHANGED <<firmware, image, ram, kernelBuffer, segment, mode>>

\* ExitBootServices, whose status is not looked at, and kernelMain.
EnterKernel ==
  /\ at = "exit"
  /\ at' = "kernel"
  /\ UNCHANGED <<firmware, image, memory, ram, kernelBuffer, segment, mode, map>>

-----------------------------------------------------------------------------
BootInit ==
  /\ at = "volume"
  /\ firmware \in Firmwares /\ image \in Images
  /\ memory = firmware.memory
  /\ ram = [a \in UNION {(p * PageSize)..(p * PageSize + PageSize - 1) : p \in DOMAIN memory} |-> -1]
  /\ kernelBuffer = 0 /\ segment = 0
  /\ mode = firmware.mode
  /\ map = << >>

BootNext == Panic \/ ReadKernel \/ AllocateKernel \/ LoadSegment \/ FreeBuffer
            \/ SetMode \/ LibMemoryMap \/ EnterKernel

-----------------------------------------------------------------------------
\* Whenever the kernel is entered, each of its segments is in memory as it is
\* linked, byte by byte and zero where the file ends, although the file was
\* read to wherever the firmware had room; and the screen has the mode wanted
\* if it has such a mode at all.
Loaded ==
  at = "kernel" =>
    /\ \A h \in Loads : \A k \in 0..(h.memsz - 1) :
         ram[h.vaddr + k] = IF k < h.filesz THEN h.offset + k + 1 ELSE 0
    /\ mode = TargetMode \/ (mode = firmware.mode /\ TargetMode \notin Range(firmware.modes))
=============================================================================
