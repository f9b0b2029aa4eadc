# Verification of FullStackOS

TLA+ modules that model FullStackOS (`kernel/src`, a small 64-bit kernel booted
from UEFI), TLC configurations that check them on small instances, and theorems
that TLAPS proves for every instance.

    tlc -workers 2 -config MCScheduler.cfg MCScheduler      # model-check
    tlapm SchedulerProofs.tla                               # prove

`PROJECT.json` lists the runs, maps each definition to the source lines it
stands for, lists the hazards of the code with the properties that watch them,
and names, for each property, a mutation of the model that breaks it.

## 1. The system

One CPU, one address space layout (everything is identity-mapped), kernel code
only. `kernel_main` initialises the parts in order with interrupts off, turns
them on, and becomes the thread KERNEL.

| part | state | operations | speaks to |
|---|---|---|---|
| scheduler (`Scheduler.cpp`, `PIT.cpp`, `isr_handler`) | the list of threads from `queue`, `running`, `scheduledCounter`, in each thread the saved registers, `asleep`, `sleepTimeout`, `joined`, `joinTarget`, `done` | `schedule` on every tick, `sleep`, `addThread`, the end of a thread by return or by exception | switches directory (MMU) and heap |
| interrupts (`IRQ.cpp`, `IDT.cpp`, `x86-64.asm`) | the handler table; in the two 8259 PICs, requested and in-service lines | `registerIRQHandler`, `irq_handler` | PIT, mouse, keyboard |
| paging (`MMU.cpp`) | page tables in memory, `kernelDirectory`, `currentDirectory` | `mapPage`, `map`, `clone`, `switchDirectory` | scheduler clones one, graphics maps the framebuffer |
| physical memory (`MMU.cpp`) | `blocks` with frame bitmaps, `kmallocAddr` | `initializeMMU`, `reservePage`, `freePage`, `kmallocPage`, `kmalloc`, `kmalloc_a` | all of the kernel allocates here |
| heap (`Heap.cpp`) | a chain of entries in a 64 KiB region, one region per thread | `malloc`, `free`, `split`, `clean` | `operator new` uses `currentHeap` |
| pci (`PCI.cpp`) | `pciDevices` | `initializePCI`, registers of a device | `kernel_main` picks the IDE controllers |
| disk (`IDE.cpp`) | channel and drive tables, `storageDevices`; in the drive, the command block and its data | `IDEDriver()`, `IDEDevice()`, `readSectors`, `writeSectors` | ATA and packet drives on programmed I/O |
| partitions (`Partitions.cpp`) | `fileSystems` | `scanDevice` | reads the first sector of a disk |
| file system (`FAT16.cpp`) | the BPB | `open`, `read`, `write`, `list`, name conversions | the disk |
| input (`Mouse.cpp`, `Keyboard.cpp`) | packet bytes and `mouseCycle`; key states, `shift`, the handler list | interrupt handlers, initialisation | the PS/2 controller, interrupts |
| graphics (`Graphics.cpp`, `Targa.cpp`) | windows with a framebuffer each, two of the screen, the cursor | `graphicsUpdate` in a thread of its own, `generateWindow`, `drawChar`, `initializeCursor` | reads the mouse position; loops over a vector that grows |
| containers (`SmartOS.h`) | `Vector`, a linked list and a length | `push`, `pop`, `operator[]` | read in interrupt handlers |
| boot (`boot/boot.c`) | the firmware's memory, the kernel's image, the screen mode | load the kernel, set the mode, take the map, leave boot services | passes the map to `kernel_main` |
| the rest (`GDT.cpp`, `SmartOS.cpp`, `kernel.cpp`) | tables stored once, debug output | a fixed sequence of initialisations | |

How the parts meet: the timer interrupt may come between any two instructions
of a thread and goes through `irq_handler` into `schedule`, which replaces the
saved registers on the interrupted stack; mouse and keyboard interrupts change
variables that threads read; `operator new` works on the heap of the running
thread without a lock; `addThread`, `Vector::push` and `mapPage` change
structures that an interrupt handler, another thread or the processor walks at
the same time; file reads go down to programmed I/O against a drive that works
in its own time. No code of the repository masks interrupts to protect data, so
that every one of these relies on the order of single stores. The kernel is
compiled without optimisation (`kernel/Makefile`), so that stores stay in the
order of the source, which the models rely on.

What makes each part correct:

| part | hard because | properties |
|---|---|---|
| scheduler | a tick in the middle of `sleep`, `addThread` or `new`; `schedule` loops with interrupts off; the end of a thread by exception | contexts, heaps and directories stay with their threads; the scan ends; no thread is lost or starved; deadlines are kept; each thread seems to have a processor of its own |
| interrupts | two PICs, requests that go away before they are taken, end of interrupt before the handler | no line stays held back; no request of a handled line that stays is lost |
| paging | tables are linked store by store into directories in use; `clone` copies four levels | a walk sees old or new mappings, nothing else; clones share no table |
| physical memory | joining of ranges; an array of blocks that may be too short; bitmaps; `kmalloc` without bounds | what fits are the map; `kmallocPage` gives none of its pages again before it is back, and never the kernel's; the bitmaps are inside of one block |
| heap | sizes that wrap around | memory given is inside of the region and apart |
| boot | the file may lie where the kernel belongs; what is allocated after the map is taken is not in it | the kernel arrives whole; the map keeps its pages from being given away |
| start-up (pci, probe, partitions) | drives that are absent, foreign, slow or failing; channels that float | every drive and partition is found, in order; the probe leaves drives at rest; `kernel_main` gets through |
| disk | status read too early, errors in the middle, limits of address and count, drives addressed by cylinders | the sectors moved are those asked for; driver and drive stay in step; calls return |
| file system | positions at cluster borders, fragmented chains, deleted entries | a file read or written is what the format says; paths find their entries |
| input | answers read by the thread or by the handler | the cursor and the key handlers follow the user; both devices come up |
| graphics | windows are pushed and drawn in, and the mouse moves, in the middle of a frame | the screen settles to what was drawn; writes beyond the buffer are bounded |
| containers | loops in handlers beside `push` | a loop never follows an unwritten pointer |

## 2. Modules

| module | models | composed with |
|---|---|---|
| `Processes` | abstract: threads with a processor each | |
| `Scheduler` | `Scheduler.cpp`, the entry code, `isr_handler`, the use of `currentHeap` in `operator new`; implements `Processes` | `INSTANCE Processes` |
| `SchedulerBounds` | `Scheduler` with a history variable that counts ticks | `EXTENDS Scheduler` |
| `SchedulerProofs` | theorems: safety, the bound on waits, the refinement of `Processes` | `EXTENDS SchedulerBounds` |
| `Interrupts` | `irq_handler` and the two PICs | |
| `AddressSpaces` | abstract: directories as functions from pages to frames | |
| `PageTables` | `mapPage`, `clone`; implements `AddressSpaces` | `INSTANCE AddressSpaces` |
| `PageTableProofs` | theorems: tables apart, the refinement of `AddressSpaces` | `EXTENDS PageTables` |
| `Boot` | `efi_main` up to the kernel's entry | |
| `PhysicalMemory` | `initializeMMU` up to the directory, `kmalloc`, `kmalloc_a`, `kmallocPage`, `reservePage`, `freePage` | `EXTENDS Boot`: the map is the one Boot took |
| `Heap` | `Heap::malloc` and `split` | |
| `MemoryProofs` | theorems about `PhysicalMemory`, `Boot` and `Heap` | `EXTENDS PhysicalMemory, Heap` |
| `PCI` | `initializePCI` and the registers of a device, as operators | |
| `Startup` | the loops of `kernel_main` over controllers and devices, the probe of `IDEDriver` and `IDEDevice`, `scanDevice`, and the drives | `EXTENDS PCI` |
| `IDE` | `readSectors`, `writeSectors`, `poll`, disks and packet devices of a channel | |
| `IDEProofs` | theorems: in step, the sectors moved, the addresses; drives at rest after the probe, the inventory | `EXTENDS IDE, Startup` |
| `FATNames` | `filenameToFAT`, `fatToFilename` | |
| `FAT16` | `open`, `read`, `write`, `setPosition` on a volume | `EXTENDS FATNames` |
| `FAT16Proofs` | theorems: reads, writes, paths, names | `EXTENDS FAT16, MCFATNames` |
| `Vectors` | `Vector::push` beside loops of other threads and of handlers | |
| `Graphics` | `graphicsUpdate`, `generateWindow`, `drawChar`, the cursor, the mouse's position | `EXTENDS Vectors`: the list of windows |
| `GraphicsProofs` | theorems about `Vectors` and `Graphics` | `EXTENDS Graphics` |
| `Input` | `initializeMouse`, `initializeKeyboard`, both handlers, the controller | |
| `InterruptProofs` | theorems about `Input` and `Interrupts` | `EXTENDS Input, Interrupts` |
| `Induction` | lemmas that proofs share: counting, functions computed from their last value, `FlattenSeq` | |

A module `MCx` gives the constants of `x` that a configuration cannot. Operators
named `Definition_Word`, after a comment that begins "Mutant:", are the
mutations that `PROJECT.json` lists: no specification uses them.

### How state and actions correspond to the code

*Scheduler.* A thread's saved registers and stack are a *context*: the thread
whose stack it is, where in the code, and the local variables that matter
(`ms`, the deadline that `sleep` holds before it stores it; `heap`, the heap that
`operator new` has read; `obj` and `at`, the walk of `addThread`). `cpu` is the
context that executes, `state[t]` is `Thread::state`. `Tick` is the whole timer
interrupt: copy the frame to `running->state`, count, walk the ring from
`running` to the first acceptable thread, clearing flags on the way, load its
context, switch directory and heap. It is one action because interrupts are off
in it. Everything else is split at each access to what `schedule` reads.
`sleepTimeout` and `scheduledCounter` appear only as their difference, so that
there is no bound on ticks. `joined` and `joinTarget` are read by `schedule` but
set by no code of the repository: `Join` and `JoinReturn` are the client that the
fields are for, and are marked external.

*Interrupts.* `irr` and `isr` are the request and in-service registers of both
PICs; `Acknowledge`, `SendEOI`, `CallHandler` are the steps of one interrupt.
Between any two, devices raise lines. A request may be gone when the CPU asks, which
the PIC answers with a spurious interrupt (`Spurious`): that of a device without a
handler, and of the lines `Polled`, handled or not, whose byte or status a thread may
read first, as the initialisations of mouse and keyboard do (`Withdraw`). `gone` counts
these, so that `Served` can ask for all the others.

*PageTables.* Memory is a function from addresses of tables to entries; tables
are made one store at a time and the processor's walk, `Translate`, is taken in
every state. Newly allocated memory holds anything until it is cleared.

*Boot.* `memory` is the firmware's list of what each page is used for, `ram` the
contents of memory byte by byte, a byte of the file being known by its place in
the file. Each call of the firmware is a step; one that can fail ends in `Panic`.
The pool that the file is read to, and the one that the map is put in, come from
either end of the free memory. The map is any that `MemoryMaps`
has and that `Describes` the memory: every page in one descriptor, under its type.

*PhysicalMemory.* `FindLargest` is the first loop, `Descriptor` is one round of the second loop of
`initializeMMU`, `Bitmaps` the rest of it up to the directory; frames are the
sets of bits that are set, and a shift by 8 or more falls out of the byte
(`Shifted`). A block that has no entry left in `blocks` is written behind the array:
the model ends there (`Overrun`). `kmalloc` and `kmalloc_a` only move `kmallocAddr` on, behind their block as
well, and mark nothing: `kmallocPage` gives pages that `kmalloc` has used. `MaxAddr`
bounds the exploration, not what they may give.

*Heap.* Entries by address; sizes are taken modulo `Word`, as `size_t` is, and the
subtraction of `split` is the wrong way round as in the code.

*Startup.* A configuration space is a function from bus, slot and function to
bytes. `InitializePCI` fills `pciDevices`, `NewDriver` is one round of the loop of
`kernel_main` over it (`nextDevice` is its `i`), with a look at the class of the device,
and `DriversDone` the end of that loop.
`Identify`, `IsPresent`, `PollIdentify`, `Signature`, `Sleep` and `ReadIdentification` are the
constructor of `IDEDevice` step by step, against drives that answer each command in
their own time; a channel without drives shows nothing, or floats high. The
reading of a sector is one step here (`ReadMBR`), for `IDE` has it in detail. That a
packet device was not ready after the sleep is kept in `late`.

*IDE.* A drive accepts a command, is busy, raises DRQ, fails or ends in its own
time; the driver reads the status between. The registers of the task file are
digits to the base `ByteValues`, so that the 28-bit limit and the reach of a track
are a few sectors away. A drive without LBA counts cylinders by its own `Geometry`, the
driver by a fixed one, with the cylinder in a byte (`Address`, `TaskFile`). CACHE_FLUSH
goes out without a look at BSY, also to a drive that stores the last sector and does
not take it (`CacheFlush`). A packet device takes a command without a look at BSY, and
the driver then waits for an interrupt that has no handler (`ReadPacket`). `wrapped`
remembers a piece of as many sectors as a command can count: it is told to the
drive as 0, moves nothing, and leaves the command open.

*FAT16.* The disk is a function from sectors to entries of the FAT, of a
directory, or to data. One call is a chain of steps (seek to the position, seek
to the end, copy). What the format says the volume holds is defined beside it:
`Chain` and `Bytes` for files, `Lookup` for paths, through directories whose first
clusters are `Directories` (`OpenRight`, `ReadExact`, `WriteExact` compare the two).
`VolumeAssumption` and `DirectoryAssumption` say what makes a disk a volume; TLC
evaluates both on the volume of the run. The root directory of the format has all its
sectors, of which the driver reads the first (`DirSectors`). `BufferSize` is what the
driver allocates to read clusters into, `FilenameBuffers` what the buffer for a name
may hold: memory behind what `memset` fills is that of the stack. `Fits` says which short
names that buffer is long enough for.

*Vectors.* `push` is five stores; each reader has its own index and pointer.

*Graphics.* `phase` and `row` are where `graphicsUpdate` is in a frame: clearing,
copying rows of windows (for each row `operator[]` walks the list of `Vectors`
again), the two loads of the cursor's place, the rows of the cursor, the copy to
the screen. The kernel thread fills and pushes windows and draws glyphs row by row,
the mouse moves by one coordinate at a time. Pixels are numbered as the code
computes their addresses, so that `spill` holds what is written outside. The mode of the screen (`Width`, `Height`) and
what the mouse is kept inside of (`MaxX`, `MaxY`) are constants of their own, for
`boot.c` goes on with another mode when the one that the mouse expects is missing.

*Input.* The initialisations are the sequence `Program`, one step per access to
what is shared with handlers. `coming` are bytes on their way, `buffer` the output
buffer of the controller, `last` what port 0x60 shows when the buffer is empty. The waits
for the controller's input buffer test its bit the wrong way round and wait for nothing;
the model has each command byte arrive, as on a controller that takes a byte before
its status is read again.

## 3. Runs

All runs are exhaustive and end without error.

| run | asks | bounds, and why they are enough |
|---|---|---|
| `scheduler_safety` | safety, waits counted in ticks, and `Scheduler` implements `Processes` | the kernel thread and two workers: one thread that is interrupted, one that runs instead, one that is being linked; sleeps up to 3, so that a deadline can be set, age and pass before it is stored. No bound on ticks |
| `scheduler_live` | starvation, fair refinement | as above, sleeps up to 1, one worker that joins; any thread may fault. The machine stops after a fault of the kernel thread: deadlock is not checked |
| `interrupts` | no line held back, no request lost | lines of both PICs, with and without handlers, twice each: the second request comes during the first. Requests of a line of each PIC that is handled, and of one that is not, may go away |
| `page_tables` | isolation, refinement of `AddressSpaces` | all four levels, two entries each; three pages that share three, one or no tables; two directories |
| `boot_memory` | the kernel arrives, blocks are the map, bitmaps are inside of one, `kmallocPage` gives no page again and none of the kernel's | two machines of 16 and 14 pages and two kernels, the file at either end of the free memory; blocks of 9 pages and more, over the 8 bits of a byte; up to 10 pages held, so that the second byte of a bitmap is reached. Five entries in `blocks`, for which some maps are too long; `kmalloc` up to address 80, past the end of its block. It ends where memory runs out |
| `heap_malloc` | memory apart | a region of 30 with headers of 2: every sequence of calls that fits, until nothing does |
| `startup` | the inventory is right, drives are left at rest, `kernel_main` gets through | one controller with every choice of disks, packet devices, foreign drives and none in four places, floating high or low; or a second controller, on another bus, behind it. It ends when `kernel_main` is up |
| `ide` | the right sectors, in step, every call returns | two drives, the second a disk by cylinders, of the geometry that the driver assumes, or a packet device; two calls; starts next to every border, counts below, at and above the limit of one command. A packet device that is read stops it |
| `fat_names` | names survive both conversions | every name of up to seven characters over two letters and the dot, for a base of three and an extension of two |
| `fat16_files` | paths and data | clusters of three, files of up to three clusters, three calls; a directory of two clusters with deleted entries; names up to the longest that fits, with what the stack held behind it |
| `graphics` | loops beside pushes, bounded writes, the screen settles | a screen of three by three, on which the mouse may go to column three and row four, three windows one over another, a cursor of two by two with a hole, one movement at any point, over any edge |
| `input` | races of the initialisations, then use | both settings the firmware may leave; two movements, three key events |

Symmetry is used for the workers in safety runs only, never with liveness.

### Fairness

- `WF(Tick)`: the PIT is periodic; it cannot interrupt while interrupts are off,
  and then `Tick` is disabled.
- `SF(running = t /\ Progress)`: a thread that gets the CPU again and again
  executes its instructions; a slice is 10 ms, and a step here is a few
  instructions. The steps that a thread *chooses* (`Client`, `CallSleep`) are not fair.
- `Interrupts`: `WF(CPU)`. Nothing makes a device raise its line.
- `IDE`: `WF` of the driver, and of a drive's reaction to a command: it ends, with
  data or with an error. That it ever succeeds is not assumed.
- `Startup`: `WF` of `kernel_main`, and of the drives' answers to commands.
- `FAT16`: `WF` of the call under way.
- `Graphics`: `WF` of `graphicsUpdate` and of what the kernel thread has begun, a push
  or a glyph: `RunsAloneFairly` is what gives each thread its turns. That the
  kernel makes windows, or that the mouse moves, is not assumed.
- `Input`: `WF` of the thread, of each handler, and of the controller passing a
  byte on. The user is not fair.

## 4. What is proved

TLAPS checks every proof; no step is taken on trust.

`SchedulerProofs`, from `ThreadsAssumption`, `MillisAssumption` and `ClientAssumption`
alone, for any number of threads, sleeps of any length and any interleaving, in three
parts. The first: `TypeCorrect`, `SwitchCorrect` (`OnCPU`), `MallocNeedsNoLock`
(`HeapExclusion`), `ScanEnds` (`FindTerminates`), `JoinCorrect` (`JoinSound`) and
`ListGrows` (`NeverUnlinked`). None of these is inductive. The strengthening `IInv` says
of the list that it begins with the kernel thread, has no thread twice and contains
`running` (else the walk of `schedule` could come back to a thread it does not know); of
each linked thread what must be true at its place in the code (`ThreadOK`: the heap it
holds is its own, the object it links is not in the list and untouched, a spinning
waiter's target has ended); of each unlinked one that it has not moved; and
`~done[Kernel]`, which is why the scan ends: the kernel thread is accepted even while it
waits. Each action has a lemma (`TickStep`, `AddLinkStep`, ...); steps that change only
the running thread go through one lemma, `LocalStep`. From the same invariant,
`SlicesUsed` proves the action property `NoWastedSlice`: a tick does not give the CPU to
a thread that would only spin.

The second part, about `SchedulerBounds`: `BoundedWaitCorrect` (`BoundedWait`). The
property is a bound on each thread's wait; what is inductive is its sum with the
way still to go: `WaitPlusDistance` says that the ticks a thread has waited and
its distance from `running` in the ring are together at most the length of the
list. A tick that passes `k` places takes `k >= 1` from the distance and adds one to
the wait (`GapShrinks`), it cannot pass a thread that may run, and `addThread`
lengthens the list by one and no distance by more.

The third part: `Implements` (`RunsAlone`), the safety part of the refinement: each
initial state is one of `Processes`, each step one of its steps or a stutter, under the
mapping that `Scheduler` instantiates it with. `IInv` is not enough for it: `EndOK` says
that the machine only ever halts with interrupts off, in the thread that the CPU
executes, and that a thread that is `done` spins. There is a lemma for each pair of a
step and what it maps to (`SleepMaps`, `StartMaps`, ...); the tick is the hard one, for
it ages all the deadlines, wakes some threads and changes which one runs, and must be
one move or none of each.

`InterruptProofs` has two parts. About `Interrupts`, for any set of handled lines, any
lines whose requests may go away and any number of requests: `NothingHeldBackCorrect`. `InService` says what is
in service between the processor's answer and the end of interrupt: the line, with
the cascade if it comes through the second PIC; nothing, or the cascade alone, if
the interrupt was spurious. `EndsAll` shows that the two writes of `irq_handler` end all
of it. (The module extends `Input` and `Interrupts`, so the formulas of the second
are named `IRQInit`, `IRQNext` and `IRQSpec`.)

About `Input`, from `InputAssumption`, for a screen of any size and any number of
movements and keys, on a controller that every command byte arrives at (section 5): `CursorFollows` (`Follows`) and `KeysAreHeard` (`HearsKeys`).
`Preparing` is what the initialisations need: at each step of `Program` an answer is
under way at most, from the device that was asked, and is gone before the next
question, whether the thread or a handler takes it (`Answers`); so no byte is left
that a handler could take later for a movement, `mouseCycle` is 0 from its reset
on, and no key has been lost before the handler list is there. Afterwards `Waiting`
is what a device has sent and nobody has taken, the byte in the controller's buffer
included. `KeysOK`: what was typed is what was heard, followed by what waits.
`CursorOK`: taken one after the other, the bytes that wait lead from the cursor and
the place in the packet to where the user wants it, at the beginning of a packet
(`Track`). Filling the buffer leaves `Waiting` alone, a handler takes its first byte,
the user appends (`Filled`, `TakenOff`, `SentOn`).

`IDEProofs`, for any set of drives, any widths of the registers, any sectors and any
calls: `StaysInStep` (`InStep`), `SectorsExact` (`Exact`), `WritesConfined`
(`Confined`), `ReadsFlush` (`ReadFlushes`) and `AddressRight`. `InStep` says with which
drives the driver speaks: reads and writes go out when both are at rest, CACHE_FLUSH when
the other drive is and this one is at rest or storing the last sector of a write. What is inductive for the
first is a count: between two sectors the drive has as many left to move as the driver,
plus one if it holds a sector that it has not stored (`MovingOK`); behind the last one
it is at rest, storing that last sector, or flushing (`FlushingOK`). All of it holds as
long as no piece of a call has wrapped to a count of zero, which is the condition of the
properties. `DataInv` adds what the data are: up to the sector the drive is at, the
caller's buffer has what the sectors held when the call began, or the sectors have what
was in the buffer; the word in the drive's register is of that sector (`CarriedOK`); no
other sector differs from what it held (`SectorsOK`). `AddressRight` is arithmetic: what the driver puts in the six registers in 28 or in 48
bits, the drive puts together to the same number, for every sector that 48 bits count; by
cylinder, head and sector, on a drive of the geometry that the driver assumes, it is the
number modulo 256 cylinders (`ByteValues`), since the driver keeps the cylinder in a
byte. `AddressRight` does without `AddressAssumption`, which is a condition of `Exact`
and `Confined` only: calls for a drive without LBA are below 256 cylinders, and the drive has
that geometry. On any other these two are violated (section 5).

About `Startup`, for any configuration space, any drives, and channels that float as they
like: `ProbeLeavesQuiet` (`LeavesQuiet`) and `FindsInventory` (`Inventory`). In
`ProbeInv`, every disk and packet device other than the one being probed is at rest, and
`Progress` says how far that one can have got at each place of the constructor: that the
loop can only be left with data or with an error, and that an error means a packet
device, is what makes the reading that follows take everything.

The inventory rests on `MachineAssumption` besides: a device has a function 0 and a
vendor (`WellFormed`), no two controllers share a port (`OwnPorts`), and a channel that
nobody drives floats to zeros or with its lowest bit set. Neither of its two parts is
inductive. `ScanIs` comes first: whatever the number of buses and slots, the list that
`initializePCI` makes has the functions that answer, each once, in the order of their
numbers. It goes up through the three loops, and each is the same fact about
`FlattenSeq` (`FlattenAscending` of `Induction`): sequences that ascend, each of them
below the next, make one that ascends. So every channel has one place in the walk over
controllers, channels and drives, and every attached drive its `Turn`, a number.
`WalkInv` says where the walk is and that the channels still to probe are the rest of
one controller's; its place, `Limit`, is a number that grows by one with every
constructor that returns (`AdvanceWalk`). `ListInv` says that the list has exactly the
drives whose turn comes before `Limit`, in the order of their turns, each with its
size and type (`Lists`): at the end no turn is left. For a step of it, `AskInv` says
what an answer means: a drive that is read has answered its own command, so that the
size is its own and the type follows from the command; a drive that is absent or
foreign never comes to be read. `MountInv` is the loop over MBRs: in the middle of
device `n`, the file systems are the partitions of the devices before `n`, followed by
those of the entries of its MBR that have been looked at. (The formulas of `Startup` are
named `StartupInit`, `StartupNext` and `StartupSpec`, so that `IDEProofs` can extend
both modules.)

`GraphicsProofs` has two parts. About `Vectors`, for any items, any number of pushes and
of readers: `TypeCorrect` and `LoopsNeedNoLock` (`ReadsRight`): the invariant says how
far the store sequence of `push` has come and that `length` counts complete items only,
and that a reader is never past what it has read `length` to be.

About `Graphics`, for any mode of the screen, the one that the mouse is kept inside of or
another, windows inside of it, any cursor and any movements:
`WindowsNeedNoLock` (`ReadsRight` of the loop of `graphicsUpdate`, whose walks are
the reader steps of `Vectors`, so that the invariant of the first part carries over)
and `DrawingConfined` (`InBuffer`). The invariant adds that the row being copied is
one of the window the reader stands at (`RowOK`) and that the cursor's place was
put together from two coordinates that were each within `MaxX` and `MaxY`, if not at
the same time (`WhereOK`); the rest is that products of the width keep the order of
rows (`Products`, `RowInBuffer`, `IconInBuffer`).

`PageTableProofs`, from `DepthAssumption`, `IndexAssumption`, `VirtAssumption`,
`PageAssumption`, `RightsAssumption` and `FillAssumption`, for any number of levels, any
index set, any memory found at the start and any sequence of `mapPage` and `clone`:
`TablesApart` (`NoSharing`) and `MapsAreIsolated` (`IsolatedSpaces`). `IInv` says that
no two walks, of one directory or of two, come to one table, that every table is one
that was allocated, and where a `mapPage` under way is: at the table to which the
processor would come, with a new table, if there is one, that no walk reaches and that
is empty. Walks are taken through memories that are not the variable (`WalkIn`,
`PathsIn`), so that a lemma can compare the memory before and after a store:
`SteadyWalks` for stores that change no table in use, `Linked` for the store of a
table's address, `Stored` for the last store, `ClonedWalks` for a copy. That the tables
of a copy are apart rests on the order in which `clone` comes to the originals being
total, so that each has its own number (`BeforeOrder`, `Ranked`). For the refinement,
`Seen` is what the processor finds: only `StoreEntry` changes it, for one page of one
directory, a linked table is empty and changes nothing, and a clone finds what its
original does. `MapsAreIsolated` has `Rights = {TRUE}` as its hypothesis: every call of
`mapPage` and `map` in the repository passes MMU_RW (`MMU.cpp:204`, `Graphics.cpp:134`,
and `clone` copies what these have written). A caller that did not would take the right
to write from its neighbours, for the flags go into the tables above the page as well.

`FAT16Proofs`, for any volume of one sector to a cluster: `ReadsRight` (`ReadExact`),
`WritesRight` (`WriteExact`), `CopiesInBounds` (`InBounds`) and `PathsRight` (`OpenRight`);
they are about reads and writes from the first byte of a file or from inside of a cluster
(`Positions`), writes of at least one byte (`Lengths`), and paths of short names that the
buffer of `open` has room for (`Fits`): section 5 says what the code does otherwise.
For short names of any lengths of base and extension, `NameRight` of `filenameToFAT`, and `NamesGivenBack`
(`NamesKept`) of both conversions.
`GeometryAssumption` and `VolumeAssumption` say what a volume is: each cluster has a
sector and an entry of the FAT, and no chain comes back to itself.
`DirectoryAssumption`, which only `PathsRight` needs, says it of directories: no name
twice, nothing but end marks behind an end mark, the end of their chain marked as
such; and of the paths that they go through directories and have short names that fit,
and
that uninitialised memory does not pass for an entry of these names.
`IInv` follows a transfer: in the loops that seek, `clusterIdx` is how far along the
chain `start` and `end` are and not past the position (`Reached`); in the copy `start` is
the cluster of `readPos` and `end` that of the last byte, what is behind `readPos` has
been copied, and a write goes on only inside of the first cluster (`At`, `CopyOK`).
`FATKept`, that a write changes no entry of the FAT, is what keeps the chains what they
were. `ClusterSectorIs` is where the sector of a cluster agrees with the format: one
reserved sector stands for the `- 1` of the code. `OpenInv` adds that directories are as
they were formatted (`DirKept`: files are not in their way), and of a search, that the
sectors it has passed have neither the name nor an end mark (`Passed`) and that it is in
the directory that the names so far lead to (`ResultOK`). `NamesGivenBack` is for any lengths
of base and extension and any set of characters in which names have neither spaces nor
more dots (`LetterAssumption` of `MCFATNames`, the module that types the names): an entry
name is a part without spaces, the spaces, and the same again; what a loop of
`fatToFilename` has copied after `i` characters are the first `i` of the part, or all of
it (`GivenBack`).

`MemoryProofs` has two parts. About `Boot` and `PhysicalMemory`, from `FirmwareAssumption` (memory has finitely many pages, numbered
from 0), `PageAssumption` (a page has a size) and `ImageAssumption` (the segments begin
at a page and do not overlap), for any memory, any kernel, any screen modes and any map
of which `Describes` holds (every page once, with its type): `KernelIsLoaded`
(`Loaded`), `MapIsCovered` (`BlocksAreTheMap`, for any number of entries in `blocks`:
`BlocksAssumption`), `PagesNotAgain` (`NoPageAgain`), `KernelIsKept` (`KernelKept`) and,
with `SizesAssumption`, `BitmapsStayInside` (`BitmapsInside`). They are about what the code
does keep: the pages that `kmallocPage` gave, and the bitmaps. Nothing keeps what
`kmalloc` gave (section 5). `BootInv` says what is in memory at each place of `efi_main`: the
file in pages of type EfiLoaderData, the kernel's pages of type EfiLoaderCode, so that
neither a segment nor what is freed afterwards can touch the other, and the segments
loaded so far. `MMUInv` says that the blocks are the pages of the descriptors looked at
so far, no two sharing a page (`Joined`), and that a held page has its bit set in a
usable block (`Marked`); the rest is that a page of a block has the block's type, and
that the type of the kernel's pages is not usable. The arithmetic of bytes and pages
comes from `NatMin`, the least element of a set of numbers, which stands in for
induction. `KmallocInv` is about where the bitmaps are: `kmallocAddr` begins in the
largest usable range, which lies in one block, and has advanced by the bitmaps first, then
by what `kmalloc` gave, which may be any number of bytes. The bitmaps are `BitmapBytes` long, not more than a byte for each usable
page, so that they fit as soon as one range has that many bytes (`HasRoom`): with 64 GiB
of memory, a range of 16 MiB.

About `Heap`, from `SizeAssumption` (a region has room for a header, and is far smaller
than what `size_t` counts), for any sequence of calls that `HasSpace` allows:
`MallocSucceeds` (`Succeeds`) and `MallocApart` (`Apart`). `split` subtracts the wrong way round, so that the entry at the
end of the list does not know its size: after one split it is below zero and wraps
around, short of `Word` by at least what is left of the region; after the next it is at
least what is left, and so on in turn. `LastOK` says so, which is why a call that fits
is never refused. `RowOK` says that entries follow one another without a gap and that only
the last is free, so that the walk of `malloc` ends there (`FoundLast`); `GivenOK` that
what was given are the entries in use.

Where an argument goes by induction, over the places of a list, the rounds of a loop or
the levels of a walk, `Counting` of `Induction` stands in for it: a set of numbers that
contains 0 and with each number the next one misses none, for there would be a least. Functions that are
computed from their last value (`Chain`, `Lookup`, the loops of the name conversions,
the walk of `malloc`, `FlattenSeq` itself) get their values from `Iteration` or from a
lemma like it (`WalkExists`, `ChainGrows`). The invariants were found with TLC on the
runs' instances before they were proved.

Every safety invariant and every action property of the runs that is about safety is
stated by a theorem, `RunsAlone` (the refinement of `Processes`) and `IsolatedSpaces`
(that of `AddressSpaces`) among them. Only model-checked is liveness, which is outside
of the prover's reach: `RunsAloneFairly`, the fair part of the refinement of
`Processes`, `Returns`, `Ends`, `Served`, `Drained`, `ComesUp` and `Settles`. `TypeOK`
of `Scheduler` and of `Vectors` is proved and is no property of a run; modules whose
types are only a by-product of deeper invariants state none of their own. Definitions
that recurse over data are recursive functions.

## 5. What is not modelled, and what the models leave out

- The decoding of fonts and of Targa images, and `fillRect`, which nothing calls:
  pure functions of file contents. A glyph is a column of `drawChar`.
- `GDT.cpp`, the tables of `IDT.cpp`, `SmartOS.cpp`: stored once, or output only.
- Of `boot/boot.c`: the search for the ACPI table, which the kernel does not read,
  and what `Print` may allocate between the map and `ExitBootServices`, whose
  status is not looked at: the firmware is not part of the repository.
- Which I/O port a register of `IDEChannel` is. On the usual channels the control
  base that the driver uses by default, plus 2, is not the control port.
- Slots from 16 on of a PCI bus, which `initializePCI` never scans: a controller
  there is outside of what `Inventory` promises.
- What follows when a packet device outlasts the sleep of the probe: it may be
  registered as anything, and the properties of `Startup` end there.
- Sectors read after a piece of a call has wrapped to a count of zero: the next
  command is lost to the open one. `Exact`, `InStep` and `Confined` end there,
  `Returns` goes on.
- `Heap::free`, `Heap::clean`, `Vector::pop`, `FAT16::list` and `writeFAT` have no
  caller.
- The SSE registers and the red zone, which the entry code does not save, are
  not part of a context: whether they matter depends on the compiled code.
- What an overrun of `blocks` overwrites is the linker's choice: `PhysicalMemory` ends there.
- A controller of the keyboard that is slower than the CPU: `mouseWaitSignal` and
  `keyWaitSignal` test the bit of the input buffer the wrong way round, so that the next
  byte of a command may overwrite the last. `Input` has every byte arrive.
- Windows that stick out of the screen, and movements of 128 or more, whose sign is in a bit
  that the handler does not look at.

The code fails in some cases that no caller in the repository reaches. Each is in the
model or excluded by a named condition, and is no part of what the properties and
theorems promise; its hazard in `PROJECT.json` says so.

| case | what the code does | in the models |
|---|---|---|
| a page that `kmalloc` uses | no bit is set for it: `kmallocPage` gives it away | happens in `PhysicalMemory`; `NoPageAgain` is about the pages of `kmallocPage` |
| `kmalloc` of more than there is | gives memory behind the largest range and behind its block | happens in `PhysicalMemory`; `BitmapsInside` is about the bitmaps |
| memory so scattered that no usable range has room for the bitmaps | they are written behind the range | outside of `HasRoom` |
| CACHE_FLUSH after a write | is lost to a drive that still stores the last sector | happens in `IDE`; `ReadFlushes` is about the next read |
| a drive without LBA: cylinders above 255, or heads and sectors other than 16 and 63 | another sector is read or written; `AddressRight` says which, for the cylinders | outside of `AddressAssumption` |
| a read or a write from the start of a cluster other than the first | the last `memcpy` gets a length below 0 | outside of `Positions` |
| a write of 0 bytes | reads a cluster into a buffer of no bytes | outside of `Lengths` |
| a write that begins or ends beyond the first cluster | never returns | happens in `FAT16` (`endless`); `WriteExact` says that nothing has changed; excluded from `Ends` |
| short names of 8 and 2 or 8 and 3 characters | 11 characters without the terminator that `filenameToFAT` looks for, 12 with a length of `memset` that wraps | outside of `Fits` |
| entries behind the first sector of the root directory | are not looked at | in `FAT16`; `OpenRight` promises a file only where an end mark is in the first sector read of each directory |
| a file that is not there | `open` gives a `File` all the same, which can be read | its reads are outside of the calls of `FAT16` (`Opened`) |
| a key pressed before the kernel is up | is lost, or taken for an answer | excluded from `Input` |
| a mode smaller than 1920 by 1080 | the cursor is drawn behind the buffer | happens in `Graphics`; `InBuffer` bounds how far |

Nothing in the repository's texts promises these cases, so that none is listed as a finding.

## 6. Plan

Done, in this order: scheduler, paging, disk, file system, heap and containers,
interrupts, physical memory, input, start-up, boot, graphics; and the proofs of
section 4. What is left is a composition of `Interrupts` with `Scheduler`: the end of
interrupt is sent before `schedule` leaves the stack of the interrupted thread.
