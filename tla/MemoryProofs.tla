----------------------------- MODULE MemoryProofs -----------------------------
(* From efi_main to the last page given away, for any memory, any map of it *)
(* and any kernel: the kernel arrives whole, kmallocPage gives neither its  *)
(* pages away nor any of its own a second time, and the bitmaps stay inside *)
(* of a block.                                                              *)
EXTENDS PhysicalMemory, Heap, Induction

-----------------------------------------------------------------------------
(* Numbers.                                                                *)

\* A set of numbers has a least one: the elements of the sets 0..x are well-founded.
LEMMA NatMin ==
  ASSUME NEW S, S \subseteq Nat, S # {}
  PROVE  Min(S) \in S /\ \A y \in S : Min(S) <= y
  <1> DEFINE T == {0..x : x \in S}
  <1>1. T \subseteq FiniteSubsetsOf(Nat) /\ T # {}
    <2>1. ASSUME NEW x \in S PROVE 0..x \in FiniteSubsetsOf(Nat)
      <3>1. IsFiniteSet(0..x)
        BY FS_Interval
      <3> QED
        BY <3>1 DEF FiniteSubsetsOf
    <2> QED
      BY <2>1
  <1> HIDE DEF T
  <1>2. PICK t \in T : \A u \in T : <<u, t>> \notin StrictSubsetOrdering(Nat)
    BY <1>1, FS_StrictSubsetOrderingWellFounded, WFMin
  <1>3. PICK x \in S : t = 0..x
    BY DEF T
  <1>4. ASSUME NEW y \in S, y < x PROVE FALSE
    <2>1. 0..y \in T
      BY DEF T
    <2>2. 0..y \subseteq 0..x /\ 0..x \subseteq Nat /\ x \in 0..x /\ x \notin 0..y
      BY <1>4
    <2>3. <<0..y, 0..x>> \in StrictSubsetOrdering(Nat)
      BY <2>2 DEF StrictSubsetOrdering
    <2> QED
      BY <1>2, <1>3, <2>1, <2>3
  <1>5. \E z \in S : \A y \in S : z <= y
    BY <1>4
  <1> QED
    BY <1>5 DEF Min

\* Finitely many numbers have a greatest one.
LEMMA SeqMax ==
  ASSUME NEW n \in Nat \ {0}, NEW f, \A k \in 1..n : f[k] \in Int
  PROVE  \E k \in 1..n : \A j \in 1..n : f[j] <= f[k]
  <1> DEFINE Top(m) == \E k \in 1..m : \A j \in 1..m : f[j] <= f[k]
             Bad == {m \in 1..n : ~Top(m)}
  <1>1. ASSUME NEW m \in Bad, \A y \in Bad : m <= y PROVE FALSE
    <2>1. m \in 1..n /\ ~Top(m)
      OBVIOUS
    <2>2. m # 1
      BY <2>1
    <2>3. m - 1 \in 1..n /\ ~(m <= m - 1)
      BY <2>1, <2>2
    <2>4. Top(m - 1)
      BY <1>1, <2>3
    <2>5. PICK k \in 1..(m - 1) : \A j \in 1..(m - 1) : f[j] <= f[k]
      BY <2>4
    <2>6. f[m] \in Int /\ f[k] \in Int /\ \A j \in 1..m : f[j] \in Int
      BY <2>1, <2>5
    <2>7. CASE f[m] <= f[k]
      BY <2>1, <2>5, <2>7
    <2>8. CASE ~(f[m] <= f[k])
      <3>1. \A j \in 1..m : f[j] <= f[m]
        BY <2>1, <2>5, <2>6, <2>8
      <3> QED
        BY <2>1, <3>1
    <2> QED
      BY <2>7, <2>8
  <1>2. Bad \subseteq Nat
    OBVIOUS
  <1> HIDE DEF Bad
  <1>3. Bad = {}
    BY <1>1, <1>2, NatMin
  <1>4. Top(n)
    BY <1>3 DEF Bad
  <1> QED
    BY <1>4

\* Quotient and remainder of an address: the page, and the place in it.
LEMMA Divided ==
  ASSUME NEW a \in Nat
  PROVE  /\ a \div PageSize \in Nat /\ a % PageSize \in 0..(PageSize - 1)
         /\ a = PageSize * (a \div PageSize) + (a % PageSize)
  BY PageAssumption

\* The quotient is the only one that leaves a remainder below PageSize.
LEMMA Division ==
  ASSUME NEW a \in Nat, NEW q \in Nat, NEW r \in 0..(PageSize - 1), a = PageSize * q + r
  PROVE  a \div PageSize = q
  <1> DEFINE d == a \div PageSize
             e == a % PageSize
  <1>1. d \in Nat /\ e \in 0..(PageSize - 1) /\ a = PageSize * d + e
    BY Divided
  <1> HIDE DEF d, e
  <1>2. ASSUME NEW x \in Nat, NEW y \in Nat, x + 1 <= y PROVE PageSize * x + PageSize <= PageSize * y
    BY <1>2, PageAssumption
  <1>3. ~(d + 1 <= q)
    BY <1>1, <1>2, PageAssumption
  <1>4. ~(q + 1 <= d)
    BY <1>1, <1>2, PageAssumption
  <1>5. d = q
    BY <1>1, <1>3, <1>4
  <1> QED
    BY <1>5 DEF d

\* Pages and bytes.
LEMMA DivisionShift ==
  ASSUME NEW b \in Nat, NEW n \in Nat
  PROVE  /\ b * PageSize + n \in Nat
         /\ (b * PageSize + n) \div PageSize = b + n \div PageSize
         /\ (b * PageSize + n) % PageSize = n % PageSize
  <1> DEFINE q == n \div PageSize
             r == n % PageSize
             a == b * PageSize + n
  <1>1. q \in Nat /\ r \in 0..(PageSize - 1) /\ n = PageSize * q + r
    BY Divided
  <1>2. a \in Nat
    BY PageAssumption
  <1> HIDE DEF q, r
  <1>3. a = PageSize * (b + q) + r
    BY <1>1, PageAssumption
  <1> HIDE DEF a
  <1>4. a \div PageSize = b + q
    BY <1>1, <1>2, <1>3, Division
  <1>5. a = PageSize * (a \div PageSize) + (a % PageSize) /\ a % PageSize \in 0..(PageSize - 1)
    BY <1>2, Divided
  <1>6. PageSize * (b + q) \in Nat
    BY <1>1, PageAssumption
  <1>7. a % PageSize = r
    BY <1>1, <1>3, <1>4, <1>5, <1>6
  <1> QED
    BY <1>2, <1>4, <1>7 DEF a, q, r

\* A later byte is in no earlier page.
LEMMA DivisionMonotonic ==
  ASSUME NEW a \in Nat, NEW b \in Nat, a <= b
  PROVE  a \div PageSize <= b \div PageSize
  <1> DEFINE p == a \div PageSize
             q == b \div PageSize
             r == b % PageSize
  <1>1. p \in Nat /\ q \in Nat /\ r \in 0..(PageSize - 1) /\ b = PageSize * q + r
        /\ a >= PageSize * p
    BY Divided, PageAssumption
  <1> HIDE DEF p, q, r
  <1>2. ASSUME q + 1 <= p PROVE FALSE
    <2>1. PageSize * (q + 1) <= PageSize * p
      BY <1>1, <1>2, PageAssumption
    <2>2. PageSize * (q + 1) = PageSize * q + PageSize
      BY <1>1, PageAssumption
    <2> QED
      BY <1>1, <2>1, <2>2, PageAssumption
  <1>3. p <= q
    BY <1>1, <1>2
  <1> QED
    BY <1>3 DEF p, q

\* PagesFor(size) pages hold size bytes.
LEMMA PagesForBytes ==
  ASSUME NEW size \in Nat
  PROVE  /\ PagesFor(size) \in Nat
         /\ \A n \in 0..(size - 1) : n \div PageSize \in 0..(PagesFor(size) - 1)
  <1>1. size + PageSize - 1 \in Nat
    BY PageAssumption
  <1>2. PagesFor(size) \in Nat
    BY <1>1, Divided DEF PagesFor
  <1>3. ASSUME NEW n \in 0..(size - 1) PROVE n \div PageSize \in 0..(PagesFor(size) - 1)
    <2>1. (1 * PageSize + n) \div PageSize = 1 + n \div PageSize /\ n \div PageSize \in Nat
      BY DivisionShift, Divided
    <2>2. 1 * PageSize + n \in Nat /\ 1 * PageSize + n <= size + PageSize - 1
      BY PageAssumption
    <2>3. (1 * PageSize + n) \div PageSize <= PagesFor(size)
      BY <1>1, <2>2, DivisionMonotonic DEF PagesFor
    <2> QED
      BY <1>2, <2>1, <2>3
  <1> QED
    BY <1>2, <1>3

-----------------------------------------------------------------------------
(* The kernel's image.                                                     *)

\* What ImageAssumption says of one kernel.
LEMMA ImageFacts ==
  ASSUME image \in Images
  PROVE  /\ image.size \in Nat
         /\ Len(image.headers) \in Nat
         /\ Loads = {h \in {image.headers[k] : k \in 1..Len(image.headers)} : h.type = "PT_LOAD"}
         /\ \A h \in Loads : /\ h.vaddr \in Nat /\ h.offset \in Nat /\ h.filesz \in Nat /\ h.memsz \in Nat
                             /\ h.filesz \in 1..h.memsz /\ h.offset + h.filesz <= image.size
         /\ \A g, h \in Loads : g # h =>
              (g.vaddr..(g.vaddr + g.memsz - 1)) \cap (h.vaddr..(h.vaddr + h.memsz - 1)) = {}
         /\ Loads # {} /\ lowest % PageSize = 0
  <1>1. Loads = {h \in Range(image.headers) : h.type = "PT_LOAD"}
    BY DEF Loads
  <1>2. /\ image.headers \in Seq([type : STRING, offset : Nat, vaddr : Nat, filesz : Nat, memsz : Nat])
        /\ image.size \in Nat
        /\ Loads # {} /\ Min({h.vaddr : h \in Loads}) % PageSize = 0
        /\ \A g, h \in Loads : g # h =>
             (g.vaddr..(g.vaddr + g.memsz - 1)) \cap (h.vaddr..(h.vaddr + h.memsz - 1)) = {}
        /\ \A h \in Loads : h.filesz \in 1..h.memsz /\ h.offset + h.filesz <= image.size
    BY <1>1, ImageAssumption
  <1>3. /\ Len(image.headers) \in Nat /\ DOMAIN image.headers = 1..Len(image.headers)
        /\ \A k \in 1..Len(image.headers) :
             image.headers[k] \in [type : STRING, offset : Nat, vaddr : Nat, filesz : Nat, memsz : Nat]
    <2> DEFINE Header == [type : STRING, offset : Nat, vaddr : Nat, filesz : Nat, memsz : Nat]
    <2>1. image.headers \in Seq(Header)
      BY <1>2
    <2> HIDE DEF Header
    <2>2. Len(image.headers) \in Nat /\ image.headers \in [1..Len(image.headers) -> Header]
      BY <2>1
    <2> QED
      BY <2>2 DEF Header
  <1>4. Range(image.headers) = {image.headers[k] : k \in 1..Len(image.headers)}
    BY <1>3 DEF Range
  <1>5. \A h \in Loads : h.vaddr \in Nat /\ h.offset \in Nat /\ h.filesz \in Nat /\ h.memsz \in Nat
    <2> TAKE h \in Loads
    <2>1. PICK k \in 1..Len(image.headers) : h = image.headers[k]
      BY <1>1, <1>4
    <2> QED
      BY <1>3, <2>1
  <1> QED
    BY <1>1, <1>2, <1>3, <1>4, <1>5 DEF lowest

\* The segments lie from lowest to highest.
LEMMA ImageBounds ==
  ASSUME image \in Images
  PROVE  /\ lowest \in Nat /\ highest \in Nat /\ lowest < highest
         /\ \A h \in Loads : lowest <= h.vaddr /\ h.vaddr + h.memsz <= highest
  <1> DEFINE starts == {h.vaddr : h \in Loads}
             ends == {h.vaddr + h.memsz : h \in Loads}
             n == Len(image.headers)
             f == [k \in 1..n |-> IF image.headers[k] \in Loads
                                  THEN image.headers[k].vaddr + image.headers[k].memsz ELSE -1]
  <1>1. starts \subseteq Nat /\ starts # {} /\ lowest = Min(starts)
    BY ImageFacts DEF lowest
  <1>2. lowest \in starts /\ \A h \in Loads : lowest <= h.vaddr
    BY <1>1, NatMin
  <1>3. n \in Nat \ {0} /\ Loads = {h \in {image.headers[k] : k \in 1..n} : h.type = "PT_LOAD"}
    BY ImageFacts
  <1>3a. \A h \in Loads : h.vaddr + h.memsz \in Nat
    BY ImageFacts
  <1>4. \A k \in 1..n : f[k] \in Int
    BY <1>3a
  <1>5. PICK k \in 1..n : \A j \in 1..n : f[j] <= f[k]
    <2> HIDE DEF n, f
    <2> QED
      BY <1>3, <1>4, SeqMax
  <1>6. \A h \in Loads : \E j \in 1..n : h = image.headers[j] /\ f[j] = h.vaddr + h.memsz
    BY <1>3
  <1>8. f[k] \in ends
    <2>1. PICK h \in Loads : TRUE
      BY ImageFacts
    <2>2. f[k] >= h.vaddr + h.memsz /\ h.vaddr + h.memsz \in Nat
      BY <1>5, <1>6, <1>3a
    <2>3. image.headers[k] \in Loads
      BY <2>2
    <2> QED
      BY <2>3
  <1>9. \A e \in ends : f[k] >= e
    <2> TAKE e \in ends
    <2>1. PICK h \in Loads : e = h.vaddr + h.memsz
      OBVIOUS
    <2>2. PICK j \in 1..n : f[j] = e
      BY <1>6, <2>1
    <2>3. f[j] <= f[k] /\ f[j] \in Int /\ f[k] \in Int
      BY <1>4, <1>5
    <2> HIDE DEF f
    <2> QED
      BY <2>2, <2>3
  <1> HIDE DEF ends, f
  <1>10. highest = Max(ends)
    BY DEF highest, ends
  <1>11. highest \in ends /\ \A e \in ends : highest >= e
    BY <1>8, <1>9, <1>10 DEF Max
  <1>12. PICK h \in Loads : lowest = h.vaddr
    BY <1>2
  <1>13. h.memsz \in Nat \ {0} /\ h.vaddr \in Nat
    BY ImageFacts
  <1>14. \A g \in Loads : g.vaddr + g.memsz <= highest
    BY <1>11 DEF ends
  <1>15. highest \in Nat
    BY <1>3a, <1>11 DEF ends
  <1> QED
    BY <1>2, <1>12, <1>13, <1>14, <1>15

\* What AllocateKernel asks for is where the kernel is linked.
LEMMA KernelRegion ==
  ASSUME image \in Images
  PROVE  /\ kernelPages \in Nat
         /\ Kernel = (lowest \div PageSize)..(lowest \div PageSize + kernelPages - 1)
         /\ lowest \div PageSize \in Nat
         /\ \A h \in Loads : \A k \in 0..(h.memsz - 1) : (h.vaddr + k) \div PageSize \in Kernel
  <1> DEFINE L == lowest \div PageSize
             size == highest - lowest
  <1>1. lowest \in Nat /\ highest \in Nat /\ size \in Nat \ {0}
    BY ImageBounds
  <1>2. L \in Nat /\ lowest = L * PageSize
    <2>1. L \in Nat /\ lowest = PageSize * L + (lowest % PageSize) /\ lowest % PageSize = 0
      BY <1>1, Divided, ImageFacts
    <2> HIDE DEF L
    <2> QED
      BY <2>1, PageAssumption
  <1>3. kernelPages \in Nat
    BY <1>1, PagesForBytes DEF kernelPages
  <1>4. ASSUME NEW a \in Nat, lowest <= a, a < highest
        PROVE  a \div PageSize = L + (a - lowest) \div PageSize
    <2> HIDE DEF L
    <2> DEFINE n == a - lowest
    <2>1. n \in Nat /\ L * PageSize + n = a
      BY <1>1, <1>2, <1>4, PageAssumption
    <2> HIDE DEF n
    <2>2. a \div PageSize = L + n \div PageSize
      BY <1>2, <2>1, DivisionShift
    <2> QED
      BY <2>2 DEF n
  <1>5. (highest - 1) \div PageSize = L + kernelPages - 1
    <2>1. (highest - 1) \div PageSize = L + (highest - 1 - lowest) \div PageSize
      BY <1>1, <1>4
    <2>2. (highest - 1 - lowest) \div PageSize = kernelPages - 1
      <3> DEFINE n == highest - 1 - lowest
      <3>1. n \in Nat /\ highest - lowest + PageSize - 1 = 1 * PageSize + n
        BY <1>1, PageAssumption
      <3> HIDE DEF n
      <3>2. kernelPages = 1 + n \div PageSize /\ n \div PageSize \in Nat
        BY <3>1, DivisionShift, Divided DEF kernelPages, PagesFor
      <3> QED
        BY <3>2 DEF n
    <2> HIDE DEF L
    <2> QED
      BY <1>2, <1>3, <2>1, <2>2
  <1>6. Kernel = L..(L + kernelPages - 1)
    BY <1>5 DEF Kernel
  <1>7. ASSUME NEW h \in Loads, NEW k \in 0..(h.memsz - 1)
        PROVE  (h.vaddr + k) \div PageSize \in Kernel
    <2>1. h.vaddr \in Nat /\ h.memsz \in Nat /\ lowest <= h.vaddr /\ h.vaddr + h.memsz <= highest
      BY ImageFacts, ImageBounds
    <2>2. PICK a \in Nat : a = h.vaddr + k /\ lowest <= a /\ a <= highest - 1
      BY <1>1, <2>1
    <2>3. L <= a \div PageSize /\ a \div PageSize <= (highest - 1) \div PageSize
      BY <1>1, <2>2, DivisionMonotonic
    <2>4. a \div PageSize \in Nat
      BY Divided
    <2> HIDE DEF L
    <2> QED
      BY <1>2, <1>3, <1>5, <1>6, <2>2, <2>3, <2>4
  <1> QED
    BY <1>2, <1>3, <1>6, <1>7

-----------------------------------------------------------------------------
(* efi_main.                                                               *)

\* A segment is in memory as it is linked.
Placed(h) ==
  \A k \in 0..(h.memsz - 1) : ram[h.vaddr + k] = IF k < h.filesz THEN h.offset + k + 1 ELSE 0

\* The file is in memory, in pages of its own.
BufferOK ==
  /\ kernelBuffer \in Nat
  /\ \A q \in kernelBuffer..(kernelBuffer + PagesFor(image.size) - 1) :
       q \in DOMAIN memory /\ memory[q] = "EfiLoaderData"
  /\ \A n \in 0..(image.size - 1) : ram[kernelBuffer * PageSize + n] = n + 1

\* The kernel's pages are allocated to it.
KernelOK == \A p \in Kernel : p \in DOMAIN memory /\ memory[p] = "EfiLoaderCode"

SegmentsOK(done) ==
  \A k \in 1..Len(image.headers) :
    k \in done /\ image.headers[k].type = "PT_LOAD" => Placed(image.headers[k])

ModeOK == mode = TargetMode \/ (mode = firmware.mode /\ TargetMode \notin Range(firmware.modes))

Allocated == {"load", "gop", "map", "exit", "kernel"}

BootInv ==
  /\ at \in {"volume", "panic", "allocate"} \cup Allocated
  /\ image \in Images
  /\ DOMAIN memory \subseteq Nat
  /\ \A p \in DOMAIN memory, x \in 0..(PageSize - 1) : p * PageSize + x \in DOMAIN ram
  /\ at \in {"allocate", "load"} => BufferOK
  /\ at \in Allocated => KernelOK
  /\ at = "load" => segment \in Nat \ {0} /\ SegmentsOK(1..(segment - 1))
  /\ at \in {"gop", "map", "exit", "kernel"} => SegmentsOK(1..Len(image.headers))
  /\ at \in {"volume", "panic", "allocate", "load", "gop"} => mode = firmware.mode
  /\ at \in {"map", "exit", "kernel"} => ModeOK
  /\ at \in {"exit", "kernel"} => Describes(map, memory)
  /\ at \notin {"exit", "kernel"} => map = << >>

\* Nothing is loaded at the start, and ram has the bytes of all pages.
LEMMA BootInitInv ==
  ASSUME BootInit
  PROVE  BootInv
  <1>1. DOMAIN memory \subseteq Nat
    BY FirmwareAssumption DEF BootInit
  <1>2. ASSUME NEW p \in DOMAIN memory, NEW x \in 0..(PageSize - 1)
        PROVE  p * PageSize + x \in DOMAIN ram
    <2>1. p * PageSize \in Nat
      BY <1>1, PageAssumption
    <2>2. p * PageSize + x \in (p * PageSize)..(p * PageSize + PageSize - 1)
      BY <2>1, PageAssumption
    <2> QED
      BY <2>2 DEF BootInit
  <1> QED
    BY <1>1, <1>2 DEF BootInit, BootInv, Allocated

\* A byte of a page that memory has.
LEMMA ByteInRam ==
  ASSUME BootInv, NEW a \in Nat, a \div PageSize \in DOMAIN memory
  PROVE  a \in DOMAIN ram
  <1> DEFINE p == a \div PageSize
             x == a % PageSize
  <1>1. p \in Nat /\ x \in 0..(PageSize - 1) /\ a = PageSize * p + x
    BY Divided
  <1>2. p * PageSize + x \in DOMAIN ram
    BY <1>1 DEF BootInv
  <1> HIDE DEF p, x
  <1>3. a = p * PageSize + x
    BY <1>1, PageAssumption
  <1> QED
    BY <1>2, <1>3

\* A byte of the file, wherever its buffer begins.
LEMMA ByteOfFile ==
  ASSUME image \in Images, NEW b \in Nat, NEW n \in 0..(image.size - 1)
  PROVE  /\ b * PageSize + n \in Nat
         /\ (b * PageSize + n) \div PageSize \in b..(b + PagesFor(image.size) - 1)
  <1>1. image.size \in Nat
    BY ImageFacts
  <1>2. PagesFor(image.size) \in Nat /\ n \div PageSize \in 0..(PagesFor(image.size) - 1) /\ n \in Nat
    BY <1>1, PagesForBytes
  <1>3. (b * PageSize + n) \div PageSize = b + n \div PageSize /\ b * PageSize + n \in Nat
    BY <1>2, DivisionShift
  <1> QED
    BY <1>2, <1>3

\* A pool is given free pages only.
LEMMA PlacesHaveRoom ==
  ASSUME NEW n, NEW p \in PoolPlaces(n), DOMAIN memory \subseteq Nat
  PROVE  /\ p \in Nat
         /\ \A q \in p..(p + n - 1) : q \in DOMAIN memory /\ memory[q] = Free
  BY DEF PoolPlaces, Room

\* The file arrives whole in pages that become EfiLoaderData.
LEMMA ReadStep ==
  ASSUME BootInv, ReadKernel
  PROVE  BootInv'
  <1> DEFINE n == PagesFor(image.size)
  <1>1. PICK p \in PoolPlaces(n) :
          /\ kernelBuffer' = p
          /\ memory' = Give(p, n, "EfiLoaderData")
          /\ ram' = [a \in DOMAIN ram |-> IF a - p * PageSize \in 0..(image.size - 1)
                                          THEN a - p * PageSize + 1 ELSE ram[a]]
    BY DEF ReadKernel
  <1>2. /\ at = "volume" /\ at' = "allocate" /\ map = << >> /\ mode = firmware.mode
        /\ UNCHANGED <<firmware, image, segment, mode, map>>
    BY DEF ReadKernel, BootInv, Allocated
  <1>3. /\ p \in Nat
        /\ \A q \in p..(p + n - 1) : q \in DOMAIN memory /\ memory[q] = Free
    <2> HIDE DEF n
    <2> QED
      BY PlacesHaveRoom DEF BootInv
  <1>4. image \in Images /\ image.size \in Nat
    BY ImageFacts DEF BootInv
  <1>5. DOMAIN memory' = DOMAIN memory /\ DOMAIN ram' = DOMAIN ram
    BY <1>1 DEF Give
  <1>6. \A q \in p..(p + n - 1) : q \in DOMAIN memory' /\ memory'[q] = "EfiLoaderData"
    BY <1>1, <1>3, <1>5 DEF Give
  <1>7. ASSUME NEW m \in 0..(image.size - 1) PROVE ram'[p * PageSize + m] = m + 1
    <2>1. p * PageSize + m \in Nat /\ (p * PageSize + m) \div PageSize \in p..(p + n - 1)
      BY <1>3, <1>4, ByteOfFile
    <2>2. p * PageSize + m \in DOMAIN ram
      BY <1>3, <2>1, ByteInRam
    <2>3. p * PageSize \in Nat
      BY <1>3, PageAssumption
    <2>4. PICK a : a = p * PageSize + m
      OBVIOUS
    <2>5. PICK z : z = p * PageSize
      OBVIOUS
    <2>6. a - z = m /\ a \in DOMAIN ram
      BY <2>2, <2>3, <2>4, <2>5
    <2>7. ram'[a] = IF a - z \in 0..(image.size - 1) THEN a - z + 1 ELSE ram[a]
      BY <1>1, <2>5, <2>6
    <2>8. ram'[a] = m + 1
      BY <2>6, <2>7
    <2> QED
      BY <2>4, <2>8
  <1>8. BufferOK'
    BY <1>1, <1>2, <1>3, <1>6, <1>7 DEF BufferOK, PagesFor
  <1> QED
    BY <1>2, <1>5, <1>8 DEF BootInv, Allocated

\* The kernel's pages were free, hence not the file's, and become EfiLoaderCode.
LEMMA AllocateStep ==
  ASSUME BootInv, AllocateKernel
  PROVE  BootInv'
  <1>1. PICK p \in kernelRegion : memory' = Give(p, kernelPages, "EfiLoaderCode")
    BY DEF AllocateKernel
  <1>2. /\ at = "allocate" /\ at' = "load" /\ segment' = 1 /\ map = << >> /\ mode = firmware.mode
        /\ UNCHANGED <<firmware, image, ram, kernelBuffer, mode, map>>
    BY DEF AllocateKernel, BootInv, Allocated
  <1>3. image \in Images /\ image.size \in Nat
    BY ImageFacts DEF BootInv
  <1>4. Kernel = p..(p + kernelPages - 1) /\ Kernel' = Kernel
    <2>1. p = lowest \div PageSize
      BY DEF kernelRegion
    <2> QED
      BY <1>2, <1>3, <2>1, KernelRegion DEF Kernel, lowest, highest, Loads
  <1>5. \A q \in Kernel : q \in DOMAIN memory /\ memory[q] = Free
    BY <1>4 DEF kernelRegion, Room
  <1>6. DOMAIN memory' = DOMAIN memory
        /\ \A q \in DOMAIN memory : memory'[q] = IF q \in Kernel THEN "EfiLoaderCode" ELSE memory[q]
    BY <1>1, <1>4 DEF Give
  <1>7. KernelOK'
    BY <1>4, <1>5, <1>6 DEF KernelOK
  <1>8. BufferOK'
    BY <1>2, <1>5, <1>6 DEF BootInv, BufferOK, PagesFor, Free
  <1>9. SegmentsOK(1..(segment - 1))'
    BY <1>2 DEF SegmentsOK
  <1> QED
    BY <1>2, <1>6, <1>7, <1>8, <1>9 DEF BootInv, Allocated

\* A segment goes to the kernel's pages, where the file cannot be, and over
\* no other segment.
LEMMA LoadStep ==
  ASSUME BootInv, LoadSegment
  PROVE  BootInv'
  <1> DEFINE h == image.headers[segment]
             n == Len(image.headers)
  <1>1. /\ at = "load" /\ at' = "load" /\ segment \in 1..n /\ segment' = segment + 1
        /\ BufferOK /\ KernelOK /\ map = << >> /\ mode = firmware.mode /\ SegmentsOK(1..(segment - 1))
        /\ UNCHANGED <<firmware, image, memory, kernelBuffer, mode, map>>
    BY ImageFacts DEF LoadSegment, BootInv, Allocated
  <1>2. image \in Images /\ n \in Nat /\ image.size \in Nat
    BY ImageFacts DEF BootInv
  <1>3. KernelOK'
    BY <1>1 DEF KernelOK, Kernel, lowest, highest, Loads
  <1>4. CASE h.type # "PT_LOAD"
    <2>1. ram' = ram
      BY <1>4 DEF LoadSegment
    <2>2. BufferOK'
      BY <1>1, <2>1 DEF BufferOK, PagesFor
    <2>3. SegmentsOK(1..(segment - 1))'
      <3> SUFFICES ASSUME NEW k \in 1..n, k \in 1..segment, image.headers[k].type = "PT_LOAD"
                   PROVE  Placed(image.headers[k])'
        BY <1>1, <1>2 DEF SegmentsOK
      <3>1. k \in 1..(segment - 1)
        BY <1>1, <1>4
      <3>2. Placed(image.headers[k])
        BY <1>1, <3>1 DEF SegmentsOK
      <3> QED
        BY <1>1, <2>1, <3>2 DEF Placed
    <2> QED
      BY <1>1, <1>3, <2>1, <2>2, <2>3 DEF BootInv, Allocated
  <1>5. CASE h.type = "PT_LOAD"
    <2>1. PICK b \in Nat : b = kernelBuffer
      BY <1>1 DEF BufferOK
    <2>2. ram' = [a \in DOMAIN ram |-> IF a - h.vaddr \in 0..(h.memsz - 1)
                                       THEN SegmentByte(h, a - h.vaddr) ELSE ram[a]]
      BY <1>5 DEF LoadSegment
    <2>3. h \in Loads
      BY <1>1, <1>2, <1>5, ImageFacts
    <2>4. /\ h.vaddr \in Nat /\ h.offset \in Nat /\ h.filesz \in Nat /\ h.memsz \in Nat
          /\ h.offset + h.filesz <= image.size
      BY <1>2, <2>3, ImageFacts
    <2>5. ASSUME NEW g \in Loads, NEW k \in 0..(g.memsz - 1)
          PROVE  /\ g.vaddr \in Nat /\ g.memsz \in Nat /\ g.vaddr + k \in DOMAIN ram
                 /\ (g.vaddr + k) \div PageSize \in Kernel
      <3>1. g.vaddr \in Nat /\ g.memsz \in Nat /\ (g.vaddr + k) \div PageSize \in Kernel
        BY <1>2, ImageFacts, KernelRegion
      <3>2. g.vaddr + k \in Nat /\ (g.vaddr + k) \div PageSize \in DOMAIN memory
        BY <1>1, <3>1 DEF KernelOK
      <3> QED
        BY <3>1, <3>2, ByteInRam
    <2>6. \A m \in 0..(image.size - 1) : /\ ram[b * PageSize + m] = m + 1
                                         /\ ram'[b * PageSize + m] = m + 1
      <3> TAKE m \in 0..(image.size - 1)
      <3>1. PICK a \in Nat : a = b * PageSize + m /\ a \div PageSize \in b..(b + PagesFor(image.size) - 1)
        BY <1>2, ByteOfFile
      <3>2. ram[a] = m + 1
        BY <1>1, <2>1, <3>1 DEF BufferOK
      <3>3. a \div PageSize \in DOMAIN memory /\ memory[a \div PageSize] = "EfiLoaderData"
        BY <1>1, <2>1, <3>1 DEF BufferOK
      <3>4. a \in DOMAIN ram
        BY <3>3, ByteInRam
      <3>5. a - h.vaddr \notin 0..(h.memsz - 1)
        <4> SUFFICES ASSUME a - h.vaddr \in 0..(h.memsz - 1) PROVE FALSE
          OBVIOUS
        <4>1. PICK k \in 0..(h.memsz - 1) : a = h.vaddr + k
          BY <2>4
        <4>2. a \div PageSize \in Kernel
          BY <2>3, <2>5, <4>1
        <4> QED
          BY <1>1, <3>3, <4>2 DEF KernelOK
      <3>6. ram'[a] = ram[a]
        BY <2>2, <3>4, <3>5
      <3> QED
        BY <3>1, <3>2, <3>6
    <2>7. BufferOK'
      BY <1>1, <2>1, <2>6 DEF BufferOK, PagesFor
    <2>8. \A k \in 0..(h.memsz - 1) : ram'[h.vaddr + k] = IF k < h.filesz THEN h.offset + k + 1 ELSE 0
      <3> TAKE k \in 0..(h.memsz - 1)
      <3>1. PICK a : a = h.vaddr + k
        OBVIOUS
      <3>2. a \in DOMAIN ram /\ a - h.vaddr = k
        BY <2>3, <2>4, <2>5, <3>1
      <3>3. ram'[a] = SegmentByte(h, k)
        BY <2>2, <3>2
      <3>4. CASE k < h.filesz
        <4>1. PICK m : m = h.offset + k
          OBVIOUS
        <4>2. m \in 0..(image.size - 1)
          <5>1. k \in Nat
            BY <2>4
          <5> HIDE DEF h
          <5> QED
            BY <1>2, <2>4, <3>4, <4>1, <5>1
        <4>3. SegmentByte(h, k) = ram[b * PageSize + h.offset + k]
          BY <2>1, <3>4 DEF SegmentByte
        <4>4. b * PageSize + h.offset + k = b * PageSize + m
          <5>1. b * PageSize \in Nat
            BY PageAssumption
          <5> QED
            BY <2>4, <4>1, <5>1
        <4> QED
          BY <2>6, <3>1, <3>3, <3>4, <4>1, <4>2, <4>3, <4>4
      <3>5. CASE ~(k < h.filesz)
        BY <3>1, <3>3, <3>5 DEF SegmentByte
      <3> QED
        BY <3>4, <3>5
    <2>9. ASSUME NEW g \in Loads, g # h, Placed(g)
          PROVE  \A k \in 0..(g.memsz - 1) : ram'[g.vaddr + k] = IF k < g.filesz THEN g.offset + k + 1 ELSE 0
      <3> TAKE k \in 0..(g.memsz - 1)
      <3>1. PICK a : a = g.vaddr + k
        OBVIOUS
      <3>2. a \in DOMAIN ram /\ g.vaddr \in Nat /\ g.memsz \in Nat
        BY <2>5, <3>1
      <3>3. a \in g.vaddr..(g.vaddr + g.memsz - 1)
        BY <3>1, <3>2
      <3>4. a \notin h.vaddr..(h.vaddr + h.memsz - 1)
        BY <1>2, <2>3, <2>9, <3>3, ImageFacts
      <3>5. a - h.vaddr \notin 0..(h.memsz - 1)
        BY <2>4, <3>2, <3>3, <3>4
      <3>6. ram'[a] = ram[a]
        BY <2>2, <3>2, <3>5
      <3> QED
        BY <2>9, <3>1, <3>6 DEF Placed
    <2>10. SegmentsOK(1..(segment - 1))'
      <3> SUFFICES ASSUME NEW k \in 1..n, k \in 1..segment, image.headers[k].type = "PT_LOAD"
                   PROVE  Placed(image.headers[k])'
        BY <1>1, <1>2 DEF SegmentsOK
      <3>1. PICK g : g = image.headers[k]
        OBVIOUS
      <3>2. g \in Loads
        BY <1>2, <3>1, ImageFacts
      <3>3. g = h \/ Placed(g)
        <4>1. CASE k = segment
          BY <3>1, <4>1
        <4>2. CASE k # segment
          <5>1. k \in 1..(segment - 1)
            BY <1>1, <4>2
          <5> QED
            BY <1>1, <3>1, <5>1 DEF SegmentsOK
        <4> QED
          BY <4>1, <4>2
      <3>4. \A x \in 0..(g.memsz - 1) :
              ram'[g.vaddr + x] = IF x < g.filesz THEN g.offset + x + 1 ELSE 0
        BY <2>8, <2>9, <3>2, <3>3
      <3> QED
        BY <1>1, <3>1, <3>4 DEF Placed
    <2> QED
      BY <1>1, <1>3, <2>2, <2>7, <2>10 DEF BootInv, Allocated
  <1> QED
    BY <1>4, <1>5

\* The file's pages are of data, the kernel's are of code.
LEMMA FreeBufferStep ==
  ASSUME BootInv, FreeBuffer
  PROVE  BootInv'
  <1>1. /\ at = "load" /\ at' = "gop" /\ segment > Len(image.headers) /\ segment \in Nat
        /\ KernelOK /\ BufferOK /\ SegmentsOK(1..(segment - 1)) /\ map = << >> /\ mode = firmware.mode
        /\ UNCHANGED <<firmware, image, ram, kernelBuffer, segment, mode, map>>
    BY DEF FreeBuffer, BootInv, Allocated
  <1>2. image \in Images /\ Len(image.headers) \in Nat
    BY ImageFacts DEF BootInv
  <1>3. DOMAIN memory' = DOMAIN memory
        /\ \A q \in DOMAIN memory :
             memory'[q] = IF q \in kernelBuffer..(kernelBuffer + PagesFor(image.size) - 1) THEN Free ELSE memory[q]
    BY DEF FreeBuffer, Give
  <1>4. KernelOK'
    <2>1. Kernel' = Kernel
      BY <1>1 DEF Kernel, lowest, highest, Loads
    <2> QED
      BY <1>1, <1>3, <2>1 DEF KernelOK, BufferOK
  <1>5. SegmentsOK(1..Len(image.headers))'
    <2>1. 1..Len(image.headers) \subseteq 1..(segment - 1)
      BY <1>1, <1>2
    <2> QED
      BY <1>1, <2>1 DEF SegmentsOK, Placed
  <1> QED
    BY <1>1, <1>3, <1>4, <1>5 DEF BootInv, Allocated

\* The mode wanted is set if it is listed.
LEMMA SetModeStep ==
  ASSUME BootInv, SetMode
  PROVE  BootInv'
  <1>1. /\ at = "gop" /\ at' = "map" /\ map = << >> /\ mode = firmware.mode
        /\ mode' = IF TargetMode \in Range(firmware.modes) THEN TargetMode ELSE mode
        /\ KernelOK /\ SegmentsOK(1..Len(image.headers))
        /\ UNCHANGED <<firmware, image, memory, ram, kernelBuffer, segment, map>>
    BY DEF SetMode, BootInv, Allocated
  <1>2. KernelOK'
    BY <1>1 DEF KernelOK, Kernel, lowest, highest, Loads
  <1>3. SegmentsOK(1..Len(image.headers))'
    BY <1>1 DEF SegmentsOK, Placed
  <1>4. ModeOK'
    BY <1>1 DEF ModeOK
  <1> QED
    BY <1>1, <1>2, <1>3, <1>4 DEF BootInv, Allocated

\* The map's own page was free, hence not the kernel's.
LEMMA LibMemoryMapStep ==
  ASSUME BootInv, LibMemoryMap
  PROVE  BootInv'
  <1>1. /\ at = "map" /\ at' = "exit" /\ Describes(map', memory')
        /\ KernelOK /\ SegmentsOK(1..Len(image.headers)) /\ ModeOK
        /\ UNCHANGED <<firmware, image, ram, kernelBuffer, segment, mode>>
    BY DEF LibMemoryMap, BootInv, Allocated
  <1>2. PICK p \in PoolPlaces(1) : memory' = Give(p, 1, "EfiLoaderData")
    BY DEF LibMemoryMap
  <1>3. p \in Nat /\ memory[p] = Free
    BY <1>2, PlacesHaveRoom DEF BootInv
  <1>4. DOMAIN memory' = DOMAIN memory
        /\ \A q \in DOMAIN memory : q \in Nat /\ (memory'[q] = IF q = p THEN "EfiLoaderData" ELSE memory[q])
    BY <1>2, <1>3 DEF Give, BootInv
  <1>5. KernelOK'
    <2>1. Kernel' = Kernel
      BY <1>1 DEF Kernel, lowest, highest, Loads
    <2> QED
      BY <1>1, <1>3, <1>4, <2>1 DEF KernelOK, Free
  <1>6. SegmentsOK(1..Len(image.headers))' /\ ModeOK'
    BY <1>1 DEF SegmentsOK, Placed, ModeOK
  <1> QED
    BY <1>1, <1>4, <1>5, <1>6 DEF BootInv, Allocated

\* The rest changes at most where efi_main is.
LEMMA BootRestStep ==
  ASSUME BootInv, UNCHANGED <<firmware, image, memory, ram, kernelBuffer, segment, mode, map>>,
         at' = at \/ Panic \/ EnterKernel
  PROVE  BootInv'
  <1>1. /\ BufferOK' <=> BufferOK
        /\ KernelOK' <=> KernelOK
        /\ ModeOK' <=> ModeOK
        /\ Describes(map, memory)' <=> Describes(map, memory)
    BY DEF BufferOK, PagesFor, KernelOK, Kernel, lowest, highest, Loads, ModeOK, Describes
  <1>2. SegmentsOK(1..(segment - 1)) => SegmentsOK(1..(segment - 1))'
    BY DEF SegmentsOK, Placed
  <1>3. SegmentsOK(1..Len(image.headers)) => SegmentsOK(1..Len(image.headers))'
    BY DEF SegmentsOK, Placed
  <1>4. Panic => at \in {"volume", "allocate", "gop"} /\ at' = "panic"
    BY DEF Panic
  <1>5. EnterKernel => at = "exit" /\ at' = "kernel"
    BY DEF EnterKernel
  <1> QED
    BY <1>1, <1>2, <1>3, <1>4, <1>5 DEF BootInv, Allocated

\* All steps of efi_main.
LEMMA BootStep ==
  ASSUME BootInv, BootNext \/ UNCHANGED bootVars
  PROVE  BootInv'
  <1>1. CASE Panic
    BY <1>1, BootRestStep DEF Panic
  <1>2. CASE EnterKernel
    BY <1>2, BootRestStep DEF EnterKernel
  <1>3. CASE UNCHANGED bootVars
    BY <1>3, BootRestStep DEF bootVars
  <1> QED
    BY <1>1, <1>2, <1>3, ReadStep, AllocateStep, LoadStep, FreeBufferStep, SetModeStep,
       LibMemoryMapStep DEF BootNext

\* No call of the firmware adds a page or takes one away, and no step of
\* efi_main comes after the kernel is entered.
LEMMA BootKeeps ==
  ASSUME BootNext
  PROVE  at # "kernel" /\ DOMAIN memory' = DOMAIN memory
  BY DEF BootNext, Panic, ReadKernel, AllocateKernel, LoadSegment, FreeBuffer, SetMode,
     LibMemoryMap, EnterKernel, Give

-----------------------------------------------------------------------------
(* The kernel's memory manager.                                            *)

\* The blocks are the descriptors that were looked at, and no two share pages.
Joined ==
  /\ blocks \in Seq([start : Nat, pages : Nat \ {0}, type : STRING])
  /\ \A b \in 1..Len(blocks) : \A p \in Pages(blocks[b]) :
       \E a \in 1..Len(map) : a < i /\ p \in Pages(map[a]) /\ map[a].type = blocks[b].type
  /\ \A a \in 1..Len(map) : \A p \in Pages(map[a]) :
       a < i => \E b \in 1..Len(blocks) : p \in Pages(blocks[b])
  /\ \A b, c \in 1..Len(blocks) : b # c => Pages(blocks[b]) \cap Pages(blocks[c]) = {}

\* A held page has its bit set, in a usable block.
Marked ==
  /\ DOMAIN frames = 1..Len(blocks)
  /\ \A p \in DOMAIN held : held[p] = 1 =>
       \E b \in 1..Len(blocks) : /\ isUsable(blocks[b].type) /\ p \in Pages(blocks[b])
                                 /\ p - blocks[b].start \in frames[b]

\* As long as the blocks fit, there are not more than descriptors looked at.
MMUInv ==
  /\ i \in 0..(Len(map) + 2) \cup {Overrun}
  /\ i # 0 => at = "kernel"
  /\ i = 0 => blocks = << >>
  /\ i # Overrun => Joined /\ (i = 0 \/ Len(blocks) < i)
  /\ Len(map) <= BlockCount => i # Overrun
  /\ held \in [DOMAIN memory -> {0, 1}]
  /\ ~Ready => \A p \in DOMAIN held : held[p] = 0
  /\ Ready => Marked

\* The map is a sequence of descriptors at any time.
LEMMA MapIsSeq ==
  ASSUME BootInv
  PROVE  map \in Seq([start : Nat, pages : Nat \ {0}, type : STRING]) /\ Len(map) \in Nat
  <1>1. CASE at \in {"exit", "kernel"}
    BY <1>1 DEF BootInv, Describes
  <1>2. CASE at \notin {"exit", "kernel"}
    BY <1>2 DEF BootInv
  <1> QED
    BY <1>1, <1>2

\* No block, and no page held.
LEMMA MMUInitInv ==
  ASSUME Init
  PROVE  MMUInv
  <1>1. Len(map) = 0 /\ i = 0 /\ blocks = << >> /\ held = [p \in DOMAIN memory |-> 0]
    BY DEF Init, BootInit
  <1> QED
    BY <1>1 DEF MMUInv, Joined, Ready, Overrun

\* Before the kernel is entered, nothing of it is there.
LEMMA MMUBootStep ==
  ASSUME BootInv, MMUInv, BootInv', BootNext, UNCHANGED mmuVars
  PROVE  MMUInv'
  <1>1. i = 0 /\ blocks = << >> /\ DOMAIN memory' = DOMAIN memory
    BY BootKeeps DEF MMUInv
  <1>2. i' = 0 /\ blocks' = << >> /\ held' = held
    BY <1>1 DEF mmuVars
  <1>3. Len(map) \in Nat
    BY MapIsSeq
  <1>4. Len(map') \in Nat
    <2>1. CASE at' \in {"exit", "kernel"}
      BY <2>1 DEF BootInv, Describes
    <2>2. CASE at' \notin {"exit", "kernel"}
      BY <2>2 DEF BootInv
    <2> QED
      BY <2>1, <2>2
  <1>5. Joined'
    BY <1>2, <1>4 DEF Joined
  <1>6. ~Ready /\ ~Ready'
    BY <1>1, <1>2, <1>3, <1>4 DEF Ready
  <1> QED
    BY <1>1, <1>2, <1>4, <1>5, <1>6 DEF MMUInv, Overrun

\* The first loop over the map changes no block.
LEMMA FindLargestStep ==
  ASSUME BootInv, MMUInv, FindLargest
  PROVE  MMUInv'
  <1>1. i = 0 /\ i' = 1 /\ at = "kernel" /\ blocks = << >> /\ UNCHANGED <<bootVars, blocks, held>>
    BY DEF FindLargest, MMUInv
  <1>2. Len(map) \in Nat
    BY MapIsSeq
  <1>3. UNCHANGED <<at, map, memory>>
    BY <1>1 DEF bootVars
  <1>4. Joined'
    BY <1>1, <1>2, <1>3 DEF Joined
  <1>5. ~Ready
    BY <1>1, <1>2 DEF Ready
  <1>6. ~Ready'
    BY <1>1, <1>2, <1>3 DEF Ready
  <1>7. Len(blocks') < i' /\ i' # Overrun /\ i' \in 0..(Len(map') + 2)
    BY <1>1, <1>2, <1>3 DEF Overrun
  <1> QED
    BY <1>1, <1>2, <1>3, <1>4, <1>5, <1>6, <1>7 DEF MMUInv

\* A step gives block k, which may be new, the pages of the next descriptor.
Gains(k) ==
  /\ \A b \in 1..Len(blocks) : b \in 1..Len(blocks')
  /\ \A b \in 1..Len(blocks') : b # k => b \in 1..Len(blocks) /\ blocks'[b] = blocks[b]
  /\ blocks'[k].type = map[i].type
  /\ k \in 1..Len(blocks) => blocks[k].type = map[i].type
  /\ Pages(blocks'[k]) = Pages(map[i]) \cup (IF k \in 1..Len(blocks) THEN Pages(blocks[k]) ELSE {})

\* The new descriptor is appended, or the last block grows by its pages.
LEMMA DescriptorBlock ==
  ASSUME BootInv, MMUInv, Descriptor, i' # Overrun
  PROVE  /\ i' = i + 1 /\ Len(blocks') < i'
         /\ blocks' \in Seq([start : Nat, pages : Nat \ {0}, type : STRING])
         /\ \E k \in 1..Len(blocks') : Gains(k)
  <1> DEFINE D == [start : Nat, pages : Nat \ {0}, type : STRING]
  <1>0. i \in 1..Len(map) /\ i \in Nat /\ i # 0 /\ i # Overrun /\ Joined /\ Len(blocks) < i
    <2>1. i \in 1..Len(map) /\ Len(map) \in Nat
      BY MapIsSeq DEF Descriptor
    <2>2. i # 0 /\ i # Overrun /\ i \in Nat
      BY <2>1 DEF Overrun
    <2> QED
      BY <2>1, <2>2 DEF MMUInv
  <1>1. PICK n \in Nat : n = Len(blocks)
    BY <1>0 DEF Joined
  <1>2. map \in Seq(D) /\ i \in 1..Len(map) /\ blocks \in Seq(D)
    BY <1>0, MapIsSeq DEF Joined
  <1>3. PICK d \in D : d = map[i]
    <2> HIDE DEF D
    <2> QED
      BY <1>2
  <1>4. d.start \in Nat /\ d.pages \in Nat \ {0}
    OBVIOUS
  <1>5. CASE n # 0 /\ Joins(d, blocks[n])
    <2>1. n \in 1..n
      BY <1>5
    <2>2. PICK e \in D : e = blocks[n]
      <3> HIDE DEF D
      <3> QED
        BY <1>1, <1>2, <2>1
    <2>3. e.start \in Nat /\ e.pages \in Nat \ {0} /\ e.type \in STRING
      OBVIOUS
    <2>4. d.start = e.start + e.pages /\ d.type = e.type
      BY <1>5, <2>2 DEF Joins
    <2>5. PICK c : c = [start |-> e.start, pages |-> e.pages + d.pages, type |-> e.type]
      OBVIOUS
    <2>6. e.pages + d.pages \in Nat \ {0}
      BY <1>4, <2>3
    <2>7. c \in D /\ c.start = e.start /\ c.pages = e.pages + d.pages /\ c.type = e.type
      BY <2>3, <2>5, <2>6
    <2>8. blocks' = [blocks EXCEPT ![n].pages = blocks[n].pages + d.pages] /\ i' = i + 1
      BY <1>1, <1>3, <1>5 DEF Descriptor
    <2>9. [e EXCEPT !.pages = e.pages + d.pages] = c
      BY <2>5
    <2>10. blocks' = [blocks EXCEPT ![n] = c]
      BY <2>2, <2>8, <2>9
    <2>11. /\ blocks' \in Seq(D) /\ Len(blocks') = n /\ blocks'[n] = c
           /\ \A b \in 1..n : b # n => blocks'[b] = blocks[b]
      <3> HIDE DEF D
      <3> QED
        BY <1>1, <1>2, <2>1, <2>7, <2>10
    <2>12. Pages(c) = Pages(d) \cup Pages(e)
      <3>1. PICK x \in Nat, y \in Nat, z \in Nat : x = e.start /\ y = e.pages /\ z = d.pages
        BY <1>4, <2>3
      <3>2. x..(x + (y + z) - 1) = (x + y)..(x + y + z - 1) \cup x..(x + y - 1)
        OBVIOUS
      <3> QED
        BY <2>4, <2>7, <3>1, <3>2 DEF Pages
    <2>13. Gains(n)
      <3> HIDE DEF D
      <3> QED
        BY <1>1, <1>3, <2>1, <2>2, <2>4, <2>7, <2>11, <2>12 DEF Gains
    <2>14. Len(blocks') < i'
      BY <1>0, <1>1, <2>8, <2>11
    <2> QED
      BY <2>1, <2>8, <2>11, <2>13, <2>14
  <1>6. CASE ~(n # 0 /\ Joins(d, blocks[n]))
    <2>1. blocks' = Append(blocks, d) /\ i' = i + 1
      BY <1>1, <1>3, <1>6 DEF Descriptor
    <2>2. PICK k \in Nat : k = n + 1
      OBVIOUS
    <2>3. /\ blocks' \in Seq(D) /\ Len(blocks') = k /\ blocks'[k] = d
          /\ \A b \in 1..n : blocks'[b] = blocks[b]
      <3> HIDE DEF D
      <3> QED
        BY <1>1, <1>2, <1>3, <2>1, <2>2
    <2>4. k \in 1..k /\ k \notin 1..n /\ (\A b \in 1..k : b # k => b \in 1..n) /\ \A b \in 1..n : b \in 1..k
      BY <2>2
    <2>5. Gains(k)
      <3> HIDE DEF D
      <3> QED
        BY <1>1, <1>3, <2>3, <2>4 DEF Gains
    <2>6. Len(blocks') < i'
      BY <1>0, <1>1, <2>1, <2>2, <2>3
    <2> QED
      BY <2>1, <2>3, <2>4, <2>5, <2>6
  <1> QED
    BY <1>5, <1>6

\* The blocks overrun only if there are more descriptors than entries.
LEMMA OverrunStep ==
  ASSUME BootInv, MMUInv, Descriptor, i' = Overrun
  PROVE  MMUInv'
  <1>1. i \in 1..Len(map) /\ Len(map) \in Nat /\ UNCHANGED <<at, map, memory, held>>
    BY MapIsSeq DEF Descriptor, bootVars
  <1>2. i # 0 /\ i # Overrun /\ i \in Nat
    BY <1>1 DEF Overrun
  <1>3. Joined /\ Len(blocks) < i /\ at = "kernel" /\ held \in [DOMAIN memory -> {0, 1}]
    BY <1>2 DEF MMUInv
  <1>4. Len(blocks) \in Nat
    BY <1>3 DEF Joined
  <1>5. Len(blocks) >= BlockCount
    <2>1. i + 1 # Overrun
      BY <1>2 DEF Overrun
    <2> QED
      BY <2>1 DEF Descriptor
  <1>6. ~(Len(map) <= BlockCount)
    BY <1>1, <1>3, <1>4, <1>5, BlocksAssumption
  <1>7. ~Ready /\ ~Ready'
    BY <1>1 DEF Ready, Overrun
  <1>8. i' # 0
    BY DEF Overrun
  <1> QED
    BY <1>1, <1>3, <1>6, <1>7, <1>8 DEF MMUInv

\* No block had a page of the new descriptor, for no other descriptor has one.
LEMMA DescriptorStep ==
  ASSUME BootInv, MMUInv, Descriptor, i' # Overrun
  PROVE  MMUInv'
  <1>1. /\ i \in 1..Len(map) /\ i' = i + 1 /\ at = "kernel" /\ Joined
        /\ UNCHANGED <<at, map, memory, held>>
    <2>1. i \in 1..Len(map) /\ Len(map) \in Nat /\ UNCHANGED <<at, map, memory, held>>
      BY MapIsSeq DEF Descriptor, bootVars
    <2>2. i # 0 /\ i # Overrun
      BY <2>1 DEF Overrun
    <2>3. i' = i + 1
      BY DescriptorBlock
    <2> QED
      BY <2>1, <2>2, <2>3 DEF MMUInv
  <1>2. Len(map) \in Nat
    BY MapIsSeq
  <1>3. \A a, b \in 1..Len(map) : a # b => Pages(map[a]) \cap Pages(map[b]) = {}
    <2>1. DOMAIN map = 1..Len(map)
      BY MapIsSeq
    <2> QED
      BY <1>1, <2>1 DEF BootInv, Describes
  <1>4. blocks' \in Seq([start : Nat, pages : Nat \ {0}, type : STRING])
    BY DescriptorBlock
  <1>5. PICK k \in 1..Len(blocks') :
          /\ \A b \in 1..Len(blocks) : b \in 1..Len(blocks')
          /\ \A b \in 1..Len(blocks') : b # k => b \in 1..Len(blocks) /\ blocks'[b] = blocks[b]
          /\ blocks'[k].type = map[i].type
          /\ k \in 1..Len(blocks) => blocks[k].type = map[i].type
          /\ Pages(blocks'[k]) = Pages(map[i]) \cup (IF k \in 1..Len(blocks) THEN Pages(blocks[k]) ELSE {})
    BY DescriptorBlock DEF Gains
  <1>6. ASSUME NEW b \in 1..Len(blocks'), NEW p \in Pages(blocks'[b])
        PROVE  \E a \in 1..Len(map) : a < i' /\ p \in Pages(map[a]) /\ map[a].type = blocks'[b].type
    <2>1. CASE b \in 1..Len(blocks) /\ p \in Pages(blocks[b])
      <3>1. PICK a \in 1..Len(map) : a < i /\ p \in Pages(map[a]) /\ map[a].type = blocks[b].type
        BY <1>1, <2>1 DEF Joined
      <3>2. blocks'[b].type = blocks[b].type /\ a < i'
        BY <1>1, <1>2, <1>5, <2>1, <3>1
      <3> QED
        BY <3>1, <3>2
    <2>2. CASE b = k /\ p \in Pages(map[i])
      <3>1. i < i'
        BY <1>1, <1>2
      <3> QED
        BY <1>1, <1>5, <2>2, <3>1
    <2> QED
      BY <1>5, <1>6, <2>1, <2>2
  <1>7. ASSUME NEW a \in 1..Len(map), NEW p \in Pages(map[a]), a < i'
        PROVE  \E b \in 1..Len(blocks') : p \in Pages(blocks'[b])
    <2>1. CASE a = i
      BY <1>5, <1>7, <2>1
    <2>2. CASE a # i
      <3>1. a < i
        BY <1>1, <1>2, <1>7, <2>2
      <3>2. PICK b \in 1..Len(blocks) : p \in Pages(blocks[b])
        BY <1>1, <1>7, <3>1 DEF Joined
      <3> QED
        BY <1>5, <3>2
    <2> QED
      BY <2>1, <2>2
  <1>8. ASSUME NEW b \in 1..Len(blocks), NEW p \in Pages(blocks[b])
        PROVE  p \notin Pages(map[i])
    <2>1. PICK a \in 1..Len(map) : a < i /\ p \in Pages(map[a])
      BY <1>1, <1>8 DEF Joined
    <2>2. a # i
      BY <1>1, <1>2, <2>1
    <2> QED
      BY <1>1, <1>3, <2>1, <2>2
  <1>9. ASSUME NEW b \in 1..Len(blocks'), NEW c \in 1..Len(blocks'), b # c,
               NEW p \in Pages(blocks'[b]), p \in Pages(blocks'[c])
        PROVE  FALSE
    <2>1. ASSUME NEW x \in 1..Len(blocks), NEW y \in 1..Len(blocks), x # y, p \in Pages(blocks[x]),
                 p \in Pages(blocks[y])
          PROVE  FALSE
      BY <1>1, <2>1 DEF Joined
    <2>2. ASSUME NEW x \in 1..Len(blocks'), x # k, p \in Pages(blocks'[x]), p \in Pages(blocks'[k])
          PROVE  FALSE
      <3>1. x \in 1..Len(blocks) /\ p \in Pages(blocks[x])
        BY <1>5, <2>2
      <3>2. p \notin Pages(map[i])
        BY <1>8, <3>1
      <3>3. k \in 1..Len(blocks) /\ p \in Pages(blocks[k])
        BY <1>5, <2>2, <3>2
      <3> QED
        BY <2>1, <2>2, <3>1, <3>3
    <2>3. CASE b # k /\ c # k
      BY <1>5, <1>9, <2>1, <2>3
    <2> QED
      BY <1>9, <2>2, <2>3
  <1>10. Joined'
    <2>1. \A b, c \in 1..Len(blocks') : b # c => Pages(blocks'[b]) \cap Pages(blocks'[c]) = {}
      BY <1>9
    <2>2. \A b \in 1..Len(blocks') : \A p \in Pages(blocks'[b]) :
            \E a \in 1..Len(map') : a < i' /\ p \in Pages(map'[a]) /\ map'[a].type = blocks'[b].type
      BY <1>1, <1>6
    <2>3. \A a \in 1..Len(map') : \A p \in Pages(map'[a]) :
            a < i' => \E b \in 1..Len(blocks') : p \in Pages(blocks'[b])
      BY <1>1, <1>7
    <2> QED
      BY <1>4, <2>1, <2>2, <2>3, Zenon DEF Joined
  <1>11. ~Ready
    BY <1>1, <1>2 DEF Ready
  <1>12. ~Ready'
    BY <1>1, <1>2 DEF Ready
  <1>13. i' \in 0..(Len(map') + 2) /\ i' # 0 /\ Len(blocks') < i'
    BY <1>1, <1>2, DescriptorBlock
  <1> QED
    BY <1>1, <1>10, <1>11, <1>12, <1>13 DEF MMUInv

\* The numbers of a block.
LEMMA BlockNumbers ==
  ASSUME Joined, NEW b \in 1..Len(blocks)
  PROVE  blocks[b].start \in Nat /\ blocks[b].pages \in Nat
  <1> DEFINE D == [start : Nat, pages : Nat \ {0}, type : STRING]
  <1>1. blocks \in Seq(D)
    BY DEF Joined
  <1>2. PICK d \in D : d = blocks[b]
    <2> HIDE DEF D
    <2> QED
      BY <1>1
  <1> QED
    BY <1>2

\* The blocks stay when more or less descriptors than there are were looked at.
LEMMA JoinedKept ==
  ASSUME Joined, UNCHANGED <<map, blocks>>, \A a \in 1..Len(map) : a < i <=> a < i'
  PROVE  Joined'
  <1>1. map' = map /\ blocks' = blocks
    OBVIOUS
  <1>2. blocks' \in Seq([start : Nat, pages : Nat \ {0}, type : STRING])
    BY <1>1 DEF Joined
  <1>3. \A b \in 1..Len(blocks') : \A p \in Pages(blocks'[b]) :
          \E a \in 1..Len(map') : a < i' /\ p \in Pages(map'[a]) /\ map'[a].type = blocks'[b].type
    BY <1>1 DEF Joined
  <1>4. \A a \in 1..Len(map') : \A p \in Pages(map'[a]) :
          a < i' => \E b \in 1..Len(blocks') : p \in Pages(blocks'[b])
    BY <1>1 DEF Joined
  <1>5. \A b, c \in 1..Len(blocks') : b # c => Pages(blocks'[b]) \cap Pages(blocks'[c]) = {}
    BY <1>1 DEF Joined
  <1> QED
    BY <1>2, <1>3, <1>4, <1>5, Zenon DEF Joined

\* Nobody holds a page when the bitmaps are made.
LEMMA BitmapsStep ==
  ASSUME BootInv, MMUInv, Bitmaps
  PROVE  MMUInv'
  <1>1. /\ i = Len(map) + 1 /\ i' = Len(map) + 2 /\ at = "kernel" /\ Joined /\ Len(blocks) < i
        /\ UNCHANGED <<at, map, memory, blocks, held>> /\ Len(map) \in Nat
    <2>1. /\ i = Len(map) + 1 /\ i' = Len(map) + 2 /\ Len(map) \in Nat
          /\ UNCHANGED <<at, map, memory, blocks, held>>
      BY MapIsSeq DEF Bitmaps, bootVars
    <2>2. i # 0 /\ i # Overrun
      BY <2>1 DEF Overrun
    <2> QED
      BY <2>1, <2>2 DEF MMUInv
  <1>2. ~Ready
    BY <1>1 DEF Ready
  <1>3. \A p \in DOMAIN held : held[p] = 0
    BY <1>2 DEF MMUInv
  <1>4. DOMAIN frames' = 1..Len(blocks)
    BY DEF Bitmaps
  <1>5. Marked'
    BY <1>1, <1>3, <1>4 DEF Marked
  <1>6. Joined'
    <2>1. \A a \in 1..Len(map) : a < i /\ a < i'
      BY <1>1
    <2> QED
      BY <1>1, <2>1, JoinedKept
  <1>7. Ready'
    BY <1>1 DEF Ready
  <1>8. i' \in 0..(Len(map) + 2) /\ i' # 0 /\ i' # Overrun /\ Len(blocks') < i'
    <2>1. Len(blocks) \in Nat
      BY <1>1 DEF Joined
    <2> QED
      BY <1>1, <2>1 DEF Overrun
  <1> QED
    BY <1>1, <1>5, <1>6, <1>7, <1>8 DEF MMUInv

\* What leaves the blocks and the pages alone: kmalloc, and efi_main's end.
LEMMA MMURestStep ==
  ASSUME MMUInv, UNCHANGED <<bootVars, i, blocks, frames, held>>
  PROVE  MMUInv'
  <1>1. UNCHANGED <<at, map, memory, i, blocks, frames, held>>
    BY DEF bootVars
  <1>2. Joined => Joined'
    BY <1>1, JoinedKept
  <1>3. Marked => Marked'
    BY <1>1 DEF Marked
  <1>4. Ready' <=> Ready
    BY <1>1 DEF Ready
  <1> QED
    BY <1>1, <1>2, <1>3, <1>4 DEF MMUInv

\* A page of a block is one of the memory, under the block's type.
LEMMA PageOfBlock ==
  ASSUME BootInv, MMUInv, i # 0, i # Overrun, NEW b \in 1..Len(blocks), NEW p \in Pages(blocks[b])
  PROVE  p \in DOMAIN memory /\ memory[p] = blocks[b].type
  <1>1. Describes(map, memory) /\ DOMAIN map = 1..Len(map)
    BY MapIsSeq DEF BootInv, MMUInv
  <1>2. PICK a \in 1..Len(map) : p \in Pages(map[a]) /\ map[a].type = blocks[b].type
    BY DEF MMUInv, Joined
  <1> QED
    BY <1>1, <1>2 DEF Describes

\* The page has a bit that was clear, so that nobody holds it: the bit of a
\* held page is set, and no other block has the page.
LEMMA kmallocPageStep ==
  ASSUME BootInv, MMUInv, kmallocPage
  PROVE  MMUInv'
  <1>0. PICK b \in 1..Len(blocks) : \E j \in Clear(b) :
          /\ isUsable(blocks[b].type)
          /\ frames' = MarkPage(b, j)
          /\ held' = [held EXCEPT ![blocks[b].start + j] = held[blocks[b].start + j] + 1]
    BY DEF kmallocPage
  <1>1. PICK j \in Clear(b) :
          /\ isUsable(blocks[b].type)
          /\ frames' = MarkPage(b, j)
          /\ held' = [held EXCEPT ![blocks[b].start + j] = held[blocks[b].start + j] + 1]
    BY <1>0
  <1>2. /\ Ready /\ Ready' /\ i # 0 /\ i # Overrun /\ Joined /\ Joined' /\ Marked
        /\ UNCHANGED <<at, map, memory, i, blocks>>
    <2>1. Ready /\ UNCHANGED <<at, map, memory, i, blocks>>
      BY DEF kmallocPage, bootVars
    <2>2. i # 0 /\ i # Overrun
      BY <2>1, MapIsSeq DEF Ready, Overrun
    <2>3. Joined /\ Marked /\ Ready'
      BY <2>1, <2>2 DEF MMUInv, Ready
    <2> QED
      BY <2>1, <2>2, <2>3, JoinedKept
  <1>3. PICK s \in Nat : s = blocks[b].start
    BY <1>2, BlockNumbers
  <1>4. j \in 0..(blocks[b].pages - 1) /\ j \notin frames[b] /\ blocks[b].pages \in Nat
    BY <1>2, BlockNumbers DEF Clear
  <1>5. PICK q \in Nat : q = s + j
    BY <1>3, <1>4
  <1>6. q \in Pages(blocks[b]) /\ q - s = j
    <2>1. PICK n \in Nat : n = blocks[b].pages
      BY <1>4
    <2>2. j \in 0..(n - 1)
      BY <1>4, <2>1
    <2>3. q \in s..(s + n - 1) /\ q - s = j
      BY <1>5, <2>2
    <2> QED
      BY <1>3, <2>1, <2>3 DEF Pages
  <1>7. q \in DOMAIN held /\ held[q] \in {0, 1} /\ DOMAIN held = DOMAIN memory
    BY <1>2, <1>6, PageOfBlock DEF MMUInv
  <1>8. held[q] = 0
    <2> SUFFICES ASSUME held[q] = 1 PROVE FALSE
      BY <1>7
    <2>1. PICK c \in 1..Len(blocks) : q \in Pages(blocks[c]) /\ q - blocks[c].start \in frames[c]
      BY <1>2, <1>7 DEF Marked
    <2>2. c = b
      BY <1>2, <1>6, <2>1 DEF Joined
    <2> QED
      BY <1>3, <1>4, <1>6, <2>1, <2>2
  <1>9. held' = [held EXCEPT ![q] = 1]
    BY <1>1, <1>3, <1>5, <1>8
  <1>10. held' \in [DOMAIN memory -> {0, 1}]
    BY <1>7, <1>9 DEF MMUInv
  <1>11. /\ DOMAIN frames' = DOMAIN frames
         /\ j \in frames'[b]
         /\ \A c \in DOMAIN frames : frames[c] \subseteq frames'[c]
    BY <1>1, <1>2 DEF MarkPage, Marked
  <1>12. Marked'
    <2>1. ASSUME NEW p \in DOMAIN held', held'[p] = 1
          PROVE  \E c \in 1..Len(blocks) : /\ isUsable(blocks[c].type) /\ p \in Pages(blocks[c])
                                           /\ p - blocks[c].start \in frames'[c]
      <3>1. CASE p = q
        BY <1>1, <1>3, <1>6, <1>11, <3>1
      <3>2. CASE p # q
        <4>1. p \in DOMAIN held /\ held[p] = 1
          BY <1>9, <2>1, <3>2
        <4>2. PICK c \in 1..Len(blocks) : /\ isUsable(blocks[c].type) /\ p \in Pages(blocks[c])
                                          /\ p - blocks[c].start \in frames[c]
          BY <1>2, <4>1 DEF Marked
        <4>3. frames[c] \subseteq frames'[c]
          BY <1>2, <1>11 DEF Marked
        <4> QED
          BY <4>2, <4>3
      <3> QED
        BY <3>1, <3>2
    <2>2. DOMAIN frames' = 1..Len(blocks')
      BY <1>2, <1>11 DEF Marked
    <2> QED
      BY <1>2, <2>1, <2>2 DEF Marked
  <1> QED
    BY <1>2, <1>10, <1>12 DEF MMUInv

\* Whatever bits it clears, none is that of another page.
LEMMA FreePageStep ==
  ASSUME BootInv, MMUInv, NEW q \in DOMAIN held, FreePage(q)
  PROVE  MMUInv'
  <1>1. /\ held[q] > 0 /\ frames' = freePage(q, frames)
        /\ held' = [held EXCEPT ![q] = held[q] - 1]
    BY DEF FreePage
  <1>2. /\ Ready /\ Ready' /\ i # 0 /\ i # Overrun /\ Joined /\ Joined' /\ Marked
        /\ UNCHANGED <<at, map, memory, i, blocks>>
    <2>1. Ready /\ UNCHANGED <<at, map, memory, i, blocks>>
      BY DEF FreePage, bootVars
    <2>2. i # 0 /\ i # Overrun
      BY <2>1, MapIsSeq DEF Ready, Overrun
    <2>3. Joined /\ Marked /\ Ready'
      BY <2>1, <2>2 DEF MMUInv, Ready
    <2> QED
      BY <2>1, <2>2, <2>3, JoinedKept
  <1>3. held[q] = 1 /\ DOMAIN held = DOMAIN memory /\ q \in Nat
    <2>1. held[q] \in {0, 1} /\ DOMAIN held = DOMAIN memory
      BY DEF MMUInv
    <2> QED
      BY <1>1, <2>1 DEF BootInv
  <1>4. held' = [held EXCEPT ![q] = 0]
    BY <1>1, <1>3
  <1>5. held' \in [DOMAIN memory -> {0, 1}]
    BY <1>4 DEF MMUInv
  <1>6. ASSUME NEW p \in DOMAIN held', held'[p] = 1
        PROVE  \E c \in 1..Len(blocks) : /\ isUsable(blocks[c].type) /\ p \in Pages(blocks[c])
                                         /\ p - blocks[c].start \in frames'[c]
    <2>1. p \in DOMAIN held /\ held[p] = 1 /\ p # q /\ p \in Nat
      BY <1>3, <1>4, <1>6 DEF BootInv
    <2>2. PICK c \in 1..Len(blocks) : /\ isUsable(blocks[c].type) /\ p \in Pages(blocks[c])
                                      /\ p - blocks[c].start \in frames[c]
      BY <1>2, <2>1 DEF Marked
    <2>3. PICK s \in Nat : s = blocks[c].start
      BY <1>2, BlockNumbers
    <2>4. p - s # q - s
      BY <1>3, <2>1
    <2>5. frames[c] \ {q - s} \subseteq frames'[c]
      BY <1>1, <1>2, <2>3 DEF freePage, Shifted, Marked
    <2> QED
      BY <2>2, <2>3, <2>4, <2>5
  <1>7. DOMAIN frames' = 1..Len(blocks')
    BY <1>1, <1>2 DEF freePage, Marked
  <1>8. Marked'
    BY <1>2, <1>6, <1>7 DEF Marked
  <1> QED
    BY <1>2, <1>5, <1>8 DEF MMUInv

-----------------------------------------------------------------------------
(* All steps.                                                              *)

\* All steps.
LEMMA StepInv ==
  ASSUME BootInv, MMUInv, [Next]_vars
  PROVE  BootInv' /\ MMUInv'
  <1>1. CASE BootNext /\ UNCHANGED mmuVars
    BY <1>1, BootStep, MMUBootStep
  <1>2. CASE UNCHANGED bootVars
    <2>1. BootInv'
      BY <1>2, BootStep
    <2>2. (\E size \in Sizes : kmalloc(size) \/ kmalloc_a(size)) => UNCHANGED <<bootVars, i, blocks, frames, held>>
      BY DEF kmalloc, kmalloc_a
    <2>3. UNCHANGED vars => UNCHANGED <<bootVars, i, blocks, frames, held>>
      BY DEF vars, mmuVars
    <2>4. CASE UNCHANGED mmuVars
      BY <1>2, <2>1, <2>4, MMURestStep DEF mmuVars
    <2>5. ~UNCHANGED mmuVars /\ ~UNCHANGED vars =>
            \/ FindLargest \/ Descriptor \/ Bitmaps
            \/ \E size \in Sizes : kmalloc(size) \/ kmalloc_a(size)
            \/ kmallocPage
            \/ \E p \in DOMAIN held : FreePage(p)
      BY DEF Next
    <2>6. UNCHANGED vars => UNCHANGED mmuVars
      BY DEF vars
    <2> QED
      BY <2>1, <2>2, <2>4, <2>5, <2>6, MMURestStep, FindLargestStep, DescriptorStep, OverrunStep, BitmapsStep,
         kmallocPageStep, FreePageStep
  <1>3. [Next]_vars => (BootNext /\ UNCHANGED mmuVars) \/ UNCHANGED bootVars
    BY DEF Next, vars, FindLargest, Descriptor, Bitmaps, kmalloc, kmalloc_a, kmallocPage, FreePage
  <1> QED
    BY <1>1, <1>2, <1>3

\* The inductive invariant of the whole, from efi_main on.
LEMMA Invariants == Spec => [](BootInv /\ MMUInv)
  <1>1. Init => BootInv /\ MMUInv
    BY BootInitInv, MMUInitInv DEF Init
  <1>2. BootInv /\ MMUInv /\ [Next]_vars => (BootInv /\ MMUInv)'
    BY StepInv
  <1> QED
    BY <1>1, <1>2, PTL DEF Spec

-----------------------------------------------------------------------------
(* kmalloc.                                                                *)

\* The bytes of block b's bitmap, and the functions that add them up.
BytesOf(b) == IF isUsable(blocks[b].type) THEN (blocks[b].pages + 7) \div 8 ELSE 0

Adds(f, k) == f = [b \in 0..k |-> IF b = 0 THEN 0 ELSE f[b - 1] + BytesOf(b)]

\* A bitmap has no more bytes than its block has pages.
LEMMA BytesAreFew ==
  ASSUME Joined, NEW b \in 1..Len(blocks)
  PROVE  BytesOf(b) \in Nat /\ BytesOf(b) <= blocks[b].pages
  <1>1. PICK n \in Nat \ {0} : n = blocks[b].pages
    <2> DEFINE D == [start : Nat, pages : Nat \ {0}, type : STRING]
    <2>0. blocks \in Seq(D)
      BY DEF Joined
    <2>1. PICK d \in D : d = blocks[b]
      <3> HIDE DEF D
      <3> QED
        BY <2>0
    <2> QED
      BY <2>1
  <1>2. (n + 7) \div 8 \in Nat /\ (n + 7) \div 8 <= n
    OBVIOUS
  <1> QED
    BY <1>1, <1>2 DEF BytesOf

\* The recursive function in BitmapBytes has values: the first k for which it
\* had none would be one more than one for which it has.
LEMMA BytesAddUp ==
  ASSUME Joined
  PROVE  \A k \in 0..Len(blocks) : \E f : Adds(f, k)
  <1> DEFINE Bad == {k \in 0..Len(blocks) : ~\E f : Adds(f, k)}
  <1>1. Len(blocks) \in Nat
    BY DEF Joined
  <1> SUFFICES ASSUME Bad # {} PROVE FALSE
    OBVIOUS
  <1>2. PICK k \in Bad : \A y \in Bad : k <= y
    <2>1. Bad \subseteq Nat
      BY <1>1
    <2> HIDE DEF Bad
    <2> QED
      BY <2>1, NatMin
  <1>3. k \in Nat /\ k <= Len(blocks) /\ ~\E f : Adds(f, k)
    BY <1>1
  <1>4. k # 0
    <2> SUFFICES ASSUME k = 0 PROVE \E f : Adds(f, 0)
      BY <1>3
    <2> DEFINE f == [b \in 0..0 |-> 0]
    <2>1. f = [b \in 0..0 |-> IF b = 0 THEN 0 ELSE f[b - 1] + BytesOf(b)]
      OBVIOUS
    <2> HIDE DEF f
    <2> QED
      BY <2>1 DEF Adds
  <1>5. PICK m \in 0..Len(blocks) : m = k - 1 /\ m \in Nat /\ k = m + 1 /\ ~(k <= m)
    BY <1>1, <1>3, <1>4
  <1>6. PICK f : Adds(f, m)
    BY <1>2, <1>5
  <1> DEFINE g == [b \in 0..k |-> IF b = 0 THEN 0 ELSE f[b - 1] + BytesOf(b)]
  <1>7. \A b \in 0..m : g[b] = f[b]
    <2>1. \A b \in 0..m : b \in 0..k
      BY <1>5
    <2> QED
      BY <1>6, <2>1 DEF Adds
  <1>8. g = [b \in 0..k |-> IF b = 0 THEN 0 ELSE g[b - 1] + BytesOf(b)]
    <2>1. ASSUME NEW b \in 0..k, b # 0 PROVE f[b - 1] = g[b - 1]
      <3>1. b - 1 \in 0..m
        BY <1>5, <2>1
      <3> HIDE DEF g
      <3> QED
        BY <1>7, <3>1
    <2>2. \A b \in 0..k : g[b] = IF b = 0 THEN 0 ELSE g[b - 1] + BytesOf(b)
      <3>1. \A b \in 0..k : g[b] = IF b = 0 THEN 0 ELSE f[b - 1] + BytesOf(b)
        OBVIOUS
      <3> HIDE DEF g
      <3> QED
        BY <2>1, <3>1
    <2>3. g = [b \in 0..k |-> g[b]]
      OBVIOUS
    <2> HIDE DEF g
    <2> QED
      BY <2>2, <2>3
  <1> HIDE DEF g
  <1> QED
    BY <1>3, <1>8 DEF Adds

\* The usable pages of the first k blocks.
UsableUpTo(k) == UNION {Pages(blocks[b]) : b \in {c \in 1..k : isUsable(blocks[c].type)}}

\* The bitmaps have a byte at most for each page they are for.
LEMMA BitmapsAreSmall ==
  ASSUME BootInv, MMUInv, i # 0, i # Overrun, IsFiniteSet(DOMAIN memory)
  PROVE  /\ BitmapBytes(Len(blocks)) \in Nat
         /\ BitmapBytes(Len(blocks)) <= Cardinality({p \in DOMAIN memory : isUsable(memory[p])})
  <1> DEFINE n == Len(blocks)
             Usable == {p \in DOMAIN memory : isUsable(memory[p])}
  <1>1. Joined /\ n \in Nat /\ IsFiniteSet(Usable)
    <2>0. Joined
      BY DEF MMUInv
    <2>1. Joined /\ n \in Nat
      <3>1. blocks \in Seq([start : Nat, pages : Nat \ {0}, type : STRING])
        BY <2>0 DEF Joined
      <3> QED
        BY <2>0, <3>1
    <2>2. Usable \in SUBSET (DOMAIN memory)
      OBVIOUS
    <2> HIDE DEF Usable
    <2> QED
      BY <2>1, <2>2, FS_Subset
  <1>2. PICK f : Adds(f, n) /\ f[n] = BitmapBytes(n)
    <2> DEFINE Rec(g) == g = [b \in 0..n |->
                                IF b = 0 THEN 0
                                ELSE g[b - 1] + IF isUsable(blocks[b].type) THEN (blocks[b].pages + 7) \div 8 ELSE 0]
               bytes == CHOOSE g : Rec(g)
    <2>1. BitmapBytes(n) = bytes[n]
      BY DEF BitmapBytes
    <2>2. \A g : Rec(g) <=> Adds(g, n)
      BY DEF Adds, BytesOf
    <2>3. \E g : Adds(g, n)
      BY <1>1, BytesAddUp
    <2> HIDE DEF Rec
    <2>4. Rec(bytes)
      BY <2>2, <2>3
    <2> HIDE DEF bytes
    <2> QED
      BY <2>1, <2>2, <2>4
  <1> DEFINE Few(k) == /\ f[k] \in Nat /\ UsableUpTo(k) \subseteq Usable
                       /\ f[k] <= Cardinality(UsableUpTo(k))
             Bad == {k \in 0..n : ~Few(k)}
  <1>3. Few(0)
    <2>1. f[0] = 0 /\ UsableUpTo(0) = {}
      BY <1>1, <1>2 DEF Adds, UsableUpTo
    <2> QED
      BY <2>1, FS_EmptySet
  <1>4. ASSUME NEW m \in 0..n, NEW k \in 1..n, k = m + 1, Few(m) PROVE Few(k)
    <2>1. f[k] = f[m] + BytesOf(k)
      <3>1. k \in 0..n /\ k # 0 /\ k - 1 = m
        BY <1>1, <1>4
      <3> QED
        BY <1>2, <3>1 DEF Adds
    <2>2. BytesOf(k) \in Nat /\ BytesOf(k) <= blocks[k].pages /\ blocks[k].start \in Nat /\ blocks[k].pages \in Nat
      BY <1>1, BytesAreFew, BlockNumbers
    <2>3. \A c : c \in 1..k <=> c \in 1..m \/ c = k
      BY <1>1, <1>4
    <2>4. IsFiniteSet(UsableUpTo(m)) /\ Cardinality(UsableUpTo(m)) \in Nat
      BY <1>1, <1>4, FS_Subset, FS_CardinalityType
    <2>5. CASE ~isUsable(blocks[k].type)
      <3>1. UsableUpTo(k) = UsableUpTo(m)
        BY <2>3, <2>5 DEF UsableUpTo
      <3>2. BytesOf(k) = 0
        BY <2>5 DEF BytesOf
      <3> QED
        BY <1>4, <2>1, <3>1, <3>2
    <2>6. CASE isUsable(blocks[k].type)
      <3>1. UsableUpTo(k) = UsableUpTo(m) \cup Pages(blocks[k])
        BY <2>3, <2>6 DEF UsableUpTo
      <3>2. UsableUpTo(m) \cap Pages(blocks[k]) = {}
        <4>1. \A c \in 1..m : c \in 1..n /\ c # k
          BY <1>1, <1>4
        <4>2. k \in 1..n /\ \A a, b \in 1..n : a # b => Pages(blocks[a]) \cap Pages(blocks[b]) = {}
          BY <1>1, <1>4 DEF Joined
        <4>3. \A p \in UsableUpTo(m) : \E c \in 1..m : p \in Pages(blocks[c])
          BY DEF UsableUpTo
        <4> HIDE DEF n
        <4> QED
          BY <4>1, <4>2, <4>3
      <3>3. IsFiniteSet(Pages(blocks[k])) /\ Cardinality(Pages(blocks[k])) = blocks[k].pages
        <4>1. PICK s \in Nat, l \in Nat : s = blocks[k].start /\ l = blocks[k].pages
          BY <2>2
        <4>2. IsFiniteSet(s..(s + l - 1)) /\ Cardinality(s..(s + l - 1)) = l
          <5>1. PICK e \in Int : e = s + l - 1 /\ (s > e => l = 0) /\ e - s + 1 = l
            OBVIOUS
          <5>2. /\ IsFiniteSet(s..e)
                /\ Cardinality(s..e) = IF s > e THEN 0 ELSE e - s + 1
            <6>1. s \in Int
              OBVIOUS
            <6> QED
              BY <5>1, <6>1, FS_Interval, Zenon
          <5> QED
            BY <5>1, <5>2
        <4> QED
          BY <4>1, <4>2 DEF Pages
      <3>4. Cardinality(UsableUpTo(k)) = Cardinality(UsableUpTo(m)) + blocks[k].pages
        <4>1. Cardinality(UsableUpTo(k)) = Cardinality(UsableUpTo(m)) + Cardinality(Pages(blocks[k]))
                                           - Cardinality(UsableUpTo(m) \cap Pages(blocks[k]))
          BY <2>4, <3>1, <3>3, FS_Union
        <4>2. Cardinality(UsableUpTo(m) \cap Pages(blocks[k])) = 0
          BY <3>2, FS_EmptySet
        <4> QED
          BY <2>2, <2>4, <3>3, <4>1, <4>2
      <3>5. Pages(blocks[k]) \subseteq Usable
        BY <2>6, PageOfBlock
      <3>6. f[k] \in Nat /\ f[k] <= Cardinality(UsableUpTo(k))
        <4>1. PICK x \in Nat, y \in Nat, u \in Nat, l \in Nat :
                x = f[m] /\ y = BytesOf(k) /\ u = Cardinality(UsableUpTo(m)) /\ l = blocks[k].pages
          BY <1>4, <2>2, <2>4
        <4>2. x <= u /\ y <= l
          BY <1>4, <2>2, <4>1
        <4>3. f[k] = x + y /\ Cardinality(UsableUpTo(k)) = u + l
          BY <2>1, <3>4, <4>1
        <4> QED
          <5>1. x + y \in Nat /\ x + y <= u + l
            BY <4>2
          <5> QED
            BY <4>3, <5>1
      <3> QED
        BY <1>4, <3>1, <3>5, <3>6
    <2> QED
      BY <2>5, <2>6
  <1> HIDE DEF Few, n
  <1>5. Few(n)
    <2> SUFFICES ASSUME Bad # {} PROVE FALSE
      BY <1>1
    <2>1. PICK k \in Bad : \A y \in Bad : k <= y
      <3>1. Bad \subseteq Nat
        BY <1>1
      <3> HIDE DEF Bad
      <3> QED
        BY <3>1, NatMin
    <2>2. k \in 0..n /\ k # 0
      BY <1>3
    <2>3. PICK m \in 0..n : m = k - 1 /\ k = m + 1 /\ ~(k <= m) /\ k \in 1..n
      BY <1>1, <2>2
    <2>4. Few(m)
      BY <2>1, <2>3
    <2> QED
      BY <1>4, <2>3, <2>4
  <1>6. Cardinality(UsableUpTo(n)) <= Cardinality(Usable) /\ Cardinality(UsableUpTo(n)) \in Nat /\ Cardinality(Usable) \in Nat
    BY <1>1, <1>5, FS_Subset, FS_CardinalityType DEF Few
  <1>7. f[n] \in Nat /\ f[n] <= Cardinality(UsableUpTo(n))
    BY <1>5 DEF Few
  <1> QED
    BY <1>2, <1>6, <1>7 DEF n

\* The range that kmalloc goes through is the largest of the usable ones.
LEMMA LargestIs ==
  ASSUME BootInv, HasRoom
  PROVE  /\ Largest(map) \in 1..Len(map) /\ isUsable(map[Largest(map)].type)
         /\ map[Largest(map)].start \in Nat /\ map[Largest(map)].pages \in Nat \ {0}
         /\ \A b \in 1..Len(map) : isUsable(map[b].type) => map[b].pages <= map[Largest(map)].pages
  <1> DEFINE D == [start : Nat, pages : Nat \ {0}, type : STRING]
             n == Len(map)
             size == [a \in 1..n |-> IF isUsable(map[a].type) THEN map[a].pages ELSE -1]
             usable == {a \in 1..n : isUsable(map[a].type)}
             S == {a \in usable : \A b \in usable : map[b].pages <= map[a].pages}
  <1>1. n \in Nat /\ \A a \in 1..n : map[a] \in D
    <2> HIDE DEF D
    <2>1. map \in Seq(D)
      BY MapIsSeq DEF D
    <2> QED
      BY <2>1
  <1>2. \A a \in 1..n : map[a].pages \in Nat \ {0} /\ map[a].start \in Nat
    BY <1>1
  <1> HIDE DEF D
  <1>3. PICK c \in 1..n : isUsable(map[c].type)
    BY DEF HasRoom
  <1>4. n \in Nat \ {0} /\ \A a \in 1..n : size[a] \in Int
    BY <1>1, <1>2, <1>3
  <1>5. PICK t \in 1..n : \A a \in 1..n : size[a] <= size[t]
    <2> HIDE DEF n, size
    <2> QED
      BY <1>4, SeqMax
  <1>6. t \in S
    <2>1. size[c] <= size[t] /\ size[c] = map[c].pages /\ map[c].pages \in Nat
      BY <1>2, <1>3, <1>5
    <2>2. isUsable(map[t].type)
      <3> SUFFICES ASSUME ~isUsable(map[t].type) PROVE FALSE
        OBVIOUS
      <3>1. size[t] = -1
        OBVIOUS
      <3> HIDE DEF size
      <3> QED
        BY <2>1, <3>1
    <2>3. \A b \in usable : size[b] = map[b].pages /\ size[b] <= size[t]
      BY <1>5
    <2> QED
      BY <2>2, <2>3
  <1>7. S \subseteq 1..n /\ S \subseteq Nat /\ S # {}
    BY <1>1, <1>6
  <1>8. Largest(map) = Min(S)
    BY DEF Largest
  <1>9. Largest(map) \in S
    <2> HIDE DEF S
    <2> QED
      BY <1>7, <1>8, NatMin
  <1> QED
    BY <1>2, <1>9

\* Where the largest range ends.
LargestEnd == (map[Largest(map)].start + map[Largest(map)].pages) * PageSize

\* A descriptor's pages stay together, and the bitmaps are in the largest
\* range and in front of what kmalloc gives.
KmallocInv ==
  /\ IsFiniteSet(DOMAIN memory)
  /\ \A a \in 1..Len(map) :
       a < i => \E b \in 1..Len(blocks) : Pages(map[a]) \subseteq Pages(blocks[b])
  /\ i \in 1..(Len(map) + 1) => kmallocAddr = map[Largest(map)].start * PageSize
  /\ Ready /\ HasRoom => /\ kmallocAddr \in Nat /\ BitmapsEnd \in Nat
                         /\ BitmapsEnd <= kmallocAddr /\ BitmapsEnd <= LargestEnd

\* Sums of multiples of a page.
LEMMA PageProducts ==
  ASSUME NEW s \in Nat, NEW n \in Nat
  PROVE  /\ s * PageSize \in Nat /\ n * PageSize \in Nat
         /\ (s + n) * PageSize = s * PageSize + n * PageSize
         /\ s <= n => s * PageSize <= n * PageSize
  <1>1. PICK z \in Nat \ {0} : z = PageSize
    BY PageAssumption
  <1>2. s * z \in Nat /\ n * z \in Nat /\ (s + n) * z = s * z + n * z
    OBVIOUS
  <1>3. s <= n => s * z <= n * z
    <2> SUFFICES ASSUME s <= n PROVE s * z <= n * z
      OBVIOUS
    <2>1. PICK d \in Nat : n = s + d
      <3>1. n - s \in Nat /\ n = s + (n - s)
        OBVIOUS
      <3> QED
        BY <3>1
    <2>2. d * z \in Nat /\ n * z = s * z + d * z
      BY <2>1
    <2> QED
      BY <1>2, <2>2
  <1> QED
    BY <1>1, <1>2, <1>3

\* The start of the next page.
LEMMA RoundUp ==
  ASSUME NEW k \in Nat, NEW z \in Nat \ {0}
  PROVE  (k \div z + 1) * z \in Nat /\ k <= (k \div z + 1) * z
  <1>1. PICK q \in Nat, m \in Nat : q = k \div z /\ m = k % z
    OBVIOUS
  <1>2. k = z * q + m /\ m < z
    BY <1>1
  <1>3. (q + 1) * z = z * q + z /\ z * q \in Nat
    OBVIOUS
  <1>4. PICK y \in Nat : y = z * q
    BY <1>3
  <1> QED
    BY <1>1, <1>2, <1>3, <1>4

\* Nothing is kmalloced before the kernel is entered.
LEMMA KmallocBootStep ==
  ASSUME BootInv, MMUInv, BootInv', KmallocInv, BootNext, UNCHANGED mmuVars
  PROVE  KmallocInv'
  <1>1. i = 0 /\ i' = 0 /\ DOMAIN memory' = DOMAIN memory
    BY BootKeeps DEF MMUInv, mmuVars
  <1>2. Len(map') \in Nat
    <2>1. CASE at' \in {"exit", "kernel"}
      BY <2>1 DEF BootInv, Describes
    <2>2. CASE at' \notin {"exit", "kernel"}
      BY <2>2 DEF BootInv
    <2> QED
      BY <2>1, <2>2
  <1>3. ~Ready' /\ i' \notin 1..(Len(map') + 1) /\ \A a \in 1..Len(map') : ~(a < i')
    BY <1>1, <1>2 DEF Ready
  <1> QED
    BY <1>1, <1>3 DEF KmallocInv

\* Each step of the memory manager.
LEMMA KmallocStep ==
  ASSUME BootInv, MMUInv, KmallocInv, UNCHANGED bootVars, [Next]_vars
  PROVE  KmallocInv'
  <1>1. UNCHANGED <<at, map, memory>> /\ Len(map) \in Nat
    BY MapIsSeq DEF bootVars
  <1>2. /\ IsFiniteSet(DOMAIN memory')
        /\ HasRoom' <=> HasRoom
        /\ LargestEnd' = LargestEnd /\ Largest(map)' = Largest(map)
        /\ blocks' = blocks => BitmapsEnd' = BitmapsEnd
    BY <1>1 DEF KmallocInv, HasRoom, LargestEnd, BitmapsEnd, BitmapBytes
  <1>3. CASE FindLargest
    <2>1. i' = 1 /\ kmallocAddr' = map[Largest(map)].start * PageSize
      BY <1>3 DEF FindLargest
    <2>2. ~Ready' /\ \A a \in 1..Len(map') : ~(a < i')
      BY <1>1, <2>1 DEF Ready
    <2> QED
      BY <1>1, <1>2, <2>1, <2>2 DEF KmallocInv
  <1>4. CASE Descriptor
    <2>0. CASE i' = Overrun
      <3>1. ~Ready' /\ i' \notin 1..(Len(map') + 1) /\ \A a \in 1..Len(map') : ~(a < i')
        BY <1>1, <2>0 DEF Ready, Overrun
      <3> QED
        BY <1>2, <3>1 DEF KmallocInv
    <2> SUFFICES ASSUME i' # Overrun PROVE KmallocInv'
      BY <2>0
    <2>1. i \in 1..Len(map) /\ i' = i + 1 /\ kmallocAddr' = kmallocAddr
      BY <1>4, DescriptorBlock DEF Descriptor
    <2>2. PICK k \in 1..Len(blocks') : Gains(k)
      BY <1>4, DescriptorBlock
    <2>3. ASSUME NEW a \in 1..Len(map'), a < i'
          PROVE  \E b \in 1..Len(blocks') : Pages(map'[a]) \subseteq Pages(blocks'[b])
      <3>1. CASE a = i
        BY <1>1, <2>2, <3>1 DEF Gains
      <3>2. CASE a # i
        <4>1. a < i /\ a \in 1..Len(map)
          BY <1>1, <2>1, <2>3, <3>2
        <4>2. PICK b \in 1..Len(blocks) : Pages(map[a]) \subseteq Pages(blocks[b])
          BY <4>1 DEF KmallocInv
        <4>3. b \in 1..Len(blocks') /\ Pages(blocks[b]) \subseteq Pages(blocks'[b])
          BY <2>2 DEF Gains
        <4> QED
          BY <1>1, <4>2, <4>3
      <3> QED
        BY <3>1, <3>2
    <2>4. ~Ready' /\ i \in 1..(Len(map) + 1)
      BY <1>1, <2>1 DEF Ready
    <2> QED
      BY <1>1, <1>2, <2>1, <2>3, <2>4 DEF KmallocInv
  <1>5. CASE Bitmaps
    <2>1. /\ i = Len(map) + 1 /\ i' = i + 1 /\ i # 0 /\ i # Overrun /\ blocks' = blocks
          /\ kmallocAddr' = kmallocAddr + BitmapBytes(Len(blocks))
      BY <1>1, <1>5 DEF Bitmaps, Overrun
    <2>2. \A a \in 1..Len(map') : a < i' => \E b \in 1..Len(blocks') : Pages(map'[a]) \subseteq Pages(blocks'[b])
      <3>1. \A a \in 1..Len(map) : a < i
        BY <1>1, <2>1
      <3> QED
        BY <1>1, <2>1, <3>1 DEF KmallocInv
    <2>3. i' \notin 1..(Len(map') + 1)
      BY <1>1, <2>1
    <2>4. ASSUME HasRoom
          PROVE  kmallocAddr' \in Nat /\ BitmapsEnd = kmallocAddr' /\ kmallocAddr' <= LargestEnd
      <3>1. PICK a \in 1..Len(map) :
              /\ isUsable(map[a].type)
              /\ Cardinality({p \in DOMAIN memory : isUsable(memory[p])}) <= map[a].pages * PageSize
        BY <2>4 DEF HasRoom
      <3>2. PICK s \in Nat, n \in Nat : s = map[Largest(map)].start /\ n = map[Largest(map)].pages
        BY <2>4, LargestIs
      <3>3. PICK l \in Nat : l = map[a].pages /\ l <= n
        <4> DEFINE D == [start : Nat, pages : Nat \ {0}, type : STRING]
        <4>1. PICK d \in D : d = map[a]
          <5> HIDE DEF D
          <5>1. map \in Seq(D)
            BY MapIsSeq DEF D
          <5> QED
            BY <5>1
        <4> QED
          BY <2>4, <3>1, <3>2, <4>1, LargestIs
      <3>4. PICK x \in Nat, c \in Nat :
              /\ x = BitmapBytes(Len(blocks)) /\ x <= c
              /\ c = Cardinality({p \in DOMAIN memory : isUsable(memory[p])})
        <4>1. IsFiniteSet({p \in DOMAIN memory : isUsable(memory[p])})
          BY FS_Subset DEF KmallocInv
        <4> QED
          BY <2>1, <4>1, BitmapsAreSmall, FS_CardinalityType DEF KmallocInv
      <3>5. kmallocAddr = s * PageSize
        BY <1>1, <2>1, <3>2 DEF KmallocInv
      <3>6. /\ s * PageSize \in Nat /\ n * PageSize \in Nat /\ l * PageSize \in Nat
            /\ l * PageSize <= n * PageSize
            /\ (s + n) * PageSize = s * PageSize + n * PageSize
        BY <3>3, PageProducts
      <3>7. c <= l * PageSize
        BY <3>1, <3>3, <3>4
      <3>8. LargestEnd = (s + n) * PageSize /\ kmallocAddr' = s * PageSize + x /\ BitmapsEnd = s * PageSize + x
        BY <2>1, <3>2, <3>4, <3>5 DEF LargestEnd, BitmapsEnd
      <3>9. PICK sb \in Nat : sb = s * PageSize
        BY <3>6
      <3>10. PICK nb \in Nat : nb = n * PageSize
        BY <3>6
      <3>11. PICK lb \in Nat : lb = l * PageSize /\ lb <= nb
        BY <3>6, <3>10
      <3>12. sb + x \in Nat /\ sb + x <= sb + nb
        BY <3>4, <3>7, <3>11
      <3>13. LargestEnd = sb + nb /\ kmallocAddr' = sb + x /\ BitmapsEnd = sb + x
        BY <3>6, <3>8, <3>9, <3>10
      <3> QED
        BY <3>12, <3>13
    <2>5. HasRoom' => /\ kmallocAddr' \in Nat /\ BitmapsEnd' \in Nat
                      /\ BitmapsEnd' <= kmallocAddr' /\ BitmapsEnd' <= LargestEnd'
      <3>1. SUFFICES ASSUME HasRoom
                     PROVE  /\ kmallocAddr' \in Nat /\ BitmapsEnd' \in Nat
                            /\ BitmapsEnd' <= kmallocAddr' /\ BitmapsEnd' <= LargestEnd'
        BY <1>2
      <3>2. BitmapsEnd' = kmallocAddr' /\ kmallocAddr' \in Nat /\ kmallocAddr' <= LargestEnd'
        BY <1>2, <2>1, <2>4, <3>1
      <3>3. PICK k \in Nat : k = kmallocAddr'
        BY <3>2
      <3> QED
        BY <3>2, <3>3
    <2> QED
      BY <1>1, <1>2, <2>2, <2>3, <2>5 DEF KmallocInv
  <1>6. CASE \E size \in Sizes : kmalloc(size) \/ kmalloc_a(size)
    <2>1. Ready /\ i' = i /\ blocks' = blocks
      BY <1>6 DEF kmalloc, kmalloc_a
    <2>2. i' \notin 1..(Len(map') + 1)
      BY <1>1, <2>1 DEF Ready
    <2>3. ASSUME HasRoom PROVE kmallocAddr' \in Nat /\ BitmapsEnd \in Nat /\ BitmapsEnd <= kmallocAddr'
      <3>1. PICK k \in Nat, e \in Nat : k = kmallocAddr /\ e = BitmapsEnd /\ e <= k
        BY <2>1, <2>3 DEF KmallocInv
      <3>2. PICK z \in Nat \ {0} : z = PageSize
        BY PageAssumption
      <3>3. PICK r \in Nat : r = (k \div z + 1) * z /\ k <= r
        BY RoundUp
      <3>4. PICK size \in Sizes : kmalloc(size) \/ kmalloc_a(size)
        BY <1>6
      <3>5. size \in Nat
        BY SizesAssumption
      <3>6. kmallocAddr' = k + size \/ kmallocAddr' = r + size
        BY <3>1, <3>2, <3>3, <3>4 DEF kmalloc, kmalloc_a
      <3> QED
        BY <3>1, <3>3, <3>5, <3>6
    <2>4. HasRoom' => /\ kmallocAddr' \in Nat /\ BitmapsEnd' \in Nat
                      /\ BitmapsEnd' <= kmallocAddr' /\ BitmapsEnd' <= LargestEnd'
      BY <1>2, <2>1, <2>3 DEF KmallocInv
    <2> QED
      BY <1>1, <1>2, <2>1, <2>2, <2>4 DEF KmallocInv
  <1>7. CASE UNCHANGED <<i, blocks, kmallocAddr>>
    BY <1>1, <1>2, <1>7 DEF KmallocInv, Ready
  <1>8. \/ FindLargest \/ Descriptor \/ Bitmaps
        \/ \E size \in Sizes : kmalloc(size) \/ kmalloc_a(size)
        \/ UNCHANGED <<i, blocks, kmallocAddr>>
    BY DEF Next, vars, mmuVars, kmallocPage, FreePage
  <1> QED
    BY <1>3, <1>4, <1>5, <1>6, <1>7, <1>8

LEMMA SpecKmallocInv == Spec => []KmallocInv
  <1>1. Init => KmallocInv
    <2> SUFFICES ASSUME Init PROVE KmallocInv
      OBVIOUS
    <2>1. i = 0 /\ Len(map) = 0 /\ IsFiniteSet(DOMAIN memory)
      BY FirmwareAssumption DEF Init, BootInit
    <2> QED
      BY <2>1 DEF KmallocInv, Ready
  <1>2. ASSUME BootInv, MMUInv, BootInv', KmallocInv, [Next]_vars PROVE KmallocInv'
    <2>1. (BootNext /\ UNCHANGED mmuVars) \/ UNCHANGED bootVars
      BY <1>2 DEF Next, vars, FindLargest, Descriptor, Bitmaps, kmalloc, kmalloc_a, kmallocPage, FreePage
    <2> QED
      BY <1>2, <2>1, KmallocBootStep, KmallocStep
  <1> QED
    BY <1>1, <1>2, Invariants, PTL DEF Spec

-----------------------------------------------------------------------------
(* The theorems.                                                           *)

\* Wherever the firmware has room for the file, and whatever it says of its
\* memory and of its screen, efi_main enters the kernel with every segment as
\* it is linked, or not at all.
THEOREM KernelIsLoaded == Spec => []Loaded
  <1>1. BootInv => Loaded
    <2> SUFFICES ASSUME BootInv, at = "kernel" PROVE Loaded
      BY DEF Loaded
    <2>1. SegmentsOK(1..Len(image.headers)) /\ ModeOK
      BY DEF BootInv
    <2>2. ASSUME NEW h \in Loads PROVE Placed(h)
      <3>1. PICK k \in 1..Len(image.headers) : h = image.headers[k] /\ h.type = "PT_LOAD"
        BY ImageFacts DEF BootInv
      <3> QED
        BY <2>1, <3>1 DEF SegmentsOK
    <2> QED
      BY <2>1, <2>2 DEF Loaded, Placed, ModeOK
  <1> QED
    BY <1>1, Invariants, PTL

\* initializeMMU writes `blocks` past its end only if the map has more
\* descriptors than that has entries; if it does not, the blocks are the memory,
\* page by page, whatever the order and the cuts of the firmware's map.
THEOREM MapIsCovered == Spec => []BlocksAreTheMap
  <1>1. BootInv /\ MMUInv => BlocksAreTheMap
    <2> SUFFICES ASSUME BootInv, MMUInv, i > Len(map) PROVE BlocksAreTheMap
      BY DEF BlocksAreTheMap, MMUInv
    <2>1. /\ i # 0 /\ i # Overrun /\ Describes(map, memory) /\ DOMAIN map = 1..Len(map)
          /\ \A a \in 1..Len(map) : a < i
      <3>1. i # 0 /\ i # Overrun
        BY MapIsSeq DEF Overrun
      <3>2. i \in Nat
        BY <3>1, MapIsSeq DEF MMUInv
      <3> QED
        BY <3>1, <3>2, MapIsSeq DEF BootInv, MMUInv
    <2>2. ASSUME NEW p \in DOMAIN memory
          PROVE  \E b \in 1..Len(blocks) : /\ p \in Pages(blocks[b]) /\ blocks[b].type = memory[p]
                                           /\ \A c \in 1..Len(blocks) \ {b} : p \notin Pages(blocks[c])
      <3>1. PICK a \in 1..Len(map) : p \in Pages(map[a])
        BY <2>1 DEF Describes
      <3>2. PICK b \in 1..Len(blocks) : p \in Pages(blocks[b])
        <4>1. Joined /\ a \in 1..Len(map) /\ a < i
          BY <2>1 DEF MMUInv
        <4> QED
          BY <3>1, <4>1 DEF Joined
      <3>3. blocks[b].type = memory[p]
        BY <2>1, <3>2, PageOfBlock
      <3>4. \A c \in 1..Len(blocks) \ {b} : p \notin Pages(blocks[c])
        <4>1. Joined
          BY <2>1 DEF MMUInv
        <4> QED
          BY <3>2, <4>1 DEF Joined
      <3> QED
        BY <3>2, <3>3, <3>4
    <2>3. \A b \in 1..Len(blocks) : Pages(blocks[b]) \subseteq DOMAIN memory
      BY <2>1, PageOfBlock
    <2> QED
      BY <2>1, <2>2, <2>3 DEF BlocksAreTheMap
  <1> QED
    BY <1>1, Invariants, PTL

\* Whatever freePage clears, kmallocPage gives no page that it has given and
\* that has not been given back.
THEOREM PagesNotAgain == Spec => []NoPageAgain
  <1>1. MMUInv => NoPageAgain
    <2> SUFFICES ASSUME MMUInv, NEW p \in DOMAIN held PROVE held[p] <= 1
      BY DEF NoPageAgain
    <2>1. held[p] \in {0, 1}
      BY DEF MMUInv
    <2> QED
      BY <2>1
  <1> QED
    BY <1>1, Invariants, PTL

\* The kernel's pages are of the loader's code, since AllocatePages is asked
\* for that type, and no such block is usable.
THEOREM KernelIsKept == Spec => []KernelKept
  <1>1. BootInv /\ MMUInv => KernelKept
    <2> SUFFICES ASSUME BootInv, MMUInv, NEW p \in DOMAIN held, held[p] > 0, p \in Kernel
                 PROVE  FALSE
      BY DEF KernelKept
    <2>1. held[p] = 1
      <3>1. held[p] \in {0, 1}
        BY DEF MMUInv
      <3> QED
        BY <3>1
    <2>2. Ready /\ Marked /\ i # 0 /\ i # Overrun
      BY <2>1, MapIsSeq DEF MMUInv, Ready, Overrun
    <2>3. PICK b \in 1..Len(blocks) : isUsable(blocks[b].type) /\ p \in Pages(blocks[b])
      BY <2>1, <2>2 DEF Marked
    <2>4. memory[p] = blocks[b].type
      BY <2>2, <2>3, PageOfBlock
    <2>5. memory[p] = "EfiLoaderCode"
      BY <2>2 DEF BootInv, MMUInv, KernelOK, Allocated
    <2> QED
      BY <2>3, <2>4, <2>5 DEF isUsable, Unusable
  <1> QED
    BY <1>1, Invariants, PTL

\* On a machine with a usable range that has a byte for each usable page, the
\* bitmaps of all blocks are in one usable block, and kmalloc gives nothing in
\* front of their end, however much it is asked for.
THEOREM BitmapsStayInside == Spec => []BitmapsInside
  <1>1. BootInv /\ MMUInv /\ KmallocInv => BitmapsInside
    <2> SUFFICES ASSUME BootInv, MMUInv, KmallocInv, Ready, HasRoom
                 PROVE  \E b \in 1..Len(blocks) :
                          /\ isUsable(blocks[b].type)
                          /\ map[Largest(map)].start \in Pages(blocks[b])
                          /\ BitmapsEnd <= (blocks[b].start + blocks[b].pages) * PageSize
      BY DEF BitmapsInside, KmallocInv
    <2>1. PICK a \in 1..Len(map) : a = Largest(map) /\ isUsable(map[a].type)
      BY LargestIs
    <2>2. PICK s \in Nat, n \in Nat \ {0} : s = map[a].start /\ n = map[a].pages
      BY <2>1, LargestIs
    <2>3. i \in Nat /\ i # 0 /\ i # Overrun /\ a < i /\ Len(map) \in Nat
      BY MapIsSeq DEF Ready, Overrun
    <2>4. PICK b \in 1..Len(blocks) : Pages(map[a]) \subseteq Pages(blocks[b])
      BY <2>3 DEF KmallocInv
    <2>5. PICK t \in Nat, m \in Nat : t = blocks[b].start /\ m = blocks[b].pages
      BY <2>3, BlockNumbers DEF MMUInv
    <2>6. s \in s..(s + n - 1) /\ s + n - 1 \in s..(s + n - 1) /\ s..(s + n - 1) \subseteq t..(t + m - 1)
      <3>1. Pages(map[a]) = s..(s + n - 1) /\ Pages(blocks[b]) = t..(t + m - 1)
        BY <2>2, <2>5 DEF Pages
      <3>2. s..(s + n - 1) \subseteq t..(t + m - 1)
        BY <2>4, <3>1, Zenon
      <3>3. s \in s..(s + n - 1) /\ s + n - 1 \in s..(s + n - 1)
        OBVIOUS
      <3> QED
        BY <3>2, <3>3, Zenon
    <2>7. s + n <= t + m
      <3>1. s + n - 1 \in t..(t + m - 1)
        BY <2>6
      <3> QED
        BY <3>1
    <2>8. blocks[b].type = map[a].type
      <3>1. s \in Pages(map[a]) /\ s \in Pages(blocks[b])
        BY <2>2, <2>4, <2>6 DEF Pages
      <3>2. Describes(map, memory) /\ a \in DOMAIN map
        BY <2>3, MapIsSeq DEF BootInv, MMUInv
      <3>3. memory[s] = map[a].type
        BY <3>1, <3>2 DEF Describes
      <3> QED
        BY <2>3, <3>1, <3>3, PageOfBlock
    <2>9. BitmapsEnd <= (t + m) * PageSize
      <3>1. /\ (s + n) * PageSize \in Nat /\ (t + m) * PageSize \in Nat
            /\ (s + n) * PageSize <= (t + m) * PageSize
        <4>1. s + n \in Nat /\ t + m \in Nat
          OBVIOUS
        <4> QED
          BY <2>7, <4>1, PageProducts
      <3>2. LargestEnd = (s + n) * PageSize
        BY <2>1, <2>2 DEF LargestEnd
      <3>3. PICK k \in Nat : k = BitmapsEnd /\ k <= LargestEnd
        BY DEF KmallocInv
      <3>4. PICK y \in Nat : y = (s + n) * PageSize
        BY <3>1
      <3>5. PICK z \in Nat : z = (t + m) * PageSize
        BY <3>1
      <3>6. k <= y /\ y <= z
        BY <3>1, <3>2, <3>3, <3>4, <3>5
      <3> QED
        BY <3>3, <3>5, <3>6
    <2>10. s \in Pages(blocks[b])
      BY <2>5, <2>6 DEF Pages
    <2> QED
      BY <2>1, <2>2, <2>5, <2>8, <2>9, <2>10
  <1> QED
    BY <1>1, Invariants, SpecKmallocInv, PTL

-----------------------------------------------------------------------------
(* Heap: the row of entries, and what is given of it.                      *)

\* The entry the list ends with.
LastEntry == CHOOSE a \in DOMAIN entry : entry[a].next = NULL

RowOK ==
  LET D == DOMAIN entry IN
  /\ IsFiniteSet(D) /\ D \subseteq Nat /\ first \in D
  /\ LastEntry \in D /\ entry[LastEntry].next = NULL
  /\ \A a \in D : a <= LastEntry
  /\ \A a \in D \ {LastEntry} :
       /\ ~entry[a].free /\ entry[a].next # NULL /\ entry[a].size \in Nat
       /\ Behind(entry, a) \in D
       /\ \A x \in D : x <= a \/ Behind(entry, a) <= x

LastOK ==
  LET e == entry[LastEntry]
      left == Region - LastEntry - H
  IN
  IF LastEntry = first THEN e.size = Region - H
  ELSE /\ e.free /\ left > 0
       /\ e.size \in Nat
       /\ \/ left <= e.size /\ e.size <= Region + LastEntry
          \/ left <= Word - e.size /\ Word - e.size <= Region + LastEntry

GivenOK ==
  /\ \A b \in given :
       /\ b.size \in Nat \ {0}
       /\ b.at = NULL <=> b.size > Region - H
       /\ b.at # NULL =>
            /\ b.at \in Nat /\ b.at - H \in DOMAIN entry /\ ~entry[b.at - H].free
            /\ IF b.at - H = LastEntry THEN LastEntry = first ELSE b.size = entry[b.at - H].size
  /\ \A b, c \in given : b.at = c.at /\ b.at # NULL => b = c

HeapInv == RowOK /\ LastOK /\ GivenOK

-----------------------------------------------------------------------------
(* The walks.                                                              *)

\* The entries before the last are in use, and so malloc goes on to the last.
LEMMA FoundLast ==
  ASSUME RowOK, NEW size
  PROVE  Found(size) = LastEntry
  <1> DEFINE D == DOMAIN entry
             N == Cardinality(D)
             Step(a) == IF Fits(entry[a], size) \/ entry[a].next = NULL THEN a ELSE Behind(entry, a)
             Rec(f) == f = [n \in 0..N |->
                              IF n = 0 THEN first
                              ELSE LET a == f[n - 1] IN
                                   IF Fits(entry[a], size) \/ entry[a].next = NULL THEN a
                                   ELSE Behind(entry, a)]
             walk == CHOOSE f : Rec(f)
  <1>1. Found(size) = walk[N]
    BY DEF Found
  <1>2. /\ IsFiniteSet(D) /\ D \subseteq Nat /\ first \in D /\ LastEntry \in D
        /\ \A a \in D : a <= LastEntry
        /\ N \in Nat
    BY FS_CardinalityType DEF RowOK
  <1>3. Step(LastEntry) = LastEntry
    BY DEF RowOK
  <1>4. ASSUME NEW a \in D, a # LastEntry
        PROVE  Step(a) \in D /\ Step(a) > a
    <2>1. Step(a) = Behind(entry, a)
      BY <1>4 DEF RowOK, Fits
    <2>2. Behind(entry, a) \in D /\ entry[a].size \in Nat
      BY <1>4 DEF RowOK
    <2> QED
      BY <1>2, <2>1, <2>2, SizeAssumption DEF Behind
  <1>5. Rec(walk)
    <2> DEFINE step == [x \in (1..N) \X D |-> Step(x[2])]
    <2>1. step \in [(1..N) \X D -> D]
      BY <1>2, <1>3, <1>4
    <2> HIDE DEF N
    <2>2. PICK f : Iterates(f, D, first, step, N)
      <3> HIDE DEF step, D
      <3> QED
        BY <1>2, <2>1, Iteration
    <2>3. \A n \in 0..N : n # 0 => n \in 1..N /\ n - 1 \in 0..N /\ f[n - 1] \in D
      BY <1>2, <2>2 DEF Iterates
    <2>4. \A n \in 0..N : n # 0 => n \in 1..N /\ step[<<n, f[n - 1]>>] = Step(f[n - 1])
      BY <2>3
    <2>5. f = [n \in 0..N |-> IF n = 0 THEN first ELSE Step(f[n - 1])]
      <3> HIDE DEF step, Step
      <3> QED
        BY <2>2, <2>4 DEF Iterates
    <2>6. Rec(f)
      BY <2>5
    <2> QED
      BY <2>6
  <1> HIDE DEF walk
  <1>6. walk[0] = first /\ \A n \in 0..N : n # 0 => walk[n] = Step(walk[n - 1])
    BY <1>2, <1>5
  <1> DEFINE Below(a) == {x \in D : x < a}
             T == {n \in 0..N : walk[n] \in D /\ (walk[n] = LastEntry \/ Cardinality(Below(walk[n])) >= n)}
  <1> HIDE DEF N
  <1>7. \A a : IsFiniteSet(Below(a)) /\ Cardinality(Below(a)) \in Nat
    BY <1>2, FS_Subset, FS_CardinalityType
  <1>8. 0 \in T
    <2>1. Cardinality(Below(first)) >= 0 /\ 0 \in 0..N
      <3> HIDE DEF Below
      <3> QED
        BY <1>2, <1>7
    <2> QED
      BY <1>2, <1>6, <2>1
  <1>9. ASSUME NEW n \in T, n < N PROVE n + 1 \in T
    <2>1. n + 1 \in 0..N /\ n + 1 # 0 /\ n + 1 - 1 = n /\ n \in Nat
      BY <1>2, <1>9
    <2>2. PICK a \in D : a = walk[n]
      OBVIOUS
    <2>3. walk[n + 1] = Step(a)
      BY <1>6, <2>1, <2>2
    <2>4. CASE a = LastEntry
      BY <1>2, <1>3, <2>1, <2>3, <2>4
    <2>5. CASE a # LastEntry
      <3>1. PICK b \in D : b = Step(a) /\ b > a
        BY <1>4, <2>5
      <3>2. Cardinality(Below(a)) >= n
        BY <2>2, <2>5
      <3>3. Below(a) \cup {a} \subseteq Below(b) /\ a \notin Below(a)
        BY <1>2, <3>1
      <3>4. Cardinality(Below(a) \cup {a}) = Cardinality(Below(a)) + 1
        <4>1. IsFiniteSet(Below(a)) /\ a \notin Below(a)
          BY <1>7, <3>3
        <4> HIDE DEF Below
        <4> QED
          BY <4>1, FS_AddElement
      <3>5. Cardinality(Below(a) \cup {a}) <= Cardinality(Below(b))
        BY <1>7, <3>3, FS_Subset
      <3>6. Cardinality(Below(b)) >= n + 1
        <4>1. PICK j \in Nat, k \in Nat : j = Cardinality(Below(a)) /\ k = Cardinality(Below(b))
          BY <1>7
        <4>2. j >= n /\ j + 1 <= k
          BY <3>2, <3>4, <3>5, <4>1
        <4>3. k >= n + 1
          BY <2>1, <4>2
        <4> QED
          BY <4>1, <4>3
      <3> QED
        BY <2>1, <2>3, <3>1, <3>6
    <2> QED
      BY <2>4, <2>5
  <1>10. N \in T
    <2> HIDE DEF T
    <2>1. T \subseteq 0..N
      BY DEF T
    <2>2. T = 0..N
      BY <1>2, <1>8, <1>9, <2>1, Counting
    <2> QED
      BY <1>2, <2>2
  <1>11. PICK z \in D : z = walk[N] /\ (z = LastEntry \/ Cardinality(Below(z)) >= N)
    BY <1>10
  <1>12. Cardinality(Below(z)) < N
    <2>1. Below(z) \subseteq D \ {z}
      BY <1>2
    <2>2. IsFiniteSet(D \ {z}) /\ Cardinality(D \ {z}) = N - 1
      BY <1>2, FS_RemoveElement DEF N
    <2>3. Cardinality(Below(z)) <= N - 1
      BY <2>1, <2>2, FS_Subset
    <2> QED
      BY <1>2, <1>7, <2>3
  <1> QED
    BY <1>1, <1>2, <1>7, <1>11, <1>12

\* A walk comes to no address that is not an entry.
LEMMA RowInside ==
  ASSUME RowOK
  PROVE  Row \subseteq DOMAIN entry
  <1> DEFINE D == DOMAIN entry
             N == Cardinality(D)
             Step(X) == X \cup {Behind(entry, a) : a \in {x \in X \cap DOMAIN entry :
                                                            entry[x].next # NULL}}
             Rec(f) == f = [n \in 0..N |->
                              IF n = 0 THEN {first}
                              ELSE f[n - 1] \cup
                                   {Behind(entry, a) : a \in {x \in f[n - 1] \cap DOMAIN entry :
                                                                entry[x].next # NULL}}]
             walk == CHOOSE f : Rec(f)
  <1>1. Row = walk[N]
    BY DEF Row
  <1>2. IsFiniteSet(D) /\ first \in D /\ N \in Nat
    BY FS_CardinalityType DEF RowOK
  <1>3. \A X \in SUBSET D : Step(X) \in SUBSET D
    BY DEF RowOK
  <1>4. Rec(walk)
    <2> DEFINE step == [x \in (1..N) \X SUBSET D |-> Step(x[2])]
    <2>1. step \in [(1..N) \X SUBSET D -> SUBSET D] /\ {first} \in SUBSET D
      BY <1>2, <1>3
    <2> HIDE DEF N
    <2>2. PICK f : Iterates(f, SUBSET D, {first}, step, N)
      <3> HIDE DEF step, D
      <3> QED
        BY <1>2, <2>1, Iteration
    <2>3. \A n \in 0..N : n # 0 => n \in 1..N /\ n - 1 \in 0..N /\ f[n - 1] \in SUBSET D
      BY <1>2, <2>2 DEF Iterates
    <2>4. \A n \in 0..N : n # 0 => n \in 1..N /\ step[<<n, f[n - 1]>>] = Step(f[n - 1])
      BY <2>3
    <2>5. f = [n \in 0..N |-> IF n = 0 THEN {first} ELSE Step(f[n - 1])]
      <3> HIDE DEF step, Step
      <3> QED
        BY <2>2, <2>4 DEF Iterates
    <2>6. Rec(f)
      BY <2>5
    <2> QED
      BY <2>6
  <1> HIDE DEF walk
  <1> DEFINE T == {n \in 0..N : walk[n] \in SUBSET D}
  <1>5. walk[0] = {first} /\ \A n \in 0..N : n # 0 => walk[n] = Step(walk[n - 1])
    BY <1>2, <1>4
  <1> HIDE DEF N
  <1>6. 0 \in T
    BY <1>2, <1>5
  <1>7. ASSUME NEW n \in T, n < N PROVE n + 1 \in T
    <2>1. n + 1 \in 0..N /\ n + 1 # 0 /\ n + 1 - 1 = n
      BY <1>2, <1>7
    <2>2. walk[n + 1] = Step(walk[n])
      BY <1>5, <2>1
    <2> QED
      BY <1>3, <2>1, <2>2
  <1>8. N \in T
    <2> HIDE DEF T
    <2>1. T \subseteq 0..N
      BY DEF T
    <2>2. T = 0..N
      BY <1>2, <1>6, <1>7, <2>1, Counting
    <2> QED
      BY <1>2, <2>2
  <1> QED
    BY <1>1, <1>8

-----------------------------------------------------------------------------
(* The calls.                                                              *)

LEMMA InitHeap ==
  ASSUME HeapInit
  PROVE  HeapInv
  <1>1. DOMAIN entry = {first} /\ entry[first].next = NULL /\ entry[first].size = Region - H
    BY DEF HeapInit
  <1>2. LastEntry = first
    BY <1>1 DEF LastEntry
  <1>3. IsFiniteSet({first})
    BY FS_Singleton
  <1>4. RowOK
    BY <1>1, <1>2, <1>3 DEF RowOK, first
  <1> QED
    BY <1>1, <1>2, <1>4 DEF HeapInit, HeapInv, LastOK, GivenOK

\* What a caller may ask for: the last entry is free, and what is then left
\* of the region still has room for a header.
LEMMA RoomAtLast ==
  ASSUME RowOK, NEW size, HasSpace(size)
  PROVE  entry[LastEntry].free /\ (LastEntry = first \/ LastEntry + H + size + H < Region)
  BY RowInside DEF HasSpace, RowOK

\* Taking the first and only entry whole.
LEMMA FitStep ==
  ASSUME HeapInv, NEW size \in Nat \ {0}, LastEntry = first, entry[LastEntry].free,
         size <= Region - H,
         entry' = [entry EXCEPT ![LastEntry].free = FALSE],
         given' = given \cup {[at |-> LastEntry + H, size |-> size]}
  PROVE  HeapInv'
  <1>1. Region \in Nat \ {0} /\ H \in Nat \ {0} /\ H < Region
    BY SizeAssumption
  <1>2. /\ DOMAIN entry = {first} /\ IsFiniteSet(DOMAIN entry)
        /\ entry[first].next = NULL /\ entry[first].size = Region - H
    <2>1. /\ IsFiniteSet(DOMAIN entry) /\ DOMAIN entry \subseteq Nat /\ first \in DOMAIN entry
          /\ \A a \in DOMAIN entry : a <= first
          /\ entry[first].next = NULL /\ entry[first].size = Region - H
      BY DEF HeapInv, RowOK, LastOK
    <2>2. \A a \in DOMAIN entry : a = first
      BY <2>1 DEF first
    <2>3. DOMAIN entry = {first}
      BY <2>1, <2>2
    <2> QED
      BY <2>1, <2>3
  <1>3. /\ DOMAIN entry' = {first} /\ ~entry'[first].free
        /\ entry'[first].next = NULL /\ entry'[first].size = Region - H
    <2>1. entry'[first] = [entry[first] EXCEPT !.free = FALSE]
      BY <1>2
    <2> QED
      BY <1>2, <2>1
  <1>4. LastEntry' = first
    BY <1>3 DEF LastEntry
  <1>5. RowOK' /\ LastOK'
    BY <1>2, <1>3, <1>4 DEF RowOK, LastOK, first
  <1>6. \A b \in given : b.at = NULL /\ b.size \in Nat \ {0} /\ b.size > Region - H
    BY <1>2 DEF HeapInv, GivenOK
  <1>7. GivenOK'
    <2> DEFINE n == [at |-> LastEntry + H, size |-> size]
    <2>1. n.at = H /\ n.size = size /\ n.at # NULL /\ n.at - H = first
      BY <1>1 DEF first, NULL
    <2>2. \A b \in given' : b = n \/ b \in given
      OBVIOUS
    <2> HIDE DEF n
    <2>3. ASSUME NEW b \in given'
          PROVE  /\ b.size \in Nat \ {0}
                 /\ b.at = NULL <=> b.size > Region - H
                 /\ b.at # NULL => b.at \in Nat /\ b.at - H = first
      BY <1>1, <1>6, <2>1, <2>2
    <2>4. ASSUME NEW b \in given', NEW c \in given', b.at # NULL, c.at # NULL
          PROVE  b = c
      BY <1>6, <2>2, <2>4
    <2> QED
      BY <1>3, <1>4, <2>3, <2>4 DEF GivenOK
  <1> QED
    BY <1>5, <1>7 DEF HeapInv

\* Below zero, size_t wraps around.
LEMMA Wrapped ==
  ASSUME NEW w \in Nat, NEW z \in Int, z < 0, z + w > 0
  PROVE  z % w = z + w
  <1>1. w \in Nat \ {0}
    OBVIOUS
  <1>2. z % w \in 0..(w - 1) /\ z = w * (z \div w) + (z % w) /\ z \div w \in Int
    BY <1>1
  <1>3. PICK q \in Int, r \in 0..(w - 1) : q = z \div w /\ r = z % w
    BY <1>2
  <1>4. z = w * q + r
    BY <1>2, <1>3
  <1>5. ~(q >= 0)
    <2>1. q >= 0 => w * q >= 0
      BY <1>1
    <2> QED
      BY <1>4, <2>1
  <1>6. ~(q <= -2)
    <2>1. ASSUME q <= -2 PROVE w * q <= w * (-2)
      BY <1>1, <2>1
    <2>2. w * (-2) = -w - w
      OBVIOUS
    <2> QED
      BY <1>4, <2>1, <2>2
  <1>7. q = -1
    BY <1>5, <1>6
  <1>8. w * (-1) = -w
    OBVIOUS
  <1> QED
    BY <1>3, <1>4, <1>7, <1>8

\* Splitting the last entry.  What the tail believes to have is at least what
\* is left, or wraps around to at least as much.
LEMMA SplitStep ==
  ASSUME HeapInv, NEW size \in Nat \ {0}, entry[LastEntry].free,
         LastEntry + H + size + H < Region,
         entry' = split(LastEntry, size),
         given' = given \cup {[at |-> LastEntry + H, size |-> size]}
  PROVE  HeapInv'
  <1> DEFINE x == entry[LastEntry].size
             y == (size - (x + H)) % Word
             left == Region - LastEntry - H
  <1>1. Region \in Nat \ {0} /\ H \in Nat \ {0} /\ H < Region /\ Word \in Nat /\ 4 * Region < Word
    BY SizeAssumption
  <1>2. /\ IsFiniteSet(DOMAIN entry) /\ DOMAIN entry \subseteq Nat /\ first \in DOMAIN entry
        /\ LastEntry \in DOMAIN entry /\ entry[LastEntry].next = NULL /\ LastEntry \in Nat
        /\ \A a \in DOMAIN entry : a <= LastEntry
    BY DEF HeapInv, RowOK
  <1>3. PICK l \in Nat : l = LastEntry
    BY <1>2
  <1>4. PICK next \in Nat : next = l + size + H
    BY <1>1
  <1>5. next > l /\ next # NULL /\ next # first /\ next \notin DOMAIN entry /\ next + H < Region
    BY <1>1, <1>2, <1>3, <1>4 DEF first, NULL
  <1>6. /\ DOMAIN entry' = DOMAIN entry \cup {next}
        /\ entry'[l] = [free |-> FALSE, size |-> size, next |-> next]
        /\ entry'[next] = [free |-> TRUE, next |-> NULL, size |-> y]
        /\ \A a \in DOMAIN entry : a # l => entry'[a] = entry[a]
    BY <1>2, <1>3, <1>4, <1>5 DEF split
  <1> HIDE DEF y
  <1>7. LastEntry' = next
    <2>1. \A a \in DOMAIN entry : a # l => entry[a].next # NULL
      BY <1>3 DEF HeapInv, RowOK
    <2>2. \A a \in DOMAIN entry' : entry'[a].next = NULL <=> a = next
      BY <1>5, <1>6, <2>1
    <2> QED
      BY <1>6, <2>2 DEF LastEntry
  <1>8. y \in Nat /\ \/ Region - next - H <= y /\ y <= Region + next
                     \/ Region - next - H <= Word - y /\ Word - y <= Region + next
    <2>1. PICK z \in Int : z = size - (x + H) /\ y = z % Word
      <3>1. x \in Nat
        BY <1>1 DEF HeapInv, LastOK
      <3> QED
        BY <1>1, <3>1 DEF y
    <2>2. CASE LastEntry = first
      <3>1. x = Region - H /\ l = 0
        BY <1>3, <2>2 DEF HeapInv, LastOK, first
      <3>2. z < 0 /\ z + Word > 0 /\ z = size - Region
        BY <1>1, <1>4, <1>5, <2>1, <3>1
      <3>3. y = z + Word
        BY <1>1, <2>1, <3>2, Wrapped
      <3> QED
        BY <1>1, <1>4, <1>5, <3>1, <3>2, <3>3
    <2>3. CASE LastEntry # first
      <3>1. /\ x \in Nat
            /\ \/ Region - l - H <= x /\ x <= Region + l
               \/ Region - l - H <= Word - x /\ Word - x <= Region + l
        BY <1>3, <2>3 DEF HeapInv, LastOK
      <3> HIDE DEF x
      <3>2. z < 0 /\ z + Word > 0
        BY <1>1, <1>3, <1>4, <1>5, <2>1, <3>1
      <3>3. y = z + Word
        BY <1>1, <2>1, <3>2, Wrapped
      <3> QED
        BY <1>1, <1>3, <1>4, <1>5, <2>1, <3>1, <3>2, <3>3
    <2> QED
      BY <2>2, <2>3
  <1>9. RowOK'
    <2>1. IsFiniteSet(DOMAIN entry')
      BY <1>2, <1>6, FS_AddElement
    <2>2. DOMAIN entry' \subseteq Nat /\ first \in DOMAIN entry' /\ \A a \in DOMAIN entry' : a <= next
      BY <1>2, <1>3, <1>5, <1>6
    <2>3. ASSUME NEW a \in DOMAIN entry', a # next
          PROVE  /\ ~entry'[a].free /\ entry'[a].next # NULL /\ entry'[a].size \in Nat
                 /\ Behind(entry', a) \in DOMAIN entry'
                 /\ \A z \in DOMAIN entry' : z <= a \/ Behind(entry', a) <= z
      <3>1. CASE a = l
        <4>1. Behind(entry', a) = next
          BY <1>1, <1>4, <1>6, <3>1 DEF Behind
        <4> QED
          BY <1>2, <1>3, <1>5, <1>6, <3>1, <4>1
      <3>2. CASE a # l
        <4>1. a \in DOMAIN entry /\ entry'[a] = entry[a]
          BY <1>6, <2>3, <3>2
        <4>2. /\ ~entry[a].free /\ entry[a].next # NULL /\ entry[a].size \in Nat
              /\ Behind(entry, a) \in DOMAIN entry
              /\ \A z \in DOMAIN entry : z <= a \/ Behind(entry, a) <= z
          BY <1>3, <3>2, <4>1 DEF HeapInv, RowOK
        <4>3. Behind(entry', a) = Behind(entry, a)
          BY <4>1 DEF Behind
        <4>4. Behind(entry, a) <= next
          BY <1>2, <1>3, <1>5, <4>2
        <4> QED
          BY <1>6, <4>1, <4>2, <4>3, <4>4
      <3> QED
        BY <3>1, <3>2
    <2>4. next \in DOMAIN entry' /\ entry'[next].next = NULL
      BY <1>6
    <2> QED
      BY <1>7, <2>1, <2>2, <2>3, <2>4 DEF RowOK, Behind
  <1>10. LastOK'
    BY <1>1, <1>4, <1>5, <1>6, <1>7, <1>8 DEF LastOK
  <1>11. GivenOK'
    <2> DEFINE n == [at |-> LastEntry + H, size |-> size]
    <2>1. n.at = l + H /\ n.size = size /\ n.at # NULL /\ n.at - H = l /\ n.at \in Nat
      BY <1>1, <1>3 DEF NULL
    <2>2. \A b \in given' : b = n \/ b \in given
      OBVIOUS
    <2> HIDE DEF n
    <2>3. size <= Region - H
      BY <1>1, <1>3, <1>4, <1>5
    <2>4. ASSUME NEW b \in given
          PROVE  /\ b.size \in Nat \ {0}
                 /\ b.at = NULL <=> b.size > Region - H
                 /\ b.at # NULL =>
                      /\ b.at \in Nat /\ b.at - H \in DOMAIN entry' /\ ~entry'[b.at - H].free
                      /\ b.at - H # next /\ b.size = entry'[b.at - H].size
                      /\ b.at - H # l
      <3>1. /\ b.size \in Nat \ {0}
            /\ b.at = NULL <=> b.size > Region - H
            /\ b.at # NULL =>
                 /\ b.at \in Nat /\ b.at - H \in DOMAIN entry /\ ~entry[b.at - H].free
                 /\ b.at - H # LastEntry => b.size = entry[b.at - H].size
        BY DEF HeapInv, GivenOK
      <3>2. b.at # NULL => b.at - H # l
        BY <1>3, <3>1
      <3> QED
        BY <1>3, <1>5, <1>6, <3>1, <3>2
    <2>5. /\ n.size \in Nat \ {0}
          /\ n.at = NULL <=> n.size > Region - H
          /\ n.at - H \in DOMAIN entry' /\ ~entry'[n.at - H].free
          /\ n.at - H # next /\ n.size = entry'[n.at - H].size
      BY <1>1, <1>2, <1>3, <1>5, <1>6, <2>1, <2>3
    <2>6. ASSUME NEW b \in given', NEW c \in given', b.at = c.at, b.at # NULL PROVE b = c
      <3>1. b \in given /\ c \in given => b = c
        BY <2>6 DEF HeapInv, GivenOK
      <3>2. \A z \in given : z.at # NULL => z.at # n.at
        BY <2>1, <2>4
      <3> QED
        BY <2>2, <2>6, <3>1, <3>2
    <2>7. ASSUME NEW b \in given'
          PROVE  /\ b.size \in Nat \ {0}
                 /\ b.at = NULL <=> b.size > Region - H
                 /\ b.at # NULL =>
                      /\ b.at \in Nat /\ b.at - H \in DOMAIN entry' /\ ~entry'[b.at - H].free
                      /\ b.at - H # next /\ b.size = entry'[b.at - H].size
      BY <2>1, <2>2, <2>4, <2>5
    <2> QED
      BY <1>7, <2>6, <2>7 DEF GivenOK
  <1> QED
    BY <1>9, <1>10, <1>11 DEF HeapInv

LEMMA NextHeap ==
  ASSUME HeapInv, [HeapNext]_heapVars
  PROVE  HeapInv'
  <1>1. CASE UNCHANGED heapVars
    BY <1>1 DEF heapVars, HeapInv, RowOK, LastOK, GivenOK, LastEntry, Behind
  <1>2. ASSUME NEW size \in Requests, HasSpace(size), malloc(size)
        PROVE  HeapInv'
    <2>1. size \in Nat \ {0} /\ Region \in Nat /\ H \in Nat \ {0} /\ Word \in Nat
          /\ 4 * Region < Word
      BY SizeAssumption
    <2>2. Found(size) = LastEntry /\ entry[LastEntry].free
          /\ (LastEntry = first \/ LastEntry + H + size + H < Region)
      BY <1>2, FoundLast, RoomAtLast DEF HeapInv
    <2> DEFINE e == entry[LastEntry]
               new == given \cup {[at |-> LastEntry + H, size |-> size]}
    <2>3. \/ /\ e.size >= size /\ e.size <= size + H
             /\ entry' = [entry EXCEPT ![LastEntry].free = FALSE] /\ given' = new
          \/ /\ e.size > size + H
             /\ entry' = split(LastEntry, size) /\ given' = new
          \/ /\ e.size < size
             /\ given' = given \cup {[at |-> NULL, size |-> size]} /\ UNCHANGED entry
      BY <1>2, <2>2 DEF malloc
    <2>4. LastEntry \in Nat
      BY DEF HeapInv, RowOK
    <2>5. CASE LastEntry = first
      <3>1. e.size = Region - H
        BY <2>5 DEF HeapInv, LastOK
      <3>2. CASE e.size >= size /\ e.size <= size + H /\ entry' = [entry EXCEPT ![LastEntry].free = FALSE]
                 /\ given' = new
        BY <2>1, <2>2, <2>5, <3>1, <3>2, FitStep
      <3>3. CASE e.size > size + H /\ entry' = split(LastEntry, size) /\ given' = new
        <4>1. LastEntry + H + size + H < Region
          BY <2>1, <2>5, <3>1, <3>3 DEF first
        <4> QED
          BY <2>1, <2>2, <3>3, <4>1, SplitStep
      <3>4. CASE e.size < size /\ given' = given \cup {[at |-> NULL, size |-> size]} /\ UNCHANGED entry
        <4>1. RowOK' /\ LastOK'
          BY <3>4 DEF HeapInv, RowOK, LastOK, LastEntry, Behind
        <4>2. LastEntry' = LastEntry
          BY <3>4 DEF LastEntry
        <4>3. size > Region - H
          BY <2>1, <3>1, <3>4
        <4>4. GivenOK'
          BY <2>1, <3>4, <4>2, <4>3 DEF HeapInv, GivenOK
        <4> QED
          BY <4>1, <4>4 DEF HeapInv
      <3> QED
        BY <2>3, <3>2, <3>3, <3>4
    <2>6. CASE LastEntry # first
      <3>1. LastEntry + H + size + H < Region
        BY <2>2, <2>6
      <3>2. e.size > size + H
        <4>1. /\ e.size \in Nat
              /\ \/ Region - LastEntry - H <= e.size
                 \/ Word - e.size <= Region + LastEntry
          BY <2>6 DEF HeapInv, LastOK
        <4> HIDE DEF e
        <4> QED
          BY <2>1, <2>4, <3>1, <4>1
      <3>3. e.size \in Nat
        BY <2>6 DEF HeapInv, LastOK
      <3>4. entry' = split(LastEntry, size) /\ given' = new
        <4> HIDE DEF e
        <4> QED
          BY <2>1, <2>3, <3>2, <3>3
      <3> QED
        BY <2>1, <2>2, <3>1, <3>4, SplitStep
    <2> QED
      BY <2>5, <2>6
  <1> QED
    BY <1>1, <1>2 DEF HeapNext

LEMMA SpecHeap == HeapSpec => []HeapInv
  BY InitHeap, NextHeap, PTL DEF HeapSpec

-----------------------------------------------------------------------------

\* malloc finds memory for every call that the region has room for, in spite
\* of the sizes that split gets wrong.
THEOREM MallocSucceeds == HeapSpec => []Succeeds
  <1>1. HeapInv => Succeeds
    BY DEF HeapInv, GivenOK, Succeeds
  <1> QED
    BY <1>1, SpecHeap, PTL

\* What malloc gives is inside of the region, and apart from everything else
\* that it has given and from all headers.
THEOREM MallocApart == HeapSpec => []Apart
  <1>1. ASSUME HeapInv, NEW b \in given, b.at # NULL
        PROVE  /\ b.at >= H /\ b.at + b.size <= Region
               /\ \A c \in given \ {b} : c.at = NULL \/ b.at + b.size <= c.at - H \/ c.at + c.size <= b.at - H
               /\ \A a \in Row : a + H <= b.at \/ b.at + b.size <= a
    <2>1. Region \in Nat \ {0} /\ H \in Nat \ {0}
      BY SizeAssumption
    <2>2. /\ DOMAIN entry \subseteq Nat /\ \A a \in DOMAIN entry : a <= LastEntry
          /\ LastEntry \in Nat /\ Row \subseteq DOMAIN entry
      BY <1>1, RowInside DEF HeapInv, RowOK
    <2>3. ASSUME NEW c \in given, c.at # NULL
          PROVE  /\ c.at \in Nat /\ c.size \in Nat /\ c.at - H \in DOMAIN entry
                 /\ \A a \in DOMAIN entry : a <= c.at - H \/ c.at + c.size <= a
      <3>1. /\ c.at \in Nat /\ c.size \in Nat /\ c.at - H \in DOMAIN entry
            /\ c.at - H # LastEntry => c.size = entry[c.at - H].size
        BY <1>1, <2>3 DEF HeapInv, GivenOK
      <3>2. CASE c.at - H = LastEntry
        BY <2>2, <3>1, <3>2
      <3>3. CASE c.at - H # LastEntry
        <4>1. PICK l \in DOMAIN entry : l = c.at - H
          BY <3>1
        <4>2. \A a \in DOMAIN entry : a <= l \/ Behind(entry, l) <= a
          BY <1>1, <3>3, <4>1 DEF HeapInv, RowOK
        <4>3. Behind(entry, l) = c.at + c.size
          BY <2>1, <3>1, <3>3, <4>1 DEF Behind
        <4> QED
          BY <3>1, <4>1, <4>2, <4>3
      <3> QED
        BY <3>2, <3>3
    <2>4. b.at >= H /\ b.at + b.size <= Region
      <3>1. b.at \in Nat /\ b.size \in Nat /\ b.at - H \in Nat
        BY <1>1, <2>2, <2>3
      <3>2. CASE b.at - H = LastEntry
        <4>1. LastEntry = first /\ ~(b.size > Region - H)
          BY <1>1, <3>2 DEF HeapInv, GivenOK
        <4> QED
          BY <2>1, <3>1, <3>2, <4>1 DEF first
      <3>3. CASE b.at - H # LastEntry
        <4>1. LastEntry \in DOMAIN entry /\ (LastEntry # first => Region - LastEntry - H > 0)
          BY <1>1 DEF HeapInv, RowOK, LastOK
        <4>2. LastEntry # first /\ ~(LastEntry <= b.at - H)
          BY <1>1, <2>2, <2>3, <3>1, <3>3 DEF first
        <4>3. b.at + b.size <= LastEntry
          BY <1>1, <2>3, <4>1, <4>2
        <4> QED
          BY <2>1, <2>2, <3>1, <4>1, <4>2, <4>3
      <3> QED
        BY <3>2, <3>3
    <2>5. ASSUME NEW c \in given \ {b}, c.at # NULL
          PROVE  b.at + b.size <= c.at - H \/ c.at + c.size <= b.at - H
      <3>1. b.at # c.at
        BY <1>1, <2>5 DEF HeapInv, GivenOK
      <3>2. /\ b.at \in Nat /\ c.at \in Nat
            /\ c.at - H <= b.at - H \/ b.at + b.size <= c.at - H
            /\ b.at - H <= c.at - H \/ c.at + c.size <= b.at - H
        BY <1>1, <2>3, <2>5
      <3> QED
        BY <2>1, <3>1, <3>2
    <2>6. ASSUME NEW a \in Row PROVE a + H <= b.at \/ b.at + b.size <= a
      <3>1. a \in Nat /\ b.at \in Nat /\ (a <= b.at - H \/ b.at + b.size <= a)
        BY <1>1, <2>2, <2>3
      <3> QED
        BY <2>1, <3>1
    <2> QED
      BY <2>4, <2>5, <2>6
  <1>2. HeapInv => Apart
    BY <1>1 DEF Apart
  <1> QED
    BY <1>2, SpecHeap, PTL
=============================================================================
