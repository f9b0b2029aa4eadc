----------------------------- MODULE MCBootMemory -----------------------------
(* Two machines, two kernels.  In the first, the kernel's pages are the     *)
(* last of nine in a block of the loader's code; in the second they would  *)
(* be the last of a usable block if the map were older than the kernel,    *)
(* and neighbours of one type are joined into blocks of nine pages.        *)
EXTENDS PhysicalMemory

Of(pages, type) == [p \in pages |-> type]

Crowded == [memory |-> Of(1..3, Free) @@ Of({4}, "EfiACPIReclaimMemory") @@ Of({5}, "EfiBootServicesData")
                       @@ Of(13..19, "EfiLoaderCode") @@ Of(20..21, Free),
            modes |-> << "vga", "wanted", "wide" >>, mode |-> "vga"]

Roomy == [memory |-> Of(10..21, Free) @@ Of({22, 24}, "EfiBootServicesData"),
          modes |-> << "vga" >>, mode |-> "vga"]

Header(type, offset, vaddr, filesz, memsz) ==
  [type |-> type, offset |-> offset, vaddr |-> vaddr, filesz |-> filesz, memsz |-> memsz]

\* Data and, in its page, zeros; and a kernel whose headers are not in order.
Plain    == [size |-> 6, headers |-> << Header("PT_LOAD", 1, 80, 3, 3), Header("PT_LOAD", 4, 84, 2, 3) >>]
Reversed == [size |-> 8, headers |-> << Header("PT_GNU_STACK", 0, 0, 0, 0), Header("PT_LOAD", 6, 84, 1, 4),
                                        Header("PT_LOAD", 2, 80, 4, 4) >>]

\* A descriptor begins where the type changes, and at each of cuts, where
\* only the attributes do.  They come in order of address, but from first on.
InOrder(mem, cuts, first) ==
  LET starts == {p \in DOMAIN mem : p - 1 \notin DOMAIN mem \/ mem[p - 1] # mem[p] \/ p \in cuts}
      Before(p, q) == IF (p >= first) = (q >= first) THEN p < q ELSE p >= first
      order == SetToSortSeq(starts, Before)
      Run(p) == {q \in DOMAIN mem : p <= q /\ ~\E s \in starts : p < s /\ s <= q}
  IN [k \in DOMAIN order |-> [start |-> order[k], pages |-> Cardinality(Run(order[k])),
                              type |-> mem[order[k]]]]

MCMemoryMaps(mem) == {InOrder(mem, {17}, 13), InOrder(mem, {15}, 1)}

MCFirmwares == {Crowded, Roomy}
MCImages == {Plain, Reversed}
=============================================================================
