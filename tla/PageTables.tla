----------------------------- MODULE PageTables ------------------------------
(* Page directories as the tables in memory that the processor walks       *)
(* (PageDirectory in kernel/src/MMU.cpp).  A table is a page of entries; a  *)
(* directory is the page of its top table.  mapPage runs in the kernel     *)
(* thread with interrupts on while other threads use the directory, so it  *)
(* goes store by store; clone runs once, in initializeScheduler, with      *)
(* interrupts off and is one action.  The code unrolls four levels; here   *)
(* the levels are counted.                                                 *)
EXTENDS Naturals, Sequences, FiniteSets

CONSTANTS
  Depth,      \* levels of tables: 4
  Index,      \* indices of the entries of a table
  Virt,       \* the virtual pages that are mapped: sequences of indices
  Frames,     \* what they are mapped to
  Rights,     \* flags passed to mapPage: is RW among them?
  Fill,       \* what memory that nobody has written yet may hold
  LastPage,   \* bound on the pages kmalloc_a hands out
  MaxDirs     \* bound on the directories

ASSUME DepthAssumption == Depth \in Nat /\ Depth >= 1
ASSUME IndexAssumption == Index \subseteq Nat /\ IsFiniteSet(Index)
ASSUME VirtAssumption  == Virt \subseteq [1..Depth -> Index]
ASSUME PageAssumption  == LastPage \in Nat /\ Frames \subseteq Nat
ASSUME RightsAssumption == Rights \subseteq BOOLEAN

Pages == 0..LastPage

\* An entry: MMU_PRESENT, the address, MMU_RW.
Entry == [present : BOOLEAN, addr : Pages \cup Frames, writable : BOOLEAN]

\* An entry of a table that was memset to 0, or that clone wrote 0 to.
Zero == [present |-> FALSE, addr |-> 0, writable |-> FALSE]

ASSUME FillAssumption == Fill \subseteq Entry

VARIABLES
  mem,     \* the pages that are used as tables
  free,    \* kmallocAddr, in pages
  dirs,    \* the PageDirectory objects
  call     \* the mapPage that is under way

vars == <<mem, free, dirs, call>>

kernelDirectory == 0

Idle == [busy |-> FALSE]

-----------------------------------------------------------------------------
(* The walk, as the processor does it.                                     *)

\* The table that the first n indices of v lead to from directory d.
Table(d, v, n) ==
  LET t[k \in 0..n] == IF k = 0 THEN d ELSE mem[t[k - 1]][v[k]].addr IN t[n]

EntryAt(d, v, n) == mem[Table(d, v, n - 1)][v[n]]

Present(d, v, n) == \A k \in 1..n : EntryAt(d, v, k).present

Unmapped == [frame |-> "none"]

Translate(d, v) ==
  IF Present(d, v, Depth)
  THEN [frame |-> EntryAt(d, v, Depth).addr,
        writable |-> \A k \in 1..Depth : EntryAt(d, v, k).writable]
  ELSE Unmapped

-----------------------------------------------------------------------------
\* initializeMMU: the kernel directory is allocated and zeroed; the calls of
\* map that follow are calls of mapPage like any other.
Init ==
  /\ \E f \in Fill :
       mem = [p \in Pages |-> [i \in Index |-> IF p = kernelDirectory THEN Zero ELSE f]]
  /\ free = 1
  /\ dirs = {kernelDirectory}
  /\ call = Idle

\* The tables that a mapping of v has yet to make.
Missing(d, v) == Cardinality({n \in 1..(Depth - 1) : ~Present(d, v, n)})

\* mapPage(virt, phys, flags) on directory d; `at` is the table it has come
\* to, `level` the one whose entry it looks at next.
CallMapPage(d, v, f, w) ==
  /\ call = Idle
  /\ free + Missing(d, v) <= LastPage + 1
  /\ call' = [busy |-> TRUE, virt |-> v, frame |-> f, writable |-> w,
              level |-> 1, at |-> d, new |-> 0]
  /\ UNCHANGED <<mem, free, dirs>>

Current == mem[call.at][call.virt[call.level]]

\* Mutant: kmalloc_a does not move on.
NewTable_NoAdvance ==
  /\ call.busy /\ call.level < Depth
  /\ ~Current.present /\ call.new = 0
  /\ mem' = [mem EXCEPT ![free] = [i \in Index |-> Zero]]
  /\ call' = [call EXCEPT !.new = free]
  /\ UNCHANGED <<free, dirs>>

\* kmalloc_a(0x1000) and memset of what it returns.
NewTable ==
  /\ call.busy /\ call.level < Depth
  /\ ~Current.present /\ call.new = 0
  /\ free' = free + 1
  /\ mem' = [mem EXCEPT ![free] = [i \in Index |-> Zero]]
  /\ call' = [call EXCEPT !.new = free]
  /\ UNCHANGED dirs

LinkTable ==
  /\ call.busy /\ call.new # 0
  /\ mem' = [mem EXCEPT ![call.at][call.virt[call.level]] =
               [present |-> TRUE, addr |-> call.new, writable |-> call.writable]]
  /\ call' = [call EXCEPT !.new = 0]
  /\ UNCHANGED <<free, dirs>>

Descend ==
  /\ call.busy /\ call.level < Depth
  /\ Current.present
  /\ call' = [call EXCEPT !.level = @ + 1, !.at = Current.addr]
  /\ UNCHANGED <<mem, free, dirs>>

\* pt[pt_index] = phys | flags.  mmuEnabled is never set: no reload of cr3.
StoreEntry ==
  /\ call.busy /\ call.level = Depth
  /\ mem' = [mem EXCEPT ![call.at][call.virt[Depth]] =
               [present |-> TRUE, addr |-> call.frame, writable |-> call.writable]]
  /\ call' = Idle
  /\ UNCHANGED <<free, dirs>>

-----------------------------------------------------------------------------
(* clone                                                                   *)

\* The tables of d, each named by the indices that lead to it.
Paths(d) == UNION {{q \in [1..n -> Index] : Present(d, q, n)} : n \in 0..(Depth - 1)}

\* The nested loops come to q before they come to r.
Before(q, r) ==
  \/ Len(q) < Len(r) /\ q = SubSeq(r, 1, Len(q))
  \/ \E n \in 1..Len(q) : /\ n <= Len(r) /\ q[n] < r[n]
                          /\ \A m \in 1..(n - 1) : q[m] = r[m]

\* Where kmalloc_a puts the copy of the table at q.
Copy(d, q) == free + Cardinality({r \in Paths(d) : Before(r, q)})

\* Mutant: the last table is shared instead of copied.
CopyEntry_Shared(d, q, i) ==
  LET e == mem[Table(d, q, Len(q))][i] IN
  IF Len(q) = Depth - 1 \/ (Len(q) = Depth - 2 /\ e.present) THEN e
  ELSE IF e.present
       THEN [present |-> TRUE, addr |-> Copy(d, Append(q, i)), writable |-> TRUE]
       ELSE Zero

\* Entry i of the copy of the table at q: memcpy of the last table, a new
\* table with RW and PRESENT for each one above it.
CopyEntry(d, q, i) ==
  LET e == mem[Table(d, q, Len(q))][i] IN
  IF Len(q) = Depth - 1 THEN e
  ELSE IF e.present
       THEN [present |-> TRUE, addr |-> Copy(d, Append(q, i)), writable |-> TRUE]
       ELSE Zero

Clone(d) ==
  /\ call = Idle
  /\ Cardinality(dirs) < MaxDirs
  /\ free + Cardinality(Paths(d)) <= LastPage + 1
  /\ mem' = [p \in Pages |->
               IF p \in {Copy(d, q) : q \in Paths(d)}
               THEN LET q == CHOOSE q \in Paths(d) : Copy(d, q) = p
                    IN  [i \in Index |-> CopyEntry(d, q, i)]
               ELSE mem[p]]
  /\ free' = free + Cardinality(Paths(d))
  /\ dirs' = dirs \cup {free}
  /\ UNCHANGED call

-----------------------------------------------------------------------------
Next ==
  \/ \E d \in dirs, v \in Virt, f \in Frames, w \in Rights : CallMapPage(d, v, f, w)
  \/ NewTable \/ LinkTable \/ Descend \/ StoreEntry
  \/ \E d \in dirs : Clone(d)

Spec == Init /\ [][Next]_vars

-----------------------------------------------------------------------------
(* What must hold.                                                         *)

\* Every table that a walk can come to was allocated, and no walk comes to
\* it on another way: not in the same directory and not in another one.
NoSharing ==
  \A d, e \in dirs : \A q \in Paths(d), r \in Paths(e) :
    /\ Table(d, q, Len(q)) < free
    /\ <<d, q>> # <<e, r>> => Table(d, q, Len(q)) # Table(e, r, Len(r))

\* A walk is right at every moment: mapPage changes the translation of the
\* one page of the one directory it is called for, in one step, although
\* it makes up to three tables on the way; a clone translates every page as
\* the original did, and no mapPage on either is seen by the other.
A == INSTANCE AddressSpaces WITH
       Mapping  <- [frame : Frames, writable : Rights],
       Unmapped <- Unmapped,
       space    <- [d \in dirs |-> [v \in Virt |-> Translate(d, v)]]

IsolatedSpaces == A!Spec
=============================================================================
