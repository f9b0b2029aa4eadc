--------------------------------- MODULE Heap --------------------------------
(* Heap::malloc (kernel/src/Heap.cpp): entries in a row, each with a header *)
(* before its memory.  The size that split gives the tail is computed the  *)
(* wrong way round in size_t: it alternates between almost 2^64 and more   *)
(* than is left.  Nothing but the callers keeps the last entry inside of   *)
(* the region.  Nothing in the kernel frees: free and clean, which trust   *)
(* the sizes, are left out.                                                *)
EXTENDS Integers, FiniteSets

CONSTANTS
  Region,    \* size of a heap: 64 KiB
  H,         \* sizeof(HeapEntry)
  Word,      \* 2^64
  Requests   \* sizes asked for

ASSUME SizeAssumption == /\ {Region, H, Word} \subseteq Nat \ {0} /\ Requests \subseteq Nat \ {0}
                         /\ H < Region /\ 4 * Region < Word

NULL == -1
first == 0

VARIABLES
  entry,   \* the headers that have been written, by address
  given    \* memory that callers hold

heapVars == <<entry, given>>

-----------------------------------------------------------------------------
\* The header that the address computed from one leads to.
Behind(e, a) == a + H + e[a].size

\* Mutant: size and not the old size is what is left.
split_TailTooSmall(a, size) ==
  LET next == a + size + H IN
  [x \in DOMAIN entry \cup {next} |->
     CASE x = a -> [free |-> FALSE, size |-> size, next |-> next]
       [] x = next -> [free |-> TRUE, next |-> entry[a].next, size |-> size]
       [] OTHER -> entry[x]]

split(a, size) ==
  LET next == a + size + H IN
  [x \in DOMAIN entry \cup {next} |->
     CASE x = a -> [free |-> FALSE, size |-> size, next |-> next]
       [] x = next -> [free |-> TRUE, next |-> entry[a].next,
                       size |-> (size - (entry[a].size + H)) % Word]
       [] OTHER -> entry[x]]

\* Mutant: entries in use are not passed over.
Fits_Any(e, size) == e.size >= size

\* The loop of malloc goes on to the next entry unless this holds.
Fits(e, size) == e.size >= size /\ e.free

\* The entry the loop ends with: the first that fits, or the last.
Found(size) ==
  LET walk[n \in 0..Cardinality(DOMAIN entry)] ==
        IF n = 0 THEN first
        ELSE LET a == walk[n - 1] IN
             IF Fits(entry[a], size) \/ entry[a].next = NULL THEN a
             ELSE Behind(entry, a)
  IN walk[Cardinality(DOMAIN entry)]

malloc(size) ==
  LET a == Found(size)
      e == entry[a]
  IN
  \/ /\ e.size >= size /\ e.size <= size + H
     /\ entry' = [entry EXCEPT ![a].free = FALSE]
     /\ given' = given \cup {[at |-> a + H, size |-> size]}
  \/ /\ e.size > size + H
     /\ entry' = split(a, size)
     /\ given' = given \cup {[at |-> a + H, size |-> size]}
  \/ /\ e.size < size
     /\ given' = given \cup {[at |-> NULL, size |-> size]}
     /\ UNCHANGED entry

-----------------------------------------------------------------------------
\* Heap::Heap
HeapInit ==
  /\ entry = [x \in {first} |-> [free |-> TRUE, size |-> Region - H, next |-> NULL]]
  /\ given = {}

\* The entries that a walk comes to.
Row ==
  LET walk[n \in 0..Cardinality(DOMAIN entry)] ==
        IF n = 0 THEN {first}
        ELSE walk[n - 1] \cup
             {Behind(entry, a) : a \in {x \in walk[n - 1] \cap DOMAIN entry :
                                          entry[x].next # NULL}}
  IN walk[Cardinality(DOMAIN entry)]

\* Callers ask for no more than the end of the region still has room for,
\* with the header of what is then left, which a heap never checks; only the
\* size of a heap in one piece is right, so that the first call may ask for
\* anything.
HasSpace(size) ==
  \E a \in Row : /\ entry[a].next = NULL /\ entry[a].free
                 /\ a = first \/ a + H + size + H < Region

HeapNext == \E s \in Requests : HasSpace(s) /\ malloc(s)

HeapSpec == HeapInit /\ [][HeapNext]_heapVars

-----------------------------------------------------------------------------
\* malloc finds memory for every such call, although it believes a size that
\* is wrong, and fails for one that is larger than the region.
Succeeds == \A b \in given : b.at = NULL <=> b.size > Region - H

\* What callers hold is inside of the region and apart from what others hold
\* and from every header.
Apart ==
  \A b \in {c \in given : c.at # NULL} :
    /\ b.at >= H /\ b.at + b.size <= Region
    /\ \A c \in given \ {b} : c.at = NULL \/ b.at + b.size <= c.at - H \/ c.at + c.size <= b.at - H
    /\ \A a \in Row : a + H <= b.at \/ b.at + b.size <= a
=============================================================================
