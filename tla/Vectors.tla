------------------------------- MODULE Vectors -------------------------------
(* Vector<T> of kernel/include/SmartOS.h: the kernel thread pushes, store  *)
(* by store, while the graphics thread and interrupt handlers walk the     *)
(* same list without a lock (graphicsUpdate over windows, keyboardIRQ over *)
(* keyHandlers).  The kernel is compiled without optimisation: stores stay *)
(* in the order of the code.                                               *)
EXTENDS Naturals

CONSTANTS
  Items,      \* values of T
  Readers,    \* threads and handlers that loop over the vector
  Capacity,   \* bound on the pushes
  Fill        \* what memory from new may hold

Addr == 1..Capacity
NULL == 0

\* VectorItem.
Item == [t : Items, next : Addr \cup {NULL}]

ASSUME CapacityAssumption == Capacity \in Nat
ASSUME ItemAssumption     == Items # {}
ASSUME FillAssumption     == Fill \subseteq Item

VARIABLES
  first, length,   \* of the vector
  node,            \* memory; new gives out addresses in order
  used,            \* addresses given out
  writer,          \* push: where it is, and item
  reader,          \* each loop over the vector: where it is, i, item, steps walked
  pushed           \* the arguments of the pushes (history)

vars == <<first, length, node, used, writer, reader, pushed>>

-----------------------------------------------------------------------------
(* push                                                                    *)

At(p) == writer.at = p

Push(t) ==
  /\ At("out") /\ used < Capacity
  /\ pushed' = [pushed EXCEPT ![used + 1] = t]
  /\ writer' = IF length # 0 THEN [at |-> "walk", item |-> first]
               ELSE [at |-> "first", item |-> NULL]
  /\ UNCHANGED <<first, length, node, used, reader>>

PushWalk ==
  /\ At("walk")
  /\ writer' = IF node[writer.item].next # NULL
               THEN [writer EXCEPT !.item = node[writer.item].next]
               ELSE [writer EXCEPT !.at = "link"]
  /\ UNCHANGED <<first, length, node, used, reader, pushed>>

\* Mutant: the length is counted with the link.
PushLink_CountEarly ==
  /\ At("link")
  /\ node' = [node EXCEPT ![writer.item].next = used + 1]
  /\ used' = used + 1 /\ length' = length + 1
  /\ writer' = [at |-> "next", item |-> used + 1]
  /\ UNCHANGED <<first, reader, pushed>>

\* item->next = new VectorItem
PushLink ==
  /\ At("link")
  /\ node' = [node EXCEPT ![writer.item].next = used + 1]
  /\ used' = used + 1
  /\ writer' = [at |-> "next", item |-> used + 1]
  /\ UNCHANGED <<first, length, reader, pushed>>

\* first = new VectorItem
PushFirst ==
  /\ At("first")
  /\ first' = used + 1
  /\ used' = used + 1
  /\ writer' = [at |-> "next", item |-> used + 1]
  /\ UNCHANGED <<length, node, reader, pushed>>

PushNext ==
  /\ At("next")
  /\ node' = [node EXCEPT ![writer.item].next = NULL]
  /\ writer' = [writer EXCEPT !.at = "t"]
  /\ UNCHANGED <<first, length, used, reader, pushed>>

PushT ==
  /\ At("t")
  /\ node' = [node EXCEPT ![writer.item].t = pushed[used]]
  /\ writer' = [writer EXCEPT !.at = "count"]
  /\ UNCHANGED <<first, length, used, reader, pushed>>

PushCount ==
  /\ At("count")
  /\ length' = length + 1
  /\ writer' = [at |-> "out", item |-> NULL]
  /\ UNCHANGED <<first, node, used, reader, pushed>>

Writer == PushWalk \/ PushLink \/ PushFirst \/ PushNext \/ PushT \/ PushCount

-----------------------------------------------------------------------------
(* A loop `for (i = 0; i < v.size(); i++) ... v[i] ...`, over and over.     *)

\* The loop's condition, then `item = first` of operator[].
ReadSize(r) ==
  /\ reader[r].at = "size"
  /\ reader' = [reader EXCEPT ![r] =
                  IF @.i < length THEN [@ EXCEPT !.at = "first"] ELSE [@ EXCEPT !.i = 0]]
  /\ UNCHANGED <<first, length, node, used, writer, pushed>>

ReadFirst(r) ==
  /\ reader[r].at = "first"
  /\ reader' = [reader EXCEPT ![r] = [@ EXCEPT !.at = "walk", !.item = first, !.k = 0]]
  /\ UNCHANGED <<first, length, node, used, writer, pushed>>

ReadWalk(r) ==
  /\ reader[r].at = "walk" /\ reader[r].k < reader[r].i /\ reader[r].item # NULL
  /\ reader' = [reader EXCEPT ![r].item = node[reader[r].item].next, ![r].k = @ + 1]
  /\ UNCHANGED <<first, length, node, used, writer, pushed>>

\* item->t, and the loop's i++.
ReadItem(r) ==
  /\ reader[r].at = "walk" /\ reader[r].k = reader[r].i /\ reader[r].item # NULL
  /\ reader' = [reader EXCEPT ![r].at = "size", ![r].i = @ + 1]
  /\ UNCHANGED <<first, length, node, used, writer, pushed>>

-----------------------------------------------------------------------------
Init ==
  /\ first = NULL /\ length = 0
  /\ used = 0
  /\ \E f \in Fill : node = [a \in Addr |-> f]
  /\ writer = [at |-> "out", item |-> NULL]
  /\ reader = [r \in Readers |-> [at |-> "size", i |-> 0, item |-> NULL, k |-> 0]]
  /\ pushed \in [Addr -> {CHOOSE t \in Items : TRUE}]

Read(r) == ReadSize(r) \/ ReadFirst(r) \/ ReadWalk(r) \/ ReadItem(r)

Next ==
  \/ \E t \in Items : Push(t)
  \/ Writer
  \/ \E r \in Readers : Read(r)

Spec == Init /\ [][Next]_vars

-----------------------------------------------------------------------------
(* What must hold.                                                         *)

WriterPlaces == {"out", "walk", "link", "first", "next", "t", "count"}

\* Every variable keeps to its type; the length counts what is complete.
TypeOK ==
  /\ first \in Addr \cup {NULL} /\ used \in 0..Capacity
  /\ length \in Nat
  /\ node \in [Addr -> Item]
  /\ writer \in [at : WriterPlaces, item : Addr \cup {NULL}]
  /\ reader \in [Readers -> [at : {"size", "first", "walk"}, i : Nat,
                             item : Addr \cup {NULL}, k : Nat]]
  /\ pushed \in [Addr -> Items]
  /\ length = IF writer.at \in {"next", "t", "count"} THEN used - 1 ELSE used

\* A loop that runs while push does never follows a null or uninitialised
\* pointer, and what it takes for element i is the argument of push i.
ReadsRight ==
  \A r \in Readers :
    reader[r].at = "walk" =>
      /\ reader[r].item # NULL
      /\ reader[r].k = reader[r].i =>
           node[reader[r].item].t = pushed[reader[r].i + 1]
=============================================================================
