---------------------------- MODULE GraphicsProofs ---------------------------
(* Loops over a vector that grows, and the graphics thread, which is one:   *)
(* what it follows and where it draws, for any mode of the screen and bounds *)
(* of the mouse, any windows inside of the screen, any cursor and any        *)
(* movement of the mouse.                                                  *)
EXTENDS Graphics, TLAPS

(* First the vector alone: it is safe to loop over while another thread    *)
(* pushes, whatever the numbers of items and of loops.                     *)

\* The items that length counts are complete and linked in a row.
Row ==
  /\ \A k \in 1..length : node[k].t = pushed[k]
  /\ \A k \in 1..length : k < length => node[k].next = k + 1
  /\ length > 0 => first = 1

\* Where push is, and the end of the row there.
WriterInv ==
  /\ writer.at \in {"out", "walk", "link"} /\ length > 0 => node[length].next = NULL
  /\ writer.at \in {"walk", "link", "first"} => used < Capacity
  /\ writer.at = "walk" => writer.item \in 1..length
  /\ writer.at = "link" => length > 0 /\ writer.item = length
  /\ writer.at = "first" => length = 0
  /\ writer.at \in {"next", "t", "count"} =>
       /\ writer.item = used
       /\ length = 0 => first = used
       /\ length > 0 => node[length].next = used
  /\ writer.at \in {"t", "count"} => node[used].next = NULL
  /\ writer.at = "count" => node[used].t = pushed[used]

\* A loop is inside of the row.
ReaderInv ==
  \A r \in Readers :
    /\ reader[r].at = "first" => reader[r].i < length
    /\ reader[r].at = "walk" => /\ reader[r].i < length /\ reader[r].k <= reader[r].i
                                /\ reader[r].item = reader[r].k + 1

IInv == TypeOK /\ Row /\ WriterInv /\ ReaderInv

\* The row grows at its end only: nothing a loop relies on changes as long as
\* the items in the row stay and the length does not shrink.
LEMMA InitIInv == Init => IInv
<1> SUFFICES ASSUME Init PROVE IInv
  OBVIOUS
<1>1. (CHOOSE t \in Items : TRUE) \in Items
  BY ItemAssumption
<1>2. TypeOK
  BY <1>1, CapacityAssumption, FillAssumption DEF Init, TypeOK, WriterPlaces, NULL
<1>3. Row /\ WriterInv
  BY CapacityAssumption DEF Init, Row, WriterInv, NULL
<1>4. ReaderInv
  BY DEF Init, ReaderInv
<1> QED
  BY <1>2, <1>3, <1>4 DEF IInv

\* What push does keeps the invariant.
LEMMA PushKeepsIInv ==
  ASSUME IInv, NEW t \in Items, Push(t) \/ Writer PROVE IInv'
<1> USE CapacityAssumption DEF Addr, NULL, At
<1>r. ASSUME UNCHANGED reader, length' \in Nat, length' >= length PROVE ReaderInv'
  BY <1>r DEF IInv, TypeOK, ReaderInv
<1>1. CASE Push(t)
  <2>1. TypeOK'
    BY <1>1 DEF IInv, TypeOK, Push, WriterPlaces, Row
  <2>2. Row'
    BY <1>1 DEF IInv, TypeOK, Push, Row, WriterInv
  <2>3. WriterInv'
    BY <1>1 DEF IInv, TypeOK, Push, Row, WriterInv
  <2> QED
    BY <1>1, <1>r, <2>1, <2>2, <2>3 DEF IInv, Push, TypeOK
<1>2. CASE PushWalk
  <2>1. TypeOK'
    BY <1>2 DEF IInv, TypeOK, PushWalk, WriterPlaces, WriterInv, Item
  <2>2. Row'
    BY <1>2 DEF IInv, PushWalk, Row
  <2>i. writer.item \in 1..length /\ length = used /\ node[length].next = NULL
    BY <1>2 DEF IInv, TypeOK, PushWalk, WriterInv
  <2>n. node[writer.item].next # NULL =>
          writer.item + 1 \in 1..length /\ node[writer.item].next = writer.item + 1
    BY <2>i DEF IInv, TypeOK, Row
  <2>m. node[writer.item].next = NULL => writer.item = length
    BY <2>i DEF IInv, TypeOK, Row
  <2>3. WriterInv'
    <3>1. CASE node[writer.item].next # NULL
      <4>1. writer'.at = "walk" /\ writer'.item \in 1..length
        BY <1>2, <2>n, <3>1 DEF IInv, TypeOK, PushWalk
      <4> QED
        BY <1>2, <2>i, <4>1 DEF IInv, PushWalk, WriterInv
    <3>2. CASE node[writer.item].next = NULL
      <4>1. writer'.at = "link" /\ writer'.item = length /\ length > 0
        BY <1>2, <2>i, <2>m, <3>2 DEF IInv, TypeOK, PushWalk
      <4> QED
        BY <1>2, <2>i, <4>1 DEF IInv, PushWalk, WriterInv
    <3> QED
      BY <3>1, <3>2
  <2> QED
    BY <1>2, <1>r, <2>1, <2>2, <2>3 DEF IInv, PushWalk, TypeOK
<1>3. CASE PushLink
  <2>i. writer.item = length /\ length > 0 /\ used = length /\ used + 1 \in Addr
    BY <1>3 DEF IInv, TypeOK, PushLink, WriterInv
  <2>n. node' \in [Addr -> Item]
    <3>1. node \in [Addr -> Item] /\ used + 1 \in Addr
      BY <2>i DEF IInv, TypeOK
    <3>2. node' = [node EXCEPT ![writer.item].next = used + 1]
      BY <1>3 DEF PushLink
    <3>3. \A v \in Item : [v EXCEPT !.next = used + 1] \in Item
      BY <3>1 DEF Item
    <3> QED
      BY <3>1, <3>2, <3>3
  <2>1. TypeOK'
    BY <1>3, <2>i, <2>n DEF IInv, TypeOK, PushLink, WriterPlaces
  <2>2. Row'
    BY <1>3 DEF IInv, TypeOK, PushLink, Row, WriterInv, Item
  <2>3. WriterInv'
    BY <1>3 DEF IInv, TypeOK, PushLink, Row, WriterInv, Item
  <2> QED
    BY <1>3, <1>r, <2>1, <2>2, <2>3 DEF IInv, PushLink, TypeOK
<1>4. CASE PushFirst
  <2>1. TypeOK'
    BY <1>4 DEF IInv, TypeOK, PushFirst, WriterPlaces, WriterInv
  <2>2. Row'
    BY <1>4 DEF IInv, TypeOK, PushFirst, Row, WriterInv
  <2>3. WriterInv'
    BY <1>4 DEF IInv, TypeOK, PushFirst, Row, WriterInv
  <2> QED
    BY <1>4, <1>r, <2>1, <2>2, <2>3 DEF IInv, PushFirst, TypeOK
<1>5. CASE PushNext
  <2>1. TypeOK'
    BY <1>5 DEF IInv, TypeOK, PushNext, WriterPlaces, WriterInv, Item
  <2>2. Row'
    BY <1>5 DEF IInv, TypeOK, PushNext, Row, WriterInv, Item
  <2>3. WriterInv'
    BY <1>5 DEF IInv, TypeOK, PushNext, Row, WriterInv, Item
  <2> QED
    BY <1>5, <1>r, <2>1, <2>2, <2>3 DEF IInv, PushNext, TypeOK
<1>6. CASE PushT
  <2>1. TypeOK'
    BY <1>6 DEF IInv, TypeOK, PushT, WriterPlaces, WriterInv, Item
  <2>2. Row'
    BY <1>6 DEF IInv, TypeOK, PushT, Row, WriterInv, Item
  <2>3. WriterInv'
    BY <1>6 DEF IInv, TypeOK, PushT, Row, WriterInv, Item
  <2> QED
    BY <1>6, <1>r, <2>1, <2>2, <2>3 DEF IInv, PushT, TypeOK
<1>7. CASE PushCount
  <2>1. TypeOK'
    BY <1>7 DEF IInv, TypeOK, PushCount, WriterPlaces, WriterInv
  <2>2. Row'
    BY <1>7 DEF IInv, TypeOK, PushCount, Row, WriterInv
  <2>3. WriterInv'
    BY <1>7 DEF IInv, TypeOK, PushCount, Row, WriterInv
  <2> QED
    BY <1>7, <1>r, <2>1, <2>2, <2>3 DEF IInv, PushCount, TypeOK
<1> QED
  BY <1>1, <1>2, <1>3, <1>4, <1>5, <1>6, <1>7 DEF Writer

\* So does what a loop does.
LEMMA ReadKeepsIInv ==
  ASSUME IInv, NEW r \in Readers, Read(r) PROVE IInv'
<1> USE CapacityAssumption DEF Addr, NULL
<1>1. UNCHANGED <<first, length, node, used, writer, pushed>>
  BY DEF Read, ReadSize, ReadFirst, ReadWalk, ReadItem
<1>2. Row' /\ WriterInv'
  BY <1>1 DEF IInv, Row, WriterInv
<1>3. reader'[r] \in [at : {"size", "first", "walk"}, i : Nat,
                      item : Addr \cup {NULL}, k : Nat]
      /\ reader' = [reader EXCEPT ![r] = reader'[r]]
      /\ (reader'[r].at = "first" => reader'[r].i < length)
      /\ (reader'[r].at = "walk" => /\ reader'[r].i < length
                                    /\ reader'[r].k <= reader'[r].i
                                    /\ reader'[r].item = reader'[r].k + 1)
  <2>1. CASE ReadSize(r)
    BY <2>1 DEF IInv, TypeOK, ReadSize
  <2>2. CASE ReadFirst(r)
    <3>1. reader[r].i \in Nat /\ reader[r].i < length /\ first = 1 /\ first \in Addr
      BY <2>2 DEF IInv, TypeOK, ReadFirst, ReaderInv, Row
    <3>2. reader' = [reader EXCEPT ![r] = reader'[r]]
      BY <2>2 DEF IInv, TypeOK, ReadFirst
    <3>3. reader'[r] = [reader[r] EXCEPT !.at = "walk", !.item = first, !.k = 0]
      BY <2>2 DEF IInv, TypeOK, ReadFirst
    <3>4. reader'[r] = [at |-> "walk", i |-> reader[r].i, item |-> 1, k |-> 0]
      <4>1. reader[r] \in [at : {"size", "first", "walk"}, i : Nat,
                            item : Addr \cup {NULL}, k : Nat]
        BY DEF IInv, TypeOK
      <4> QED
        BY <4>1, <3>1, <3>3
    <3>5. reader'[r] \in [at : {"size", "first", "walk"}, i : Nat,
                          item : Addr \cup {NULL}, k : Nat]
      BY <3>1, <3>4
    <3> QED
      BY <3>1, <3>2, <3>4, <3>5
  <2>3. CASE ReadWalk(r)
    <3>1. /\ reader[r].i \in Nat /\ reader[r].k \in Nat /\ reader[r].k < reader[r].i
          /\ reader[r].i < length /\ reader[r].item = reader[r].k + 1
          /\ length \in 0..Capacity
      BY <2>3 DEF IInv, TypeOK, ReadWalk, ReaderInv
    <3>2. node[reader[r].item].next = reader[r].k + 2 /\ reader[r].k + 2 \in Addr
      BY <3>1 DEF IInv, TypeOK, Row
    <3> QED
      BY <2>3, <3>1, <3>2 DEF IInv, TypeOK, ReadWalk
  <2>4. CASE ReadItem(r)
    BY <2>4 DEF IInv, TypeOK, ReadItem
  <2> QED
    BY <2>1, <2>2, <2>3, <2>4 DEF Read
<1>4. TypeOK'
  BY <1>1, <1>3 DEF IInv, TypeOK
<1>5. ReaderInv'
  BY <1>1, <1>3 DEF IInv, TypeOK, ReaderInv
<1> QED
  BY <1>2, <1>4, <1>5 DEF IInv

\* The invariant holds of every state that pushes and loops beside them lead to.
THEOREM Invariance == Spec => []IInv
<1>1. IInv /\ [Next]_vars => IInv'
  <2> SUFFICES ASSUME IInv, [Next]_vars PROVE IInv'
    OBVIOUS
  <2>1. CASE UNCHANGED vars
    BY <2>1 DEF vars, IInv, TypeOK, Row, WriterInv, ReaderInv
  <2>2. CASE Next
    BY <2>2, PushKeepsIInv, ReadKeepsIInv, ItemAssumption DEF Next
  <2> QED
    BY <2>1, <2>2
<1> QED
  BY InitIInv, <1>1, PTL DEF Spec

\* Every variable of a vector keeps to its type, and push counts an item in
\* the length only after the item is complete.
THEOREM TypeCorrect == Spec => []TypeOK
<1>1. IInv => TypeOK
  BY DEF IInv
<1> QED
  BY Invariance, <1>1, PTL

\* No loop over a vector, in a thread or in an interrupt handler, ever follows
\* a pointer that push has not written or takes an element that is not the
\* one pushed, for any number of pushes and loops.
THEOREM LoopsNeedNoLock == Spec => []ReadsRight
<1>1. IInv => ReadsRight
  BY CapacityAssumption DEF IInv, TypeOK, Row, ReaderInv, ReadsRight, Addr, NULL
<1> QED
  BY Invariance, <1>1, PTL

-----------------------------------------------------------------------------
(* The graphics thread, whose walks are a reader's steps.                  *)

Phases == {"clear", "windows", "cursor", "cursorX", "icon", "copy"}

\* The row of the window that the loop has come to.
RowOK ==
  LET r == reader[graphics] IN
  row # 0 =>
    \/ /\ phase = "windows" /\ r.at \in {"first", "walk"}
       /\ row < Place[pushed[r.i + 1]].h
    \/ phase = "icon"

\* The place of the cursor, taken in two loads.
WhereOK ==
  /\ phase = "cursorX" => \E y \in 0..MaxY : where = y * Width
  /\ phase = "icon" => /\ row < Icon.h
                       /\ \E x \in 0..MaxX, y \in 0..MaxY : where = (y + row) * Width + x

DrawInv ==
  /\ IInv
  /\ phase \in Phases /\ row \in Nat
  /\ mouseX \in 0..MaxX /\ mouseY \in 0..MaxY
  /\ RowOK /\ WhereOK
  /\ InBuffer

-----------------------------------------------------------------------------
LEMMA Products ==
  ASSUME NEW a \in Nat, NEW b \in Nat, NEW c \in Nat, a <= b
  PROVE  a * c \in Nat /\ a * c <= b * c /\ (a + 1) * c = a * c + c
  OBVIOUS

\* A row of a window is inside of the buffer.
LEMMA RowInBuffer ==
  ASSUME NEW w \in Items, NEW n \in Nat, n < Place[w].h
  PROVE  LET p == Place[w]
             where0 == (p.y + n) * Width + p.x
         IN where0..(where0 + p.w - 1) \subseteq Buffer
  <1> DEFINE y == Place[w].y + n
  <1>1. y \in Nat /\ Width \in Nat /\ Height \in Nat /\ y + 1 <= Height
    BY PlaceAssumption, ScreenAssumption
  <1>2. Place[w].x \in Nat /\ Place[w].w \in Nat /\ Place[w].x + Place[w].w <= Width
    BY PlaceAssumption
  <1> HIDE DEF y
  <1>3. y * Width \in Nat /\ y * Width + Width <= Height * Width /\ Width * Height = Height * Width
    <2>1. y * Width \in Nat /\ (y + 1) * Width = y * Width + Width
      BY <1>1, Products
    <2>2. (y + 1) * Width <= Height * Width
      BY <1>1, Products
    <2> QED
      BY <1>1, <2>1, <2>2
  <1>4. Height * Width \in Nat
    BY <1>1
  <1>5. (y * Width + Place[w].x)..(y * Width + Place[w].x + Place[w].w - 1) \subseteq Buffer
    BY <1>1, <1>2, <1>3, <1>4 DEF Buffer
  <1> QED
    BY <1>5 DEF y

\* A row of the cursor may leave it at the end, by what lies between the mode's
\* last pixel and the mouse's last position, and the cursor.
LEMMA IconInBuffer ==
  ASSUME NEW x \in 0..MaxX, NEW y \in 0..MaxY, NEW n \in Nat, n < Icon.h, NEW j \in 0..(Icon.w - 1)
  PROVE  LET k == (y + n) * Width + x + j
         IN k \in Buffer \cup ((Width * Height)..((MaxY + Icon.h - 1) * Width + MaxX + Icon.w - 1))
  <1> DEFINE a == y + n
             b == MaxY + Icon.h - 1
  <1>1. /\ a \in Nat /\ b \in Nat /\ a <= b /\ x \in Nat /\ x <= MaxX
        /\ {Width, Height, MaxX, Icon.w} \subseteq Nat
    BY ScreenAssumption, IconAssumption
  <1> HIDE DEF a, b
  <1>2. a * Width \in Nat /\ a * Width <= b * Width /\ b * Width \in Nat
    BY <1>1, Products
  <1>3. Width * Height \in Nat
    BY <1>1
  <1>4. a * Width + x + j \in Nat /\ a * Width + x + j <= b * Width + MaxX + Icon.w - 1
    BY <1>1, <1>2
  <1> QED
    BY <1>2, <1>3, <1>4, <1>1 DEF Buffer, a, b
-----------------------------------------------------------------------------
LEMMA GraphicsReader == graphics \in Readers
  BY ReaderAssumption DEF graphics

LEMMA ClampBound ==
  ASSUME NEW n \in Int, NEW high \in Nat
  PROVE  Clamp(n, high) \in 0..high
  BY DEF Clamp

LEMMA GraphicsInitInv ==
  ASSUME GraphicsInit
  PROVE  DrawInv
  <1>1. IInv
    BY InitIInv DEF GraphicsInit
  <1> QED
    BY <1>1, ScreenAssumption DEF GraphicsInit, DrawInv, RowOK, WhereOK, InBuffer, Phases

\* Pushes do not disturb the thread that draws, and the lists' invariant
\* needs nothing of what is drawn.
LEMMA ListStep ==
  ASSUME DrawInv, NEW t \in Items, Push(t) \/ Writer,
         UNCHANGED <<phase, row, where, mouseX, mouseY, spill>>
  PROVE  DrawInv'
  <1>1. IInv'
    BY PushKeepsIInv DEF DrawInv
  <1>2. /\ UNCHANGED reader
        /\ \A k \in Addr : k <= used => pushed'[k] = pushed[k]
    BY CapacityAssumption
       DEF Push, Writer, PushWalk, PushLink, PushFirst, PushNext, PushT, PushCount,
           DrawInv, IInv, TypeOK, Addr
  <1>3. LET r == reader[graphics] IN
        r.at \in {"first", "walk"} => r.i + 1 \in Addr /\ r.i + 1 <= used
    BY GraphicsReader, CapacityAssumption DEF DrawInv, IInv, ReaderInv, TypeOK, Addr
  <1>4. RowOK'
    BY <1>2, <1>3 DEF DrawInv, RowOK
  <1> QED
    BY <1>1, <1>4 DEF DrawInv, WhereOK, InBuffer

\* Steps that do not touch the list.
LEMMA IInvStill ==
  ASSUME IInv, UNCHANGED vars
  PROVE  IInv'
  BY DEF vars, IInv, TypeOK, Row, WriterInv, ReaderInv

LEMMA DeskStep ==
  ASSUME DrawInv, UNCHANGED <<vars, phase, row, where, spill>>,
         mouseX' \in 0..MaxX, mouseY' \in 0..MaxY
  PROVE  DrawInv'
  <1>1. IInv' /\ UNCHANGED <<reader, pushed>>
    BY IInvStill DEF DrawInv, vars
  <1> QED
    BY <1>1 DEF DrawInv, RowOK, WhereOK, InBuffer

LEMMA MouseStep ==
  ASSUME DrawInv, NEW d \in Deltas, MouseX(d) \/ MouseY(d)
  PROVE  DrawInv'
  <1>1. mouseX \in 0..MaxX /\ mouseY \in 0..MaxY /\ MaxX \in Nat /\ MaxY \in Nat
    BY ScreenAssumption DEF DrawInv
  <1>2. mouseX' \in 0..MaxX /\ mouseY' \in 0..MaxY
    <2>1. mouseX + d \in Int /\ mouseY - d \in Int
      BY <1>1, ScreenAssumption
    <2>2. Clamp(mouseX + d, MaxX) \in 0..MaxX /\ Clamp(mouseY - d, MaxY) \in 0..MaxY
      BY <1>1, <2>1, ClampBound, ScreenAssumption
    <2> QED
      BY <1>1, <2>2 DEF MouseX, MouseY
  <1> QED
    BY <1>2, DeskStep DEF MouseX, MouseY, frame
-----------------------------------------------------------------------------
(* The thread that draws.                                                  *)

\* The first row of an item, and the search for it: the list's own steps.
LEMMA SearchStep ==
  ASSUME DrawInv, NextWindow \/ FindWindow
  PROVE  DrawInv'
  <1> DEFINE r == reader[graphics]
  <1>1. Read(graphics) /\ phase = "windows" /\ UNCHANGED <<row, mouseX, mouseY, spill, pushed>>
    BY DEF NextWindow, FindWindow, Read, ReadSize, ReadFirst, ReadWalk, frame, mouse
  <1>2. IInv'
    BY <1>1, GraphicsReader, ReadKeepsIInv DEF DrawInv
  <1>2a. r \in [at : {"size", "first", "walk"}, i : Nat, item : Addr \cup {NULL}, k : Nat]
         /\ (row # 0 => r.at # "size")
    BY <1>1, GraphicsReader DEF DrawInv, RowOK, IInv, TypeOK
  <1>3. /\ phase' \in {"windows", "cursor"}
        /\ r.at # "size" => phase' = "windows" /\ r'.at = "walk" /\ r'.i = r.i
    <2>1. CASE NextWindow
      BY <2>1 DEF NextWindow, ReadSize
    <2>2. CASE FindWindow
      <3>1. phase' = "windows"
        BY <1>1, <2>2 DEF FindWindow, frame
      <3>2. CASE ReadFirst(graphics)
        <4>1. r' = [r EXCEPT !.at = "walk", !.item = first, !.k = 0]
          BY <3>2, GraphicsReader DEF ReadFirst, DrawInv, IInv, TypeOK
        <4> QED
          BY <1>2a, <3>1, <4>1
      <3>3. CASE ReadWalk(graphics)
        <4>1. r' = [r EXCEPT !.item = node[r.item].next, !.k = r.k + 1] /\ r.at = "walk"
          BY <3>3, GraphicsReader DEF ReadWalk, DrawInv, IInv, TypeOK
        <4> QED
          BY <1>2a, <3>1, <4>1
      <3> QED
        BY <2>2, <3>2, <3>3 DEF FindWindow
    <2> QED
      BY <2>1, <2>2
  <1>4. RowOK'
    BY <1>1, <1>2a, <1>3 DEF DrawInv, RowOK
  <1> QED
    BY <1>1, <1>2, <1>3, <1>4 DEF DrawInv, WhereOK, InBuffer, Phases

\* The row that is drawn is one of the window that the list has there.
LEMMA WindowRowStep ==
  ASSUME DrawInv, WindowRow
  PROVE  DrawInv'
  <1> DEFINE r == reader[graphics]
             w == node[r.item].t
             p == Place[w]
             where0 == (p.y + row) * Width + p.x
             g == [k \in where0..(where0 + p.w - 1) |-> framebuffer[w][row * p.w + k - where0]]
  <1>1. /\ phase = "windows" /\ r.at = "walk" /\ r.k = r.i /\ r.item # NULL
        /\ UNCHANGED <<phase, mouseX, mouseY>>
    BY DEF WindowRow, mouse
  <1>2. /\ r \in [at : {"size", "first", "walk"}, i : Nat, item : Addr \cup {NULL}, k : Nat]
        /\ r.i < length /\ r.item = r.i + 1 /\ r.item \in Addr /\ length \in Nat
    BY <1>1, GraphicsReader DEF DrawInv, IInv, TypeOK, ReaderInv
  <1>3. w \in Items /\ w = pushed[r.i + 1]
    BY <1>1, <1>2 DEF DrawInv, IInv, TypeOK, Row, Item
  <1>4. row \in Nat /\ row < p.h /\ p.h \in Nat \ {0}
    BY <1>1, <1>3, PlaceAssumption DEF DrawInv, RowOK
  <1>5. Draw(g)
    BY DEF WindowRow
  <1>6. DOMAIN g \subseteq Buffer
    BY <1>3, <1>4, RowInBuffer
  <1> HIDE DEF g
  <1>7. spill' = spill
    BY <1>5, <1>6 DEF Draw
  <1>8. CASE row + 1 = p.h /\ row' = 0 /\ ReadItem(graphics)
    <2>1. IInv'
      BY <1>8, GraphicsReader, ReadKeepsIInv DEF DrawInv, Read
    <2> QED
      BY <1>1, <1>7, <1>8, <2>1 DEF DrawInv, RowOK, WhereOK, InBuffer
  <1>9. CASE /\ row + 1 # p.h /\ row' = row + 1
             /\ reader' = [reader EXCEPT ![graphics].at = "first"]
             /\ UNCHANGED <<first, length, node, used, writer, pushed>>
    <2>1. reader'[graphics] = [r EXCEPT !.at = "first"]
          /\ \A q \in Readers \ {graphics} : reader'[q] = reader[q]
      BY <1>9, GraphicsReader DEF DrawInv, IInv, TypeOK
    <2>2. reader'[graphics] \in [at : {"size", "first", "walk"}, i : Nat,
                                 item : Addr \cup {NULL}, k : Nat]
          /\ reader'[graphics].at = "first" /\ reader'[graphics].i = r.i
      BY <1>2, <2>1
    <2>3. TypeOK'
      BY <1>9, <2>2, GraphicsReader DEF DrawInv, IInv, TypeOK
    <2>4. Row' /\ WriterInv'
      BY <1>9 DEF DrawInv, IInv, Row, WriterInv
    <2>5. ReaderInv'
      BY <1>2, <1>9, <2>1, <2>2 DEF DrawInv, IInv, ReaderInv
    <2>6. RowOK'
      <3>1. row + 1 < p.h /\ p = Place[pushed[r.i + 1]]
        BY <1>3, <1>4, <1>9
      <3> QED
        BY <1>1, <1>9, <2>2, <3>1 DEF RowOK
    <2> QED
      BY <1>1, <1>4, <1>7, <1>9, <2>3, <2>4, <2>5, <2>6 DEF DrawInv, IInv, WhereOK, InBuffer
  <1> QED
    BY <1>8, <1>9 DEF WindowRow

LEMMA CursorStep ==
  ASSUME DrawInv, Clear \/ NoCursor \/ CursorY \/ CursorX \/ Copy
  PROVE  DrawInv'
  <1>1. IInv' /\ UNCHANGED <<row, mouseX, mouseY, reader, pushed>>
    BY IInvStill DEF DrawInv, Clear, NoCursor, CursorY, CursorX, Copy, mouse, vars
  <1>2. row = 0
    BY DEF DrawInv, RowOK, Clear, NoCursor, CursorY, CursorX, Copy
  <1>3. spill' = spill
    BY DEF Clear, NoCursor, CursorY, CursorX, Copy, Draw, Cleared
  <1>4. phase' \in Phases
    BY DEF Clear, NoCursor, CursorY, CursorX, Copy, Phases
  <1>5. WhereOK'
    <2>1. CASE CursorY
      BY <2>1 DEF CursorY, WhereOK, DrawInv
    <2>2. CASE CursorX
      <3>1. PICK y \in 0..MaxY : where = y * Width
        BY <2>2 DEF CursorX, DrawInv, WhereOK
      <3>2. where' = (y + row') * Width + mouseX
        BY <1>1, <1>2, <2>2, <3>1, ScreenAssumption DEF CursorX
      <3>3. row' < Icon.h
        BY <1>1, <1>2, IconAssumption
      <3> QED
        BY <2>2, <3>2, <3>3 DEF CursorX, WhereOK, DrawInv
    <2>3. CASE Clear \/ NoCursor \/ Copy
      BY <2>3 DEF Clear, NoCursor, Copy, WhereOK
    <2> QED
      BY <2>1, <2>2, <2>3
  <1> QED
    BY <1>1, <1>2, <1>3, <1>4, <1>5 DEF DrawInv, RowOK, InBuffer

\* What is drawn of the cursor is in the buffer or closely behind it.
LEMMA IconRowStep ==
  ASSUME DrawInv, IconRow
  PROVE  DrawInv'
  <1> DEFINE D == {where + j : j \in {m \in 0..(Icon.w - 1) : <<row, m>> \in Icon.opaque}}
  <1>1. IInv' /\ UNCHANGED <<mouseX, mouseY, reader, pushed>>
    BY IInvStill DEF DrawInv, IconRow, mouse, vars
  <1>2. /\ phase = "icon" /\ where' = where + Width /\ row' = (row + 1) % Icon.h
        /\ phase' = IF row' = 0 THEN "copy" ELSE "icon"
        /\ Draw([k \in D |-> "icon"])
    BY DEF IconRow
  <1>3. PICK x \in 0..MaxX, y \in 0..MaxY : where = (y + row) * Width + x
    BY <1>2 DEF DrawInv, WhereOK
  <1>4. row \in Nat /\ row < Icon.h /\ Icon.h \in Nat /\ Icon.w \in Nat /\ Width \in Nat /\ Height \in Nat
    BY <1>2, IconAssumption, ScreenAssumption DEF DrawInv, WhereOK
  <1>5. InBuffer'
    <2>1. \A k \in D : k \in Buffer \cup ((Width * Height)..((MaxY + Icon.h - 1) * Width + MaxX + Icon.w - 1))
      <3>1. ASSUME NEW j \in 0..(Icon.w - 1)
            PROVE  where + j \in Buffer \cup ((Width * Height)..((MaxY + Icon.h - 1) * Width + MaxX + Icon.w - 1))
        <4>1. (y + row) * Width + x + j \in Buffer \cup ((Width * Height)..((MaxY + Icon.h - 1) * Width + MaxX + Icon.w - 1))
          BY <1>4, IconInBuffer
        <4> QED
          BY <1>3, <4>1
      <3> QED
        BY <3>1
    <2> HIDE DEF D
    <2>2. spill' = spill \cup (D \ Buffer)
      BY <1>2 DEF Draw
    <2> QED
      BY <2>1, <2>2 DEF DrawInv, InBuffer
  <1> HIDE DEF D
  <1>6. row' \in Nat /\ row' < Icon.h /\ (row' = 0 \/ row' = row + 1)
    BY <1>2, <1>4
  <1>7. WhereOK'
    <2>1. row' # 0 => where' = (y + row') * Width + x
      <3>1. y + row \in Nat /\ y + row <= y + row
        BY <1>4
      <3>2. (y + row + 1) * Width = (y + row) * Width + Width
        BY <1>4, <3>1, Products
      <3>3. (y + row) * Width \in Nat /\ x \in Nat
        BY <1>4, <3>1, Products
      <3> QED
        BY <1>2, <1>3, <1>4, <1>6, <3>2, <3>3
    <2> QED
      BY <1>2, <1>6, <2>1 DEF WhereOK
  <1>8. RowOK'
    BY <1>2 DEF RowOK
  <1> QED
    BY <1>1, <1>2, <1>5, <1>6, <1>7, <1>8 DEF DrawInv, Phases

-----------------------------------------------------------------------------
LEMMA GraphicsNextInv ==
  ASSUME DrawInv, [GraphicsNext]_allVars
  PROVE  DrawInv'
  <1>1. CASE graphicsUpdate
    BY <1>1, SearchStep, WindowRowStep, CursorStep, IconRowStep DEF graphicsUpdate
  <1>2. CASE Kernel
    <2>1. PushWindow => DrawInv'
      BY ListStep, ItemAssumption DEF PushWindow, frame, mouse
    <2>2. GlyphRow => DrawInv'
      BY DeskStep DEF GlyphRow, frame, mouse, DrawInv
    <2> QED
      BY <1>2, <2>1, <2>2 DEF Kernel
  <1>3. CASE initializeCursor
    BY <1>3, DeskStep DEF initializeCursor, frame, mouse, DrawInv
  <1>4. ASSUME NEW w \in Items, generateWindow(w) \/ drawChar(w) PROVE DrawInv'
    <2>1. CASE generateWindow(w)
      BY <2>1, ListStep DEF generateWindow, frame, mouse
    <2>2. CASE drawChar(w)
      BY <2>2, DeskStep DEF drawChar, frame, mouse, DrawInv
    <2> QED
      BY <1>4, <2>1, <2>2
  <1>5. CASE \E d \in Deltas : MouseX(d) \/ MouseY(d)
    BY <1>5, MouseStep
  <1>6. CASE UNCHANGED allVars
    BY <1>6, DeskStep DEF allVars, frame, mouse, DrawInv
  <1> QED
    BY <1>1, <1>2, <1>3, <1>4, <1>5, <1>6 DEF GraphicsNext

LEMMA GraphicsInvariance == GraphicsSpec => []DrawInv
  BY GraphicsInitInv, GraphicsNextInv, PTL DEF GraphicsSpec

\* The graphics thread never follows an unwritten pointer of the list of
\* windows and never draws another window than the one that was pushed there.
THEOREM WindowsNeedNoLock == GraphicsSpec => []ReadsRight
  <1>1. DrawInv => ReadsRight
    BY CapacityAssumption DEF DrawInv, IInv, TypeOK, Row, ReaderInv, ReadsRight, Addr, NULL
  <1> QED
    BY <1>1, GraphicsInvariance, PTL

\* In any mode of the screen, which need not be the one that the mouse is kept
\* inside of, nothing is drawn before the buffer of the screen, and behind it
\* nothing further than the cursor at the mouse's last position.
THEOREM DrawingConfined == GraphicsSpec => []InBuffer
  <1>1. DrawInv => InBuffer
    BY DEF DrawInv
  <1> QED
    BY <1>1, GraphicsInvariance, PTL
=============================================================================
