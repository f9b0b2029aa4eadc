------------------------------- MODULE Graphics -------------------------------
(* The graphics thread of kernel/src/Graphics.cpp draws frame after frame   *)
(* while the kernel thread makes windows and writes in them and the mouse's *)
(* handler moves the cursor.  Vectors is the list of windows, stepped       *)
(* through here as it is there; pixels are numbered as in the buffers.     *)
EXTENDS Vectors, Integers

CONSTANTS
  Width, Height,   \* of the screen: the mode that Boot asks for or another
  Place,           \* of each window: [x, y, w, h]
  Icon,            \* of the cursor: [w, h, opaque: <<row, column>>s]
  FontHeight,      \* rows of a character
  Written,         \* windows that characters are drawn in
  MouseStart, MaxX, MaxY,   \* of Mouse.cpp: 50, 1920 and 1080 in any mode
  Deltas, MaxMoves \* what the mouse moves by; bound on that

ASSUME ReaderAssumption == Readers # {}
ASSUME ScreenAssumption ==
  /\ {Width, Height} \subseteq Nat \ {0} /\ {MaxX, MaxY} \subseteq Nat
  /\ MouseStart \in 0..MaxX /\ MouseStart \in 0..MaxY /\ Deltas \subseteq Int
ASSUME IconAssumption == {Icon.w, Icon.h} \subseteq Nat \ {0}
ASSUME PlaceAssumption ==
  \A w \in Items : /\ {Place[w].x, Place[w].y} \subseteq Nat /\ {Place[w].w, Place[w].h} \subseteq Nat \ {0}
                   /\ Place[w].x + Place[w].w <= Width /\ Place[w].y + Place[w].h <= Height
                   /\ w \in Written => FontHeight <= Place[w].h

VARIABLES
  phase,        \* of a frame
  row,          \* of what is being copied
  where,        \* for the cursor
  secondary, screen,   \* graphicsSecondary, graphicsFramebuffer
  framebuffer,  \* of each window
  text,         \* the character being drawn: its window and row, or << >>
  cursorInitialized,
  mouseX, mouseY, moves,
  spill         \* indices written outside of graphicsSecondary (history)

frame  == <<phase, row, where, secondary, screen, spill>>
desk   == <<framebuffer, text, cursorInitialized>>
mouse  == <<mouseX, mouseY, moves>>
allVars == <<vars, frame, desk, mouse>>

graphics == CHOOSE r \in Readers : TRUE

Buffer == 0..(Width * Height - 1)

-----------------------------------------------------------------------------
(* graphicsUpdate.                                                         *)

\* Stores of a function from indices to colours.
Draw(f) ==
  /\ secondary' = [k \in Buffer |-> IF k \in DOMAIN f THEN f[k] ELSE secondary[k]]
  /\ spill' = spill \cup (DOMAIN f \ Buffer)

\* Mutant: a frame is drawn over the last one.
Cleared_Kept == secondary

Cleared == [k \in Buffer |-> "black"]

Clear ==
  /\ phase = "clear"
  /\ Draw(Cleared)
  /\ phase' = "windows"
  /\ UNCHANGED <<vars, row, where, screen, desk, mouse>>

\* Up to the item of the list; operator[] walks there for every row.
NextWindow ==
  /\ phase = "windows"
  /\ ReadSize(graphics)
  /\ phase' = IF reader[graphics].i < length THEN "windows" ELSE "cursor"
  /\ UNCHANGED <<row, where, secondary, screen, spill, desk, mouse>>

FindWindow ==
  /\ phase = "windows"
  /\ ReadFirst(graphics) \/ ReadWalk(graphics)
  /\ UNCHANGED <<frame, desk, mouse>>

WindowRow ==
  LET r == reader[graphics] IN
  /\ phase = "windows"
  /\ r.at = "walk" /\ r.k = r.i /\ r.item # NULL
  /\ LET w  == node[r.item].t
         p  == Place[w]
         where0 == (p.y + row) * Width + p.x
     IN /\ Draw([k \in where0..(where0 + p.w - 1) |-> framebuffer[w][row * p.w + k - where0]])
        /\ \/ row + 1 = p.h /\ row' = 0 /\ ReadItem(graphics)
           \/ /\ row + 1 # p.h /\ row' = row + 1
              /\ reader' = [reader EXCEPT ![graphics].at = "first"]
              /\ UNCHANGED <<first, length, node, used, writer, pushed>>
  /\ UNCHANGED <<phase, where, screen, desk, mouse>>

NoCursor ==
  /\ phase = "cursor" /\ ~cursorInitialized
  /\ phase' = "copy"
  /\ UNCHANGED <<vars, row, where, secondary, screen, spill, desk, mouse>>

\* mouseY * graphicsWidth + mouseX: two loads, and the mouse may move between.
CursorY ==
  /\ phase = "cursor" /\ cursorInitialized
  /\ where' = mouseY * Width
  /\ phase' = "cursorX"
  /\ UNCHANGED <<vars, row, secondary, screen, spill, desk, mouse>>

CursorX ==
  /\ phase = "cursorX"
  /\ where' = where + mouseX
  /\ phase' = "icon"
  /\ UNCHANGED <<vars, row, secondary, screen, spill, desk, mouse>>

IconRow ==
  /\ phase = "icon"
  /\ Draw([k \in {where + j : j \in {m \in 0..(Icon.w - 1) : <<row, m>> \in Icon.opaque}} |-> "icon"])
  /\ where' = where + Width
  /\ row' = (row + 1) % Icon.h
  /\ phase' = IF row' = 0 THEN "copy" ELSE "icon"
  /\ UNCHANGED <<vars, screen, desk, mouse>>

Copy ==
  /\ phase = "copy"
  /\ screen' = secondary
  /\ phase' = "clear"
  /\ UNCHANGED <<vars, row, where, secondary, spill, desk, mouse>>

graphicsUpdate == \/ Clear \/ NextWindow \/ FindWindow \/ WindowRow
                  \/ NoCursor \/ CursorY \/ CursorX \/ IconRow \/ Copy

-----------------------------------------------------------------------------
(* The kernel thread, and the mouse.                                       *)

Idle == At("out") /\ text = << >>
Pushed == {pushed[n] : n \in 1..used}

\* Window::Window fills the framebuffer, and then it is pushed.
generateWindow(w) ==
  /\ Idle /\ w \notin Pushed
  /\ framebuffer' = [framebuffer EXCEPT ![w] = [k \in DOMAIN @ |-> "white"]]
  /\ Push(w)
  /\ UNCHANGED <<frame, text, cursorInitialized, mouse>>

PushWindow ==
  /\ Writer
  /\ UNCHANGED <<frame, desk, mouse>>

initializeCursor ==
  /\ Idle /\ cursorInitialized' = TRUE
  /\ UNCHANGED <<vars, frame, framebuffer, text, mouse>>

drawChar(w) ==
  /\ Idle /\ w \in Pushed \cap Written
  /\ text' = <<w, 0>>
  /\ UNCHANGED <<vars, frame, framebuffer, cursorInitialized, mouse>>

\* The glyph here is one pixel wide, and drawn at the left.
GlyphRow ==
  /\ text # << >>
  /\ LET w == text[1]
         n == text[2]
     IN /\ framebuffer' = [framebuffer EXCEPT ![w][n * Place[w].w] = "ink"]
        /\ text' = IF n + 1 = FontHeight THEN << >> ELSE <<w, n + 1>>
  /\ UNCHANGED <<vars, frame, cursorInitialized, mouse>>

\* Mutant: the position is not kept inside of the screen.
Clamp_Dropped(n, high) == n

Clamp(n, high) == IF n < 0 THEN 0 ELSE IF n > high THEN high ELSE n

\* The second and the third byte of a packet; Input has the handler.
MouseX(d) ==
  /\ moves < MaxMoves /\ moves' = moves + 1
  /\ mouseX' = Clamp(mouseX + d, MaxX)
  /\ UNCHANGED <<vars, frame, desk, mouseY>>

MouseY(d) ==
  /\ moves < MaxMoves /\ moves' = moves + 1
  /\ mouseY' = Clamp(mouseY - d, MaxY)
  /\ UNCHANGED <<vars, frame, desk, mouseX>>

-----------------------------------------------------------------------------
(* initializeGraphics, after it initializeMouse.                           *)

GraphicsInit ==
  /\ Init
  /\ phase = "clear" /\ row = 0 /\ where = 0
  /\ secondary = [k \in Buffer |-> "junk"] /\ screen = secondary
  /\ framebuffer = [w \in Items |-> [k \in 0..(Place[w].w * Place[w].h - 1) |-> "junk"]]
  /\ text = << >> /\ cursorInitialized = FALSE
  /\ mouseX = MouseStart /\ mouseY = MouseStart /\ moves = 0
  /\ spill = {}

Kernel == PushWindow \/ GlyphRow

GraphicsNext ==
  \/ graphicsUpdate \/ Kernel \/ initializeCursor
  \/ \E w \in Items : generateWindow(w) \/ drawChar(w)
  \/ \E d \in Deltas : MouseX(d) \/ MouseY(d)

\* The scheduler gives both threads their turns.
GraphicsSpec == /\ GraphicsInit /\ [][GraphicsNext]_allVars
                /\ WF_allVars(graphicsUpdate) /\ WF_allVars(Kernel)

-----------------------------------------------------------------------------
(* What must hold.                                                         *)

\* What the screen ought to show: the cursor over the windows, the last one
\* on top, over black.
Colour(k) ==
  LET x == k % Width
      y == k \div Width
      Over(n) == LET p == Place[pushed[n]] IN x \in p.x..(p.x + p.w - 1) /\ y \in p.y..(p.y + p.h - 1)
      over == {n \in 1..length : Over(n)}
      top == CHOOSE n \in over : \A m \in over : m <= n
      p == Place[pushed[top]]
  IN IF cursorInitialized /\ <<y - mouseY, x - mouseX>> \in Icon.opaque THEN "icon"
     ELSE IF over = {} THEN "black"
     ELSE framebuffer[pushed[top]][(y - p.y) * p.w + x - p.x]

Fits == mouseX + Icon.w <= Width /\ mouseY + Icon.h <= Height

\* Once the kernel is done with what it draws and the mouse rests where the
\* cursor fits, the screen comes to show all that was drawn, nothing of what
\* was there before, and stays so, frame after frame.
Settles == <>[](Idle /\ Fits => screen = [k \in Buffer |-> Colour(k)])

\* The mouse is kept inside of 1920 by 1080, both included, whatever the mode
\* is, and may move between the loads of its two halves: what is written
\* outside of the buffer is never before it, nor further behind it than the
\* cursor at the last of those positions.  It is memory of others all the same:
\* a row and the cursor's size in the mode that Boot asks for, more in a
\* smaller one.
InBuffer ==
  spill \subseteq (Width * Height)..((MaxY + Icon.h - 1) * Width + MaxX + Icon.w - 1)
=============================================================================
