---------------------------- MODULE InterruptProofs ---------------------------
(* What the interrupts of mouse and keyboard bring about, for any movements *)
(* and keys, as many as the user likes; and at the end that no PIC holds    *)
(* an interrupt back, for any set of lines and any number of requests.      *)
EXTENDS Input, Interrupts, SequenceTheorems, TLAPS

-----------------------------------------------------------------------------
(* What the devices have sent and nobody has taken.                        *)

Bytes == [delta : Int, key : Keys \cup {"other"}, up : BOOLEAN, bits : SUBSET Devices]

Strokes == [key : Keys, pressed : BOOLEAN]
Calls == [key : Keys \cup {"other"}, pressed : BOOLEAN, shift : BOOLEAN]

\* The bytes of a device, the one in the output buffer first.
Waiting(d) == (IF buffer.of = d THEN <<buffer.byte>> ELSE << >>) \o coming[d]

TypeOK ==
  /\ coming \in [Devices -> Seq(Bytes)]
  /\ buffer = Empty \/ (buffer.of \in Devices /\ buffer.byte \in Bytes)
  /\ last \in Bytes
  /\ config \in SUBSET Devices /\ status \in SUBSET Devices
  /\ pc \in 1..28
  /\ mouseX \in Int /\ mouseY \in Int /\ mouseCycle \in 0..2 /\ leftShift \in BOOLEAN
  /\ typed \in Seq(Strokes) /\ heard \in Seq(Calls)

-----------------------------------------------------------------------------
(* The initialisations.                                                    *)

\* Neither device has anything to say, or only d may, one byte.
Quiet(d) == coming[d] = << >> /\ buffer.of # d
One(d) == coming[d] = << >> \/ (Len(coming[d]) = 1 /\ buffer = Empty)

\* What is under way at each step: an answer at most, which is gone before the
\* next question is asked, whoever takes it.
Answers ==
  /\ pc \notin {3, 4, 7, 8, 10, 11, 15, 16, 19, 20, 22, 23} => NothingComing /\ buffer = Empty
  /\ pc \in {3, 15, 19, 22} => Quiet("mouse") /\ One("keyboard")
  /\ pc \in {7, 10} => Quiet("keyboard") /\ One("mouse")
  /\ pc \in {4, 16, 20, 23} => NothingComing /\ buffer.of # "mouse"
  /\ pc \in {8, 11} => NothingComing /\ buffer.of # "keyboard"

Preparing ==
  pc < 28 =>
    /\ Answers
    /\ pc >= 13 => mouseCycle = 0
    /\ pc >= 26 => leftShift = FALSE
    /\ keyHandlers = 0 /\ typed = << >> /\ heard = << >>

-----------------------------------------------------------------------------
(* Afterwards.                                                             *)

\* The shift key after n keys.
ShiftAfter(n) ==
  \E k \in 1..n : /\ typed[k].key = KEY_SHIFT /\ typed[k].pressed
                  /\ \A j \in 1..n : typed[j].key = KEY_SHIFT => j <= k

\* What was typed is what was heard and then what is still to be taken.
Heard(n) ==
  /\ heard[n].key = typed[n].key
  /\ heard[n].pressed <=> typed[n].pressed
  /\ heard[n].shift <=> ShiftAfter(n)

ToHear(j) ==
  /\ Waiting("keyboard")[j].key = typed[Len(heard) + j].key
  /\ Waiting("keyboard")[j].up <=> ~typed[Len(heard) + j].pressed

KeysOK ==
  pc = 28 =>
    /\ keyHandlers = 1
    /\ Len(typed) = Len(heard) + Len(Waiting("keyboard"))
    /\ \A n \in 1..Len(heard) : Heard(n)
    /\ \A j \in 1..Len(Waiting("keyboard")) : ToHear(j)
    /\ leftShift <=> ShiftAfter(Len(heard))

\* What a byte does to the place in the packet and the cursor.
Taken(p, d) ==
  [cycle |-> IF p.cycle = 2 THEN 0 ELSE p.cycle + 1,
   x |-> IF p.cycle = 1 THEN Clamp(p.x + d, MaxX) ELSE p.x,
   y |-> IF p.cycle = 2 THEN Clamp(p.y - d, MaxY) ELSE p.y]

Cursors == [cycle : 0..2, x : Int, y : Int]
Cursor == [cycle |-> mouseCycle, x |-> mouseX, y |-> mouseY]

\* t is what the bytes w make of the cursor, one after the other.
Track(t, w, from, to) ==
  /\ t \in [0..Len(w) -> Cursors]
  /\ t[0] = from /\ t[Len(w)] = to
  /\ \A j \in 1..Len(w) : t[j] = Taken(t[j - 1], w[j].delta)

\* The bytes that are under way take the cursor to where the user wants it,
\* and are whole packets with the one begun.
CursorOK ==
  pc = 28 =>
    /\ want = <<want[1], want[2]>> /\ want[1] \in Int /\ want[2] \in Int
    /\ \E t : Track(t, Waiting("mouse"), Cursor, [cycle |-> 0, x |-> want[1], y |-> want[2]])

IInv == TypeOK /\ Preparing /\ KeysOK /\ CursorOK

-----------------------------------------------------------------------------
(* The program of the initialisations.                                     *)

LEMMA ProgramIs ==
  /\ Len(Program) = 27
  /\ Program[1] = <<"register", "mouse">> /\ Program[2] = <<"ask", "mouse">>
  /\ Program[3] = <<"wait", "mouse">> /\ Program[4] = <<"status", "mouse">>
  /\ Program[5] = <<"store", "mouse">>
  /\ Program[6] = <<"write", "mouse">> /\ Program[7] = <<"wait", "mouse">> /\ Program[8] = <<"read", "mouse">>
  /\ Program[9] = <<"write", "mouse">> /\ Program[10] = <<"wait", "mouse">> /\ Program[11] = <<"read", "mouse">>
  /\ Program[12] = <<"reset", "mouse">>
  /\ Program[13] = <<"register", "keyboard">> /\ Program[14] = <<"ask", "keyboard">>
  /\ Program[15] = <<"wait", "keyboard">> /\ Program[16] = <<"status", "keyboard">>
  /\ Program[17] = <<"store", "keyboard">>
  /\ Program[18] = <<"write", "keyboard">> /\ Program[19] = <<"delay", "keyboard">> /\ Program[20] = <<"read", "keyboard">>
  /\ Program[21] = <<"write", "keyboard">> /\ Program[22] = <<"delay", "keyboard">> /\ Program[23] = <<"read", "keyboard">>
  /\ Program[24] = <<"read", "keyboard">> /\ Program[25] = <<"reset", "keyboard">>
  /\ Program[26] = <<"handlers", "keyboard">> /\ Program[27] = <<"add", "keyboard">>
  BY DEF Program

\* Where each of its steps is.
LEMMA Places ==
  ASSUME TypeOK, NEW d, NEW step, At(step, d)
  PROVE  /\ pc \in 1..27 /\ pc' = pc + 1
         /\ d = IF pc < 13 THEN "mouse" ELSE "keyboard"
         /\ step = "register" => pc \in {1, 13}
         /\ step = "ask" => pc \in {2, 14}
         /\ step = "wait" => pc \in {3, 7, 10, 15}
         /\ step = "status" => pc \in {4, 16}
         /\ step = "store" => pc \in {5, 17}
         /\ step = "write" => pc \in {6, 9, 18, 21}
         /\ step = "delay" => pc \in {19, 22}
         /\ step = "read" => pc \in {8, 11, 20, 23, 24}
         /\ step = "reset" => pc \in {12, 25}
         /\ step = "handlers" => pc = 26
         /\ step = "add" => pc = 27
  <1>1. pc \in 1..27 /\ pc' = pc + 1 /\ Program[pc] = <<step, d>>
    BY ProgramIs DEF TypeOK, At, Initialised
  <1>2. \/ pc = 1 \/ pc = 2 \/ pc = 3 \/ pc = 4 \/ pc = 5 \/ pc = 6 \/ pc = 7 \/ pc = 8 \/ pc = 9
        \/ pc = 10 \/ pc = 11 \/ pc = 12 \/ pc = 13 \/ pc = 14 \/ pc = 15 \/ pc = 16 \/ pc = 17
        \/ pc = 18 \/ pc = 19 \/ pc = 20 \/ pc = 21 \/ pc = 22 \/ pc = 23 \/ pc = 24 \/ pc = 25
        \/ pc = 26 \/ pc = 27
    BY <1>1
  <1> QED
    BY <1>1, <1>2, ProgramIs

LEMMA IsUp ==
  Initialised <=> pc = 28
  BY ProgramIs DEF Initialised

-----------------------------------------------------------------------------
(* Types.                                                                  *)

LEMMA Constants ==
  /\ MaxX \in Nat /\ MaxY \in Nat /\ Start \in Nat /\ KEY_SHIFT \in Keys
  /\ \A d \in Deltas : d \in Int
  /\ Empty.of \notin Devices /\ Empty.of # "mouse" /\ Empty.of # "keyboard"
  BY InputAssumption DEF Empty, Devices

LEMMA ByteTypes ==
  ASSUME NEW n \in Int, NEW k \in Keys \cup {"other"}, NEW up \in BOOLEAN, NEW bits \in SUBSET Devices
  PROVE  Byte(n, k, up, bits) \in Bytes
  BY DEF Byte, Bytes

LEMMA SomeBytes ==
  ASSUME TypeOK
  PROVE  /\ ConfigByte \in Bytes /\ Ack \in Bytes /\ Flags \in Bytes
         /\ \A d \in Deltas : Delta(d) \in Bytes
         /\ \A key \in Keys \cup {"other"}, up \in BOOLEAN : Scan(key, up) \in Bytes
  <1>1. /\ "other" \in Keys \cup {"other"} /\ {} \in SUBSET Devices /\ config \in SUBSET Devices
        /\ TRUE \in BOOLEAN /\ FALSE \in BOOLEAN /\ 0 \in Int /\ 8 \in Int
    BY DEF TypeOK
  <1>2. ConfigByte \in Bytes
    <2>1. Byte(0, "other", FALSE, config) \in Bytes
      BY <1>1, ByteTypes
    <2> QED
      BY <2>1 DEF ConfigByte
  <1>3. Ack \in Bytes
    <2>1. -6 \in Int
      OBVIOUS
    <2> QED
      BY <1>1, <2>1, ByteTypes DEF Ack
  <1>4. Flags \in Bytes
    <2>1. Byte(8, "other", FALSE, {}) \in Bytes
      BY <1>1, ByteTypes
    <2> QED
      BY <2>1 DEF Flags
  <1>5. ASSUME NEW d \in Deltas PROVE Delta(d) \in Bytes
    BY <1>1, ByteTypes, Constants DEF Delta
  <1>6. ASSUME NEW key \in Keys \cup {"other"}, NEW up \in BOOLEAN PROVE Scan(key, up) \in Bytes
    BY <1>1, ByteTypes DEF Scan
  <1> QED
    BY <1>2, <1>3, <1>4, <1>5, <1>6

LEMMA ClampInt ==
  ASSUME NEW n \in Int, NEW high \in Int
  PROVE  Clamp(n, high) \in Int
  BY DEF Clamp

LEMMA SentType ==
  ASSUME TypeOK, NEW d \in Devices, NEW bytes \in Seq(Bytes), Sent(d, bytes)
  PROVE  /\ coming' \in [Devices -> Seq(Bytes)] /\ coming'[d] = coming[d] \o bytes
         /\ \A e \in Devices \ {d} : coming'[e] = coming[e]
  <1>1. coming[d] \in Seq(Bytes)
    BY DEF TypeOK
  <1>2. PICK new \in Seq(Bytes) : new = coming[d] \o bytes
    BY <1>1, ConcatProperties
  <1>3. coming' = [coming EXCEPT ![d] = new]
    BY <1>2 DEF Sent
  <1> QED
    BY <1>2, <1>3 DEF TypeOK

LEMMA WaitingType ==
  ASSUME TypeOK, NEW d \in Devices
  PROVE  /\ Waiting(d) \in Seq(Bytes) /\ coming[d] \in Seq(Bytes)
         /\ buffer.of = d => buffer.byte \in Bytes /\ Waiting(d) = <<buffer.byte>> \o coming[d]
         /\ buffer.of # d => Waiting(d) = coming[d]
  <1>1. coming[d] \in Seq(Bytes)
    BY DEF TypeOK
  <1>2. CASE buffer.of = d
    <2>1. buffer # Empty
      BY <1>2, Constants
    <2>2. buffer.byte \in Bytes
      BY <2>1 DEF TypeOK
    <2>3. <<buffer.byte>> \in Seq(Bytes)
      BY <2>2
    <2>4. Waiting(d) = <<buffer.byte>> \o coming[d]
      BY <1>2 DEF Waiting
    <2> QED
      BY <1>1, <1>2, <2>2, <2>3, <2>4, ConcatProperties
  <1>3. CASE buffer.of # d
    <2>1. Waiting(d) = << >> \o coming[d]
      BY <1>3 DEF Waiting
    <2> QED
      BY <1>1, <1>3, <2>1, ConcatEmptySeq
  <1> QED
    BY <1>2, <1>3

\* A sequence is its first element and the rest.
LEMMA HeadAndTail ==
  ASSUME NEW s \in Seq(Bytes), s # << >>
  PROVE  /\ Head(s) \in Bytes /\ Tail(s) \in Seq(Bytes) /\ <<Head(s)>> \o Tail(s) = s
         /\ Head(s) = s[1] /\ Len(s) \in Nat \ {0} /\ Len(Tail(s)) = Len(s) - 1
         /\ \A i \in 1..(Len(s) - 1) : Tail(s)[i] = s[i + 1]
  <1>1. /\ Head(s) \in Bytes /\ Tail(s) \in Seq(Bytes) /\ Len(Tail(s)) = Len(s) - 1
        /\ \A i \in 1..Len(Tail(s)) : Tail(s)[i] = s[i + 1]
    BY HeadTailProperties
  <1>2. Len(s) \in Nat \ {0}
    BY EmptySeq
  <1>3. Head(s) = s[1]
    OBVIOUS
  <1> DEFINE h == <<Head(s)>>
             r == Tail(s)
  <1>4. h \in Seq(Bytes) /\ Len(h) = 1 /\ h[1] = s[1]
    BY <1>1, <1>3
  <1>5. r \in Seq(Bytes) /\ Len(r) = Len(s) - 1 /\ \A i \in 1..(Len(s) - 1) : r[i] = s[i + 1]
    BY <1>1
  <1> HIDE DEF h, r
  <1>6. /\ h \o r \in Seq(Bytes) /\ Len(h \o r) = Len(h) + Len(r)
        /\ \A i \in 1..Len(h) + Len(r) : (h \o r)[i] = IF i <= Len(h) THEN h[i] ELSE r[i - Len(h)]
    <2>0. h \in Seq(Bytes) /\ r \in Seq(Bytes)
      BY <1>4, <1>5
    <2>1. h \o r \in Seq(Bytes) /\ Len(h \o r) = Len(h) + Len(r)
      BY <1>4, <1>5, ConcatProperties
    <2>2. \A i \in 1..Len(h) + Len(r) : (h \o r)[i] = IF i <= Len(h) THEN h[i] ELSE r[i - Len(h)]
      BY <2>0, Zenon, ConcatProperties
    <2> QED
      BY <2>1, <2>2
  <1>7. Len(h \o r) = Len(s)
    BY <1>2, <1>4, <1>5, <1>6
  <1>8. ASSUME NEW i \in 1..Len(s) PROVE (h \o r)[i] = s[i]
    <2>1. i \in 1..Len(h) + Len(r)
      BY <1>2, <1>4, <1>5
    <2>2. CASE i = 1
      BY <1>4, <1>6, <2>1, <2>2
    <2>3. CASE i # 1
      <3>1. i - 1 \in 1..(Len(s) - 1) /\ ~(i <= 1) /\ (i - 1) + 1 = i
        BY <1>2, <2>3
      <3>2. (h \o r)[i] = r[i - 1]
        BY <1>4, <1>6, <2>1, <3>1
      <3> QED
        BY <1>5, <3>1, <3>2
    <2> QED
      BY <2>2, <2>3
  <1>9. h \o r = s
    BY <1>6, <1>7, <1>8, SeqEqual
  <1> QED
    BY <1>1, <1>2, <1>3, <1>9 DEF h, r

-----------------------------------------------------------------------------
(* What each step does to what is waiting.                                 *)

\* A device sends, or the controller for it.
LEMMA SentOn ==
  ASSUME TypeOK, NEW d \in Devices, NEW bytes \in Seq(Bytes), Sent(d, bytes), buffer' = buffer
  PROVE  /\ Waiting(d)' = Waiting(d) \o bytes
         /\ \A e \in Devices \ {d} : Waiting(e)' = Waiting(e)
  <1>1. coming'[d] = coming[d] \o bytes /\ \A e \in Devices \ {d} : coming'[e] = coming[e]
    BY SentType
  <1>2. coming[d] \in Seq(Bytes)
    BY WaitingType
  <1>3. ASSUME NEW e \in Devices \ {d} PROVE Waiting(e)' = Waiting(e)
    BY <1>1 DEF Waiting
  <1>4. CASE buffer.of = d
    <2>1. buffer.byte \in Bytes /\ Waiting(d) = <<buffer.byte>> \o coming[d]
      BY <1>4, WaitingType
    <2>2. Waiting(d)' = <<buffer.byte>> \o (coming[d] \o bytes)
      BY <1>1, <1>4 DEF Waiting
    <2>3. <<buffer.byte>> \in Seq(Bytes)
      BY <2>1
    <2> DEFINE b == <<buffer.byte>>
               c == coming[d]
    <2>4. b \in Seq(Bytes) /\ c \in Seq(Bytes) /\ Waiting(d) = b \o c /\ Waiting(d)' = b \o (c \o bytes)
      BY <1>2, <2>1, <2>2, <2>3
    <2> HIDE DEF b, c
    <2>5. (b \o c) \o bytes = b \o (c \o bytes)
      BY <2>4, ConcatAssociative
    <2> QED
      BY <1>3, <2>4, <2>5
  <1>5. CASE buffer.of # d
    <2>1. Waiting(d) = coming[d]
      BY <1>5, WaitingType
    <2>2. Waiting(d)' = << >> \o (coming[d] \o bytes)
      BY <1>1, <1>5 DEF Waiting
    <2>3. coming[d] \o bytes \in Seq(Bytes)
      BY <1>2, ConcatProperties
    <2> QED
      BY <1>3, <2>1, <2>2, <2>3, ConcatEmptySeq
  <1> QED
    BY <1>4, <1>5

\* The controller puts a byte into its buffer.
LEMMA Filled ==
  ASSUME TypeOK, NEW d \in Devices, Fill(d)
  PROVE  /\ TypeOK' /\ \A e \in Devices : Waiting(e)' = Waiting(e)
         /\ buffer = Empty /\ coming[d] # << >>
         /\ buffer'.of = d /\ coming'[d] = Tail(coming[d])
         /\ \A e \in Devices \ {d} : coming'[e] = coming[e]
  <1>1. /\ buffer = Empty /\ coming[d] # << >>
        /\ buffer' = [of |-> d, byte |-> Head(coming[d])] /\ last' = Head(coming[d])
        /\ coming' = [coming EXCEPT ![d] = Tail(@)]
        /\ UNCHANGED <<config, status, pc, mouseX, mouseY, mouseCycle, leftShift, typed, heard>>
    BY DEF Fill, init, mouse, keyboard, user
  <1>2. coming[d] \in Seq(Bytes)
    BY WaitingType
  <1>3. /\ Head(coming[d]) \in Bytes /\ Tail(coming[d]) \in Seq(Bytes)
        /\ <<Head(coming[d])>> \o Tail(coming[d]) = coming[d]
    BY <1>1, <1>2, HeadAndTail
  <1>4. /\ coming' \in [Devices -> Seq(Bytes)] /\ coming'[d] = Tail(coming[d])
        /\ \A e \in Devices \ {d} : coming'[e] = coming[e]
    BY <1>1, <1>3 DEF TypeOK
  <1>5. buffer'.of = d /\ buffer'.byte = Head(coming[d])
    BY <1>1
  <1>6. TypeOK'
    BY <1>1, <1>3, <1>4, <1>5 DEF TypeOK
  <1>7. ASSUME NEW e \in Devices PROVE Waiting(e)' = Waiting(e)
    <2>1. Waiting(e) = coming[e]
      BY <1>1, Constants, WaitingType
    <2>2. CASE e = d
      <3>1. Waiting(d)' = <<buffer'.byte>> \o coming'[d]
        BY <1>5 DEF Waiting
      <3> QED
        BY <1>3, <1>4, <1>5, <2>1, <2>2, <3>1
    <2>3. CASE e # d
      <3>1. Waiting(e)' = << >> \o coming'[e]
        BY <1>5, <2>3 DEF Waiting
      <3>2. coming'[e] = coming[e] /\ coming[e] \in Seq(Bytes)
        BY <1>4, <2>3, WaitingType
      <3> QED
        BY <2>1, <3>1, <3>2, ConcatEmptySeq
    <2> QED
      BY <2>2, <2>3
  <1> QED
    BY <1>1, <1>4, <1>5, <1>6, <1>7

\* A handler reads the byte in the buffer.
LEMMA TakenOff ==
  ASSUME TypeOK, NEW d \in Devices, buffer.of = d, buffer' = Empty, coming' = coming
  PROVE  /\ Waiting(d) \in Seq(Bytes) /\ Waiting(d) # << >> /\ buffer.byte = Waiting(d)[1]
         /\ Waiting(d)' = Tail(Waiting(d))
         /\ \A e \in Devices \ {d} : Waiting(e)' = Waiting(e)
  <1>1. buffer.byte \in Bytes /\ Waiting(d) = <<buffer.byte>> \o coming[d] /\ Waiting(d) \in Seq(Bytes)
    BY WaitingType
  <1>2. \A e \in Devices : coming[e] \in Seq(Bytes)
    BY WaitingType
  <1>3. ASSUME NEW e \in Devices PROVE Waiting(e)' = coming[e]
    <2>1. Waiting(e)' = << >> \o coming[e]
      BY Constants DEF Waiting
    <2> QED
      BY <1>2, <2>1, ConcatEmptySeq
  <1>4. ASSUME NEW e \in Devices \ {d} PROVE Waiting(e)' = Waiting(e)
    BY <1>3, WaitingType
  <1> DEFINE b == <<buffer.byte>>
             c == coming[d]
             w == Waiting(d)
  <1>5. b \in Seq(Bytes) /\ Len(b) = 1 /\ b[1] = buffer.byte /\ c \in Seq(Bytes) /\ Len(c) \in Nat
    BY <1>1, <1>2, LenProperties
  <1>6. w = b \o c /\ w \in Seq(Bytes) /\ Waiting(d)' = c
    BY <1>1, <1>3
  <1> HIDE DEF b, c, w
  <1>7. /\ Len(w) = 1 + Len(c)
        /\ \A i \in 1..Len(b) + Len(c) : w[i] = IF i <= Len(b) THEN b[i] ELSE c[i - Len(b)]
    BY <1>5, <1>6, ConcatProperties
  <1>8. w # << >> /\ w[1] = buffer.byte
    <2>1. 1 \in 1..Len(b) + Len(c) /\ 1 <= Len(b)
      BY <1>5
    <2>2. w[1] = b[1]
      BY <1>7, <2>1
    <2>3. Len(w) # 0
      BY <1>5, <1>7
    <2> QED
      BY <1>5, <2>2, <2>3, EmptySeq
  <1>9. Tail(w) = c
    <2>1. /\ Tail(w) \in Seq(Bytes) /\ Len(Tail(w)) = Len(c)
          /\ \A i \in 1..Len(c) : Tail(w)[i] = w[i + 1]
      BY <1>5, <1>6, <1>7, <1>8, HeadAndTail
    <2>2. ASSUME NEW i \in 1..Len(c) PROVE Tail(w)[i] = c[i]
      <3>1. i + 1 \in 1..Len(b) + Len(c) /\ ~(i + 1 <= Len(b)) /\ (i + 1) - Len(b) = i
        BY <1>5
      <3>2. w[i + 1] = c[(i + 1) - Len(b)]
        BY <1>7, <3>1
      <3> QED
        BY <2>1, <3>1, <3>2
    <2> QED
      BY <1>5, <2>1, <2>2, SeqEqual
  <1> QED
    BY <1>1, <1>4, <1>6, <1>8, <1>9 DEF w

\* The handlers.
LEMMA MouseType ==
  ASSUME TypeOK, mouseInterrupt
  PROVE  TypeOK'
  <1>1. /\ buffer.of = "mouse" /\ buffer' = Empty
        /\ UNCHANGED <<coming, last, config, status, pc, leftShift, typed, heard>>
    BY DEF mouseInterrupt, Interrupt, init, keyboard, user
  <1>2. buffer.byte \in Bytes
    BY <1>1, WaitingType DEF Devices
  <1>3. buffer.byte.delta \in Int
    BY <1>2 DEF Bytes
  <1>4. /\ Clamp(mouseX + buffer.byte.delta, MaxX) \in Int
        /\ Clamp(mouseY - buffer.byte.delta, MaxY) \in Int
    <2>1. mouseX + buffer.byte.delta \in Int /\ mouseY - buffer.byte.delta \in Int /\ MaxX \in Int /\ MaxY \in Int
      BY <1>3, Constants DEF TypeOK
    <2> QED
      BY <2>1, ClampInt
  <1>5. mouseX' \in Int /\ mouseY' \in Int /\ mouseCycle' \in 0..2
    <2>1. \/ mouseCycle' = 1 /\ mouseX' = mouseX /\ mouseY' = mouseY
          \/ mouseCycle' = 2 /\ mouseX' = Clamp(mouseX + buffer.byte.delta, MaxX) /\ mouseY' = mouseY
          \/ mouseCycle' = 0 /\ mouseY' = Clamp(mouseY - buffer.byte.delta, MaxY) /\ mouseX' = mouseX
      BY DEF mouseInterrupt, MoveY
    <2>2. mouseX \in Int /\ mouseY \in Int
      BY DEF TypeOK
    <2> QED
      BY <1>4, <2>1, <2>2
  <1> QED
    BY <1>1, <1>5 DEF TypeOK

LEMMA KeyType ==
  ASSUME TypeOK, keyboardIRQ
  PROVE  TypeOK'
  <1>1. /\ buffer.of = "keyboard" /\ buffer' = Empty
        /\ UNCHANGED <<coming, last, config, status, pc, mouseX, mouseY, mouseCycle, typed>>
    BY DEF keyboardIRQ, Interrupt, init, mouse, user
  <1>2. buffer.byte \in Bytes
    BY <1>1, WaitingType DEF Devices
  <1>3. buffer.byte.key \in Keys \cup {"other"} /\ (~buffer.byte.up) \in BOOLEAN
    BY <1>2 DEF Bytes
  <1>4. leftShift' \in BOOLEAN
    BY <1>3 DEF keyboardIRQ, Shift, TypeOK
  <1>5. PICK k \in Keys \cup {"other"}, p \in BOOLEAN, sh \in BOOLEAN :
          heard' = heard \/ heard' = Append(heard, [key |-> k, pressed |-> p, shift |-> sh])
    BY <1>3, <1>4 DEF keyboardIRQ
  <1>6. heard' \in Seq(Calls)
    <2>1. PICK c \in Calls : c = [key |-> k, pressed |-> p, shift |-> sh]
      BY DEF Calls
    <2>2. Append(heard, c) \in Seq(Calls) /\ heard \in Seq(Calls)
      BY AppendProperties DEF TypeOK
    <2> QED
      BY <1>5, <2>1, <2>2
  <1> QED
    BY <1>1, <1>4, <1>6 DEF TypeOK

\* The initialisations.
LEMMA InitialiseType ==
  ASSUME TypeOK, Initialise
  PROVE  TypeOK'
  <1>1. pc' \in 1..28 /\ UNCHANGED typed
    <2>1. PICK step, d : At(step, d)
      BY DEF Initialise, Register, Ask, WaitData, Delay, ReadStatus, Store, Write, Read, Reset, ResetHandlers, addKeyboardHandler
    <2>2. pc \in 1..27 /\ pc' = pc + 1
      BY <2>1, Places
    <2>3. UNCHANGED typed
      BY DEF Initialise, Register, Ask, WaitData, Delay, ReadStatus, Store, Write, Read, Reset, ResetHandlers, addKeyboardHandler,
             user, keyboard
    <2> QED
      BY <2>2, <2>3
  <1>2. UNCHANGED heard
    BY DEF Initialise, Register, Ask, WaitData, Delay, ReadStatus, Store, Write, Read, Reset, ResetHandlers, addKeyboardHandler,
           user, keyboard
  <1>3. ASSUME NEW d \in Devices, Register(d) PROVE TypeOK'
    <2>1. UNCHANGED <<coming, buffer, last, config, status, mouseCycle, leftShift>>
      BY <1>3 DEF Register, controller, keyboard
    <2>2. mouseX' \in Int /\ mouseY' \in Int
      BY <1>3, Constants DEF Register, TypeOK
    <2> QED
      BY <1>1, <1>2, <2>1, <2>2 DEF TypeOK
  <1>4. ASSUME NEW d \in Devices, Ask(d) \/ Write(d) PROVE TypeOK'
    <2>1. UNCHANGED <<buffer, last, config, status, mouseX, mouseY, mouseCycle, leftShift>>
      BY <1>4 DEF Ask, Write, mouse, keyboard
    <2>2. PICK e \in Devices, b \in Bytes : Sent(e, <<b>>)
      <3>1. "keyboard" \in Devices /\ ConfigByte \in Bytes /\ Ack \in Bytes /\ Scan("other", FALSE) \in Bytes
        <4>1. "other" \in Keys \cup {"other"} /\ FALSE \in BOOLEAN /\ "keyboard" \in Devices
          BY DEF Devices
        <4> QED
          BY <4>1, SomeBytes
      <3>2. CASE Ask(d)
        BY <3>1, <3>2 DEF Ask
      <3>3. CASE Write(d)
        BY <3>1, <3>3 DEF Write
      <3> QED
        BY <1>4, <3>2, <3>3
    <2>3. coming' \in [Devices -> Seq(Bytes)]
      <3>1. <<b>> \in Seq(Bytes)
        OBVIOUS
      <3> QED
        BY <2>2, <3>1, SentType
    <2> QED
      BY <1>1, <1>2, <2>1, <2>3 DEF TypeOK
  <1>5. ASSUME NEW d \in Devices, WaitData(d) \/ Delay(d) PROVE TypeOK'
    <2>1. UNCHANGED <<coming, buffer, last, config, status, mouseX, mouseY, mouseCycle, leftShift>>
      BY <1>5 DEF WaitData, Delay, controller, mouse, keyboard
    <2> QED
      BY <1>1, <1>2, <2>1 DEF TypeOK
  <1>6. ASSUME NEW d \in Devices, ReadStatus(d) PROVE TypeOK'
    <2>1. buffer' = Empty /\ UNCHANGED <<coming, last, config, mouseX, mouseY, mouseCycle, leftShift>>
      BY <1>6 DEF ReadStatus, mouse, keyboard
    <2>2. status' \in SUBSET Devices
      BY <1>6 DEF ReadStatus, Status, TypeOK, Bytes
    <2> QED
      BY <1>1, <1>2, <2>1, <2>2 DEF TypeOK
  <1>7. ASSUME NEW d \in Devices, Store(d) \/ Read(d) PROVE TypeOK'
    <2>1. UNCHANGED <<coming, last, status, mouseX, mouseY, mouseCycle, leftShift>>
      BY <1>7 DEF Store, Read, mouse, keyboard
    <2>2. config' \in {config, status} /\ buffer' \in {buffer, Empty}
      BY <1>7 DEF Store, Read
    <2> QED
      BY <1>1, <1>2, <2>1, <2>2 DEF TypeOK
  <1>8. ASSUME NEW d \in Devices, Reset(d) PROVE TypeOK'
    <2>1. UNCHANGED <<coming, buffer, last, config, status, mouseX, mouseY>>
      BY <1>8 DEF Reset, controller
    <2>2. mouseCycle' = 0 \/ mouseCycle' = mouseCycle
      BY <1>8 DEF Reset, ResetCycle
    <2>3. leftShift' \in BOOLEAN
      BY <1>8 DEF Reset, TypeOK
    <2> QED
      BY <1>1, <1>2, <2>1, <2>2, <2>3 DEF TypeOK
  <1>9. CASE ResetHandlers \/ addKeyboardHandler
    <2>1. UNCHANGED <<coming, buffer, last, config, status, mouseX, mouseY, mouseCycle, leftShift>>
      BY <1>9 DEF ResetHandlers, addKeyboardHandler, controller, mouse
    <2> QED
      BY <1>1, <1>2, <2>1 DEF TypeOK
  <1> QED
    BY <1>3, <1>4, <1>5, <1>6, <1>7, <1>8, <1>9 DEF Initialise

\* The user.
LEMMA UserType ==
  ASSUME TypeOK
  PROVE  /\ \A dx, dy \in Deltas : Move(dx, dy) => TypeOK'
         /\ \A key \in Keys, up \in BOOLEAN : Type(key, up) => TypeOK'
  <1>1. ASSUME NEW dx \in Deltas, NEW dy \in Deltas, Move(dx, dy) PROVE TypeOK'
    <2>1. UNCHANGED <<buffer, last, config, status, pc, mouseX, mouseY, mouseCycle, leftShift, heard, typed>>
      BY <1>1 DEF Move, init, mouse, keyboard
    <2>2. Flags \in Bytes /\ Delta(dx) \in Bytes /\ Delta(dy) \in Bytes
      BY SomeBytes
    <2>3. <<Flags, Delta(dx), Delta(dy)>> \in Seq(Bytes) /\ "mouse" \in Devices
      BY <2>2 DEF Devices
    <2>4. coming' \in [Devices -> Seq(Bytes)]
      BY <1>1, <2>3, SentType DEF Move
    <2> QED
      BY <2>1, <2>4 DEF TypeOK
  <1>2. ASSUME NEW key \in Keys, NEW up \in BOOLEAN, Type(key, up) PROVE TypeOK'
    <2>1. UNCHANGED <<buffer, last, config, status, pc, mouseX, mouseY, mouseCycle, leftShift, heard>>
      BY <1>2 DEF Type, init, mouse, keyboard
    <2>2. Scan(key, up) \in Bytes /\ "keyboard" \in Devices
      BY SomeBytes DEF Devices
    <2>3. <<Scan(key, up)>> \in Seq(Bytes)
      BY <2>2
    <2>4. coming' \in [Devices -> Seq(Bytes)]
      BY <1>2, <2>2, <2>3, SentType DEF Type
    <2>5. typed' \in Seq(Strokes)
      <3>1. PICK c \in Strokes : c = [key |-> key, pressed |-> ~up]
        <4>1. (~up) \in BOOLEAN
          OBVIOUS
        <4> QED
          BY <4>1 DEF Strokes
      <3>2. Append(typed, c) \in Seq(Strokes)
        BY AppendProperties DEF TypeOK
      <3> QED
        BY <1>2, <3>1, <3>2 DEF Type
    <2> QED
      BY <2>1, <2>4, <2>5 DEF TypeOK
  <1> QED
    BY <1>1, <1>2

LEMMA TypeStep ==
  ASSUME TypeOK, [Next]_vars
  PROVE  TypeOK'
  <1>1. CASE UNCHANGED vars
    BY <1>1 DEF vars, controller, init, mouse, keyboard, user, TypeOK
  <1> QED
    BY <1>1, MouseType, KeyType, InitialiseType, UserType, Filled DEF Next

-----------------------------------------------------------------------------
(* Preparing.                                                              *)

\* A step of the initialisations leaves no more under way than it should.
LEMMA InitialiseAnswers ==
  ASSUME TypeOK, Preparing, Initialise
  PROVE  pc \in 1..27 /\ pc' = pc + 1 /\ (pc' < 28 => Answers')
  <1>0. PICK step, d : At(step, d)
    BY DEF Initialise, Register, Ask, WaitData, Delay, ReadStatus, Store, Write, Read, Reset, ResetHandlers, addKeyboardHandler
  <1>1. pc \in 1..27 /\ pc' = pc + 1
    BY <1>0, Places
  <1>2. Answers
    BY <1>1 DEF Preparing
  <1>3. NothingComing <=> coming["mouse"] = << >> /\ coming["keyboard"] = << >>
    BY DEF NothingComing, Devices
  <1>4. NothingComing' <=> coming'["mouse"] = << >> /\ coming'["keyboard"] = << >>
    BY DEF NothingComing, Devices
  <1>5. ASSUME NEW e \in Devices, Register(e) \/ Store(e) \/ Reset(e) PROVE Answers'
    <2>1. UNCHANGED <<coming, buffer>>
      BY <1>5 DEF Register, Store, Reset, controller
    <2>2. pc \in {1, 13, 5, 17, 12, 25}
      BY <1>5, Places DEF Register, Store, Reset
    <2> QED
      BY <1>1, <1>2, <1>3, <1>4, <2>1, <2>2 DEF Answers
  <1>6. ASSUME NEW e \in Devices, Ask(e) PROVE Answers'
    <2>1. pc \in {2, 14}
      BY <1>6, Places DEF Ask
    <2>2. NothingComing /\ buffer = Empty
      BY <1>2, <2>1 DEF Answers
    <2>3. buffer' = Empty /\ Sent("keyboard", <<ConfigByte>>)
      BY <1>6, <2>2 DEF Ask
    <2>4. ConfigByte \in Bytes /\ "keyboard" \in Devices /\ "mouse" \in Devices
      BY SomeBytes DEF Devices
    <2>5. coming'["keyboard"] = << >> \o <<ConfigByte>> /\ coming'["mouse"] = << >>
      <3>1. <<ConfigByte>> \in Seq(Bytes)
        BY <2>4
      <3> QED
        BY <1>3, <2>2, <2>3, <2>4, <3>1, SentType
    <2>6. Len(coming'["keyboard"]) = 1
      BY <2>5
    <2> QED
      BY <1>1, <2>1, <2>3, <2>5, <2>6, Constants DEF Answers, Quiet, One
  <1>7. ASSUME NEW e \in Devices, Write(e) PROVE Answers'
    <2>1. pc \in {6, 9, 18, 21} /\ e = IF pc < 13 THEN "mouse" ELSE "keyboard"
      BY <1>7, Places DEF Write
    <2>2. NothingComing /\ buffer = Empty
      BY <1>2, <2>1 DEF Answers
    <2>3. PICK b \in Bytes : Sent(e, <<b>>)
      <3>1. "other" \in Keys \cup {"other"} /\ FALSE \in BOOLEAN
        OBVIOUS
      <3>2. Ack \in Bytes /\ Scan("other", FALSE) \in Bytes
        BY <3>1, SomeBytes
      <3> QED
        BY <1>7, <3>2 DEF Write
    <2>4. buffer' = Empty
      BY <1>7, <2>2 DEF Write
    <2>5. coming'[e] = << >> \o <<b>> /\ \A f \in Devices \ {e} : coming'[f] = << >>
      <3>1. <<b>> \in Seq(Bytes)
        OBVIOUS
      <3> QED
        BY <2>2, <2>3, <3>1, SentType DEF NothingComing
    <2>6. Len(coming'[e]) = 1
      BY <2>5
    <2>7. CASE pc < 13
      <3>1. pc' \in {7, 10} /\ e = "mouse"
        BY <1>1, <2>1, <2>7
      <3>2. coming'["keyboard"] = << >>
        BY <2>5, <3>1 DEF Devices
      <3> QED
        BY <2>4, <2>6, <3>1, <3>2, Constants DEF Answers, Quiet, One
    <2>8. CASE ~(pc < 13)
      <3>1. pc' \in {19, 22} /\ e = "keyboard"
        BY <1>1, <2>1, <2>8
      <3>2. coming'["mouse"] = << >>
        BY <2>5, <3>1 DEF Devices
      <3> QED
        BY <2>4, <2>6, <3>1, <3>2, Constants DEF Answers, Quiet, One
    <2> QED
      BY <2>7, <2>8
  <1>8. ASSUME NEW e \in Devices, WaitData(e) \/ Delay(e) PROVE Answers'
    <2>1. UNCHANGED <<coming, buffer>> /\ (buffer # Empty \/ NothingComing)
      BY <1>8 DEF WaitData, Delay, controller
    <2>2. pc \in {3, 7, 10, 15, 19, 22}
      BY <1>8, Places DEF WaitData, Delay
    <2>3. CASE pc \in {3, 15, 19, 22}
      <3>1. pc' \in {4, 16, 20, 23}
        BY <1>1, <2>3
      <3>2. Quiet("mouse") /\ One("keyboard")
        BY <1>2, <2>3 DEF Answers
      <3>3. NothingComing /\ buffer.of # "mouse"
        BY <1>3, <2>1, <3>2 DEF Quiet, One
      <3> QED
        BY <1>3, <1>4, <2>1, <3>1, <3>3 DEF Answers
    <2>4. CASE pc \in {7, 10}
      <3>1. pc' \in {8, 11}
        BY <1>1, <2>4
      <3>2. Quiet("keyboard") /\ One("mouse")
        BY <1>2, <2>4 DEF Answers
      <3>3. NothingComing /\ buffer.of # "keyboard"
        BY <1>3, <2>1, <3>2 DEF Quiet, One
      <3> QED
        BY <1>3, <1>4, <2>1, <3>1, <3>3 DEF Answers
    <2> QED
      BY <2>2, <2>3, <2>4
  <1>9. ASSUME NEW e \in Devices, ReadStatus(e) \/ Read(e) PROVE Answers'
    <2>1. coming' = coming /\ buffer' = Empty
      BY <1>9 DEF ReadStatus, Read
    <2>2. pc \in {4, 16, 8, 11, 20, 23, 24}
      BY <1>9, Places DEF ReadStatus, Read
    <2>3. NothingComing
      BY <1>2, <2>2 DEF Answers
    <2>4. pc' \in {5, 17, 9, 12, 21, 24, 25}
      BY <1>1, <2>2
    <2> QED
      BY <1>3, <1>4, <2>1, <2>3, <2>4 DEF Answers
  <1>10. CASE ResetHandlers
    <2>1. UNCHANGED <<coming, buffer>>
      BY <1>10 DEF ResetHandlers, controller
    <2>2. pc = 26
      BY <1>10, Places DEF ResetHandlers
    <2> QED
      BY <1>1, <1>2, <1>3, <1>4, <2>1, <2>2 DEF Answers
  <1>11. CASE addKeyboardHandler
    <2>1. pc = 27
      BY <1>11, Places DEF addKeyboardHandler
    <2> QED
      BY <1>1, <2>1
  <1> QED
    BY <1>1, <1>5, <1>6, <1>7, <1>8, <1>9, <1>10, <1>11 DEF Initialise

\* Nor does a handler that takes the answer, or the controller that has it.
LEMMA OthersAnswer ==
  ASSUME TypeOK, Preparing, pc < 28, pc' = pc,
         mouseInterrupt \/ keyboardIRQ \/ \E d \in Devices : Fill(d)
  PROVE  Answers' /\ (mouseInterrupt => pc < 13) /\ (keyboardIRQ => pc < 26)
  <1>1. Answers /\ pc \in 1..27
    BY DEF Preparing, TypeOK
  <1>2. NothingComing <=> coming["mouse"] = << >> /\ coming["keyboard"] = << >>
    BY DEF NothingComing, Devices
  <1>3. NothingComing' <=> coming'["mouse"] = << >> /\ coming'["keyboard"] = << >>
    BY DEF NothingComing, Devices
  <1>4. ASSUME mouseInterrupt PROVE Answers' /\ pc < 13
    <2>1. coming' = coming /\ buffer' = Empty /\ buffer.of = "mouse" /\ buffer # Empty
      BY <1>4, Constants DEF mouseInterrupt, Interrupt
    <2>2. pc \in {7, 8, 10, 11}
      BY <1>1, <2>1 DEF Answers, Quiet
    <2>3. NothingComing
      <3>1. CASE pc \in {7, 10}
        BY <1>1, <1>2, <2>1, <3>1 DEF Answers, Quiet, One
      <3>2. CASE pc \in {8, 11}
        BY <1>1, <3>2 DEF Answers
      <3> QED
        BY <2>2, <3>1, <3>2
    <2>4. Answers'
      BY <1>2, <1>3, <2>1, <2>2, <2>3, Constants DEF Answers, Quiet, One
    <2> QED
      BY <2>2, <2>4
  <1>5. ASSUME keyboardIRQ PROVE Answers' /\ pc < 26
    <2>1. coming' = coming /\ buffer' = Empty /\ buffer.of = "keyboard" /\ buffer # Empty
      BY <1>5, Constants DEF keyboardIRQ, Interrupt
    <2>2. pc \in {3, 4, 15, 16, 19, 20, 22, 23}
      BY <1>1, <2>1 DEF Answers, Quiet
    <2>3. NothingComing
      <3>1. CASE pc \in {3, 15, 19, 22}
        BY <1>1, <1>2, <2>1, <3>1 DEF Answers, Quiet, One
      <3>2. CASE pc \in {4, 16, 20, 23}
        BY <1>1, <3>2 DEF Answers
      <3> QED
        BY <2>2, <3>1, <3>2
    <2>4. Answers'
      BY <1>2, <1>3, <2>1, <2>2, <2>3, Constants DEF Answers, Quiet, One
    <2> QED
      BY <2>2, <2>4
  <1>6. ASSUME NEW d \in Devices, Fill(d) PROVE Answers'
    <2>1. /\ buffer = Empty /\ coming[d] # << >> /\ buffer'.of = d /\ coming'[d] = Tail(coming[d])
          /\ \A e \in Devices \ {d} : coming'[e] = coming[e]
      BY <1>6, Filled
    <2>2. ~NothingComing
      BY <2>1 DEF NothingComing
    <2>3. pc \in {3, 7, 10, 15, 19, 22}
      BY <1>1, <2>2 DEF Answers
    <2>4. coming[d] \in Seq(Bytes)
      BY WaitingType
    <2>5. ASSUME Len(coming[d]) = 1 PROVE coming'[d] = << >>
      <3>1. Tail(coming[d]) \in Seq(Bytes) /\ Len(Tail(coming[d])) = 0
        BY <2>1, <2>4, <2>5, HeadAndTail
      <3> QED
        BY <2>1, <3>1, EmptySeq
    <2>6. CASE pc \in {3, 15, 19, 22}
      <3>1. Quiet("mouse") /\ One("keyboard")
        BY <1>1, <2>6 DEF Answers
      <3>2. d = "keyboard"
        BY <2>1, <3>1 DEF Quiet, Devices
      <3>3. coming'["keyboard"] = << >> /\ coming'["mouse"] = << >>
        BY <2>1, <2>5, <3>1, <3>2 DEF One, Quiet, Devices
      <3> QED
        BY <2>1, <2>6, <3>2, <3>3 DEF Answers, Quiet, One
    <2>7. CASE pc \in {7, 10}
      <3>1. Quiet("keyboard") /\ One("mouse")
        BY <1>1, <2>7 DEF Answers
      <3>2. d = "mouse"
        BY <2>1, <3>1 DEF Quiet, Devices
      <3>3. coming'["keyboard"] = << >> /\ coming'["mouse"] = << >>
        BY <2>1, <2>5, <3>1, <3>2 DEF One, Quiet, Devices
      <3> QED
        BY <2>1, <2>7, <3>2, <3>3 DEF Answers, Quiet, One
    <2> QED
      BY <2>3, <2>6, <2>7
  <1>7. mouseInterrupt => pc < 13
    BY <1>4
  <1>8. keyboardIRQ => pc < 26
    BY <1>5
  <1> QED
    BY <1>4, <1>5, <1>6, <1>7, <1>8

LEMMA PreparingStep ==
  ASSUME TypeOK, Preparing, [Next]_vars
  PROVE  Preparing'
  <1>1. SUFFICES ASSUME pc' < 28
        PROVE  /\ Answers' /\ (pc' >= 13 => mouseCycle' = 0) /\ (pc' >= 26 => leftShift' = FALSE)
               /\ keyHandlers' = 0 /\ typed' = << >> /\ heard' = << >>
    BY DEF Preparing
  <1>2. CASE Initialise
    <2>1. pc \in 1..27 /\ pc' = pc + 1 /\ Answers'
      BY <1>1, <1>2, InitialiseAnswers
    <2>2. /\ (pc >= 13 => mouseCycle = 0) /\ (pc >= 26 => leftShift = FALSE)
          /\ keyHandlers = 0 /\ typed = << >> /\ heard = << >>
      BY <2>1 DEF Preparing
    <2>3. typed' = << >> /\ heard' = << >>
      BY <1>2, <2>2 DEF Initialise, Register, Ask, WaitData, Delay, ReadStatus, Store, Write, Read, Reset, ResetHandlers,
                        addKeyboardHandler, user, keyboard
    <2>4. keyHandlers' = 0
      <3>1. CASE addKeyboardHandler
        <4>1. pc = 27
          BY <3>1, Places DEF addKeyboardHandler
        <4> QED
          BY <1>1, <2>1, <4>1
      <3> QED
        BY <1>2, <2>2, <3>1 DEF Initialise, Register, Ask, WaitData, Delay, ReadStatus, Store, Write, Read, Reset, ResetHandlers,
                        keyboard
    <2>5. CASE \E d \in Devices : Reset(d)
      <3>1. PICK d \in Devices : Reset(d)
        BY <2>5
      <3>2. pc \in {12, 25} /\ d = IF pc < 13 THEN "mouse" ELSE "keyboard"
        BY <3>1, Places DEF Reset
      <3>3. CASE pc = 12
        <4>1. mouseCycle' = 0 /\ pc' = 13
          BY <2>1, <3>1, <3>2, <3>3 DEF Reset, ResetCycle
        <4> QED
          BY <2>1, <2>3, <2>4, <4>1
      <3>4. CASE pc = 25
        <4>1. mouseCycle' = mouseCycle /\ leftShift' = FALSE
          BY <3>1, <3>2, <3>4 DEF Reset
        <4> QED
          BY <2>1, <2>2, <2>3, <2>4, <3>4, <4>1
      <3> QED
        BY <3>2, <3>3, <3>4
    <2>6. CASE ~\E d \in Devices : Reset(d)
      <3>1. UNCHANGED <<mouseCycle, leftShift>>
        BY <1>2, <2>6 DEF Initialise, Register, Ask, WaitData, Delay, ReadStatus, Store, Write, Read, ResetHandlers,
                        addKeyboardHandler, keyboard, mouse
      <3>2. pc # 12 /\ pc # 25
        <4>1. PICK step, d : At(step, d) /\ step # "reset"
          BY <1>2, <2>6 DEF Initialise, Register, Ask, WaitData, Delay, ReadStatus, Store, Write, Read, ResetHandlers,
                            addKeyboardHandler
        <4>2. pc \in 1..27 /\ Program[pc] = <<step, d>>
          BY <4>1, Places DEF At
        <4> QED
          BY <4>1, <4>2, ProgramIs
      <3> QED
        BY <2>1, <2>2, <2>3, <2>4, <3>1, <3>2
    <2> QED
      BY <2>5, <2>6
  <1>3. CASE mouseInterrupt
    <2>1. UNCHANGED <<pc, leftShift, keyHandlers, typed, heard>>
      BY <1>3 DEF mouseInterrupt, init, keyboard, user
    <2>2. pc < 28 /\ pc \in Int
      BY <1>1, <2>1 DEF TypeOK
    <2>3. Answers' /\ pc < 13
      BY <1>3, <2>1, <2>2, OthersAnswer
    <2> QED
      BY <2>1, <2>2, <2>3 DEF Preparing
  <1>4. CASE keyboardIRQ
    <2>1. UNCHANGED <<pc, mouseCycle, keyHandlers, typed>>
      BY <1>4 DEF keyboardIRQ, init, mouse, user
    <2>2. pc < 28 /\ pc \in Int
      BY <1>1, <2>1 DEF TypeOK
    <2>3. Answers' /\ pc < 26
      BY <1>4, <2>1, <2>2, OthersAnswer
    <2>4. heard' = heard
      BY <1>4, <2>2 DEF keyboardIRQ, Preparing
    <2> QED
      BY <2>1, <2>2, <2>3, <2>4 DEF Preparing
  <1>5. CASE \E d \in Devices : Fill(d)
    <2>1. UNCHANGED <<pc, mouseCycle, leftShift, keyHandlers, typed, heard>>
      BY <1>5 DEF Fill, init, mouse, keyboard, user
    <2>2. pc < 28
      BY <1>1, <2>1
    <2>3. Answers'
      BY <1>5, <2>1, <2>2, OthersAnswer
    <2> QED
      BY <2>1, <2>2, <2>3 DEF Preparing
  <1>6. CASE \/ \E dx, dy \in Deltas : Move(dx, dy)
             \/ \E key \in Keys, up \in BOOLEAN : Type(key, up)
    <2>1. pc' = 28
      BY <1>6, IsUp DEF Move, Type, init
    <2> QED
      BY <1>1, <2>1
  <1>7. CASE UNCHANGED vars
    BY <1>1, <1>7 DEF vars, controller, init, mouse, keyboard, user, Preparing, Answers, Quiet, One, NothingComing
  <1> QED
    BY <1>2, <1>3, <1>4, <1>5, <1>6, <1>7 DEF Next

-----------------------------------------------------------------------------
(* The keys.                                                               *)

\* ShiftAfter depends on the keys so far.
LEMMA ShiftSame ==
  ASSUME NEW n \in Nat, \A k \in 1..n : typed'[k] = typed[k]
  PROVE  ShiftAfter(n)' <=> ShiftAfter(n)
  BY DEF ShiftAfter

\* The next key.
LEMMA ShiftNext ==
  ASSUME NEW n \in Nat
  PROVE  /\ typed[n + 1].key = KEY_SHIFT => (ShiftAfter(n + 1) <=> typed[n + 1].pressed)
         /\ typed[n + 1].key # KEY_SHIFT => (ShiftAfter(n + 1) <=> ShiftAfter(n))
  <1>1. n + 1 \in 1..(n + 1) /\ \A k \in 1..(n + 1) : k <= n + 1 /\ (k = n + 1 \/ k \in 1..n)
    OBVIOUS
  <1>2. \A k \in 1..n : k \in 1..(n + 1) /\ ~(n + 1 <= k)
    OBVIOUS
  <1>3. ASSUME typed[n + 1].key = KEY_SHIFT PROVE ShiftAfter(n + 1) <=> typed[n + 1].pressed
    <2>1. ASSUME typed[n + 1].pressed PROVE ShiftAfter(n + 1)
      BY <1>1, <1>3, <2>1, Zenon DEF ShiftAfter
    <2>2. ASSUME ShiftAfter(n + 1) PROVE typed[n + 1].pressed
      <3>1. PICK k \in 1..(n + 1) : /\ typed[k].key = KEY_SHIFT /\ typed[k].pressed
                                    /\ \A j \in 1..(n + 1) : typed[j].key = KEY_SHIFT => j <= k
        BY <2>2, Zenon DEF ShiftAfter
      <3>2. n + 1 <= k
        BY <1>1, <1>3, <3>1, Zenon
      <3>3. k = n + 1
        BY <1>1, <1>2, <3>2, Zenon
      <3> QED
        BY <3>1, <3>3, Zenon
    <2> QED
      BY <2>1, <2>2, Zenon
  <1>4. ASSUME typed[n + 1].key # KEY_SHIFT PROVE ShiftAfter(n + 1) <=> ShiftAfter(n)
    <2>1. ASSUME ShiftAfter(n) PROVE ShiftAfter(n + 1)
      <3>1. PICK k \in 1..n : /\ typed[k].key = KEY_SHIFT /\ typed[k].pressed
                              /\ \A j \in 1..n : typed[j].key = KEY_SHIFT => j <= k
        BY <2>1, Zenon DEF ShiftAfter
      <3>2. \A j \in 1..(n + 1) : typed[j].key = KEY_SHIFT => j <= k
        BY <1>1, <1>4, <3>1, Zenon
      <3> QED
        BY <1>2, <3>1, <3>2, Zenon DEF ShiftAfter
    <2>2. ASSUME ShiftAfter(n + 1) PROVE ShiftAfter(n)
      <3>1. PICK k \in 1..(n + 1) : /\ typed[k].key = KEY_SHIFT /\ typed[k].pressed
                                    /\ \A j \in 1..(n + 1) : typed[j].key = KEY_SHIFT => j <= k
        BY <2>2, Zenon DEF ShiftAfter
      <3>2. k \in 1..n
        BY <1>1, <1>4, <3>1, Zenon
      <3> QED
        BY <1>2, <3>1, <3>2, Zenon DEF ShiftAfter
    <2> QED
      BY <2>1, <2>2, Zenon
  <1> QED
    BY <1>3, <1>4, Zenon

\* A step that has to do with something else.
LEMMA SameKeys ==
  ASSUME KeysOK, UNCHANGED <<pc, keyHandlers, typed, heard, leftShift>>,
         Waiting("keyboard")' = Waiting("keyboard")
  PROVE  KeysOK'
  <1>1. \A n : ShiftAfter(n)' <=> ShiftAfter(n)
    BY DEF ShiftAfter
  <1>2. \A n : Heard(n)' <=> Heard(n)
    BY <1>1, Zenon DEF Heard
  <1>3. \A j : ToHear(j)' <=> ToHear(j)
    BY Zenon DEF ToHear
  <1>4. ShiftAfter(Len(heard))' <=> ShiftAfter(Len(heard))
    BY DEF ShiftAfter
  <1> QED
    BY <1>2, <1>3, <1>4, Zenon DEF KeysOK

\* The handler of the keys is added.
LEMMA AddKeys ==
  ASSUME TypeOK, Preparing, addKeyboardHandler
  PROVE  KeysOK'
  <1>1. pc = 27
    BY Places DEF addKeyboardHandler
  <1>2. /\ leftShift = FALSE /\ keyHandlers = 0 /\ typed = << >> /\ heard = << >>
        /\ coming["keyboard"] = << >> /\ buffer = Empty
    BY <1>1 DEF Preparing, Answers, NothingComing, Devices
  <1>3. UNCHANGED <<coming, buffer, leftShift, heard, typed>> /\ keyHandlers' = keyHandlers + 1
    BY DEF addKeyboardHandler, controller
  <1>4. Waiting("keyboard")' = << >>
    <2>1. Waiting("keyboard")' = << >> \o << >>
      BY <1>2, <1>3, Constants DEF Waiting
    <2> QED
      BY <2>1, ConcatEmptySeq, EmptySeq
  <1>5. Len(heard') = 0 /\ Len(typed') = 0 /\ Len(Waiting("keyboard")') = 0 /\ keyHandlers' = 1 /\ leftShift' = FALSE
    BY <1>2, <1>3, <1>4
  <1>6. ~ShiftAfter(Len(heard))'
    <2>1. 1..Len(heard') = {}
      BY <1>5
    <2> QED
      BY <2>1 DEF ShiftAfter
  <1>7. 1..Len(heard') = {} /\ 1..Len(Waiting("keyboard")') = {} /\ Len(typed') = Len(heard') + Len(Waiting("keyboard")')
    BY <1>5
  <1> QED
    BY <1>5, <1>6, <1>7, Zenon DEF KeysOK

\* A key is typed.
LEMMA TypeKeys ==
  ASSUME TypeOK, KeysOK, NEW key \in Keys, NEW up \in BOOLEAN, Type(key, up)
  PROVE  KeysOK'
  <1> DEFINE w == Waiting("keyboard")
             c == [key |-> key, pressed |-> ~up]
             b == Scan(key, up)
             n == Len(heard)
  <1>1. /\ pc = 28 /\ typed' = Append(typed, c) /\ Sent("keyboard", <<b>>)
        /\ UNCHANGED <<buffer, pc, leftShift, keyHandlers, heard>>
    BY IsUp DEF Type, init, keyboard
  <1>2. c \in Strokes /\ b \in Bytes
    <2>1. (~up) \in BOOLEAN
      OBVIOUS
    <2>2. c \in Strokes
      BY <2>1 DEF Strokes
    <2> QED
      BY <2>2, SomeBytes
  <1>3. b.key = key /\ (b.up <=> up) /\ c.key = key /\ (c.pressed <=> ~up)
    BY DEF Scan, Byte
  <1>4. /\ keyHandlers = 1 /\ Len(typed) = n + Len(w) /\ (leftShift <=> ShiftAfter(n))
        /\ (\A m \in 1..n : Heard(m)) /\ (\A j \in 1..Len(w) : ToHear(j))
    BY <1>1 DEF KeysOK
  <1>5. w \in Seq(Bytes) /\ Waiting("keyboard")' = w \o <<b>>
    <2>1. <<b>> \in Seq(Bytes) /\ "keyboard" \in Devices
      BY <1>2 DEF Devices
    <2> QED
      BY <1>1, <2>1, SentOn, WaitingType
  <1>6. n \in Nat /\ Len(w) \in Nat /\ Len(typed) \in Nat
    BY <1>5, LenProperties DEF TypeOK
  <1> HIDE DEF c, b
  <1>7. /\ Len(typed') = Len(typed) + 1 /\ typed'[Len(typed) + 1] = c
        /\ \A k \in 1..Len(typed) : typed'[k] = typed[k]
    BY <1>1, <1>2, AppendProperties DEF TypeOK
  <1>8. /\ Len(Waiting("keyboard")') = Len(w) + 1 /\ Waiting("keyboard")'[Len(w) + 1] = b
        /\ \A j \in 1..Len(w) : Waiting("keyboard")'[j] = w[j]
    <2>1. Waiting("keyboard")' = Append(w, b)
      BY <1>2, <1>5, AppendIsConcat
    <2> QED
      BY <1>2, <1>5, <2>1, AppendProperties
  <1>9. ASSUME NEW m \in 0..n PROVE ShiftAfter(m)' <=> ShiftAfter(m)
    <2>1. \A k \in 1..m : typed'[k] = typed[k]
      BY <1>4, <1>6, <1>7
    <2>2. m \in Nat
      BY <1>6
    <2> QED
      BY <2>1, <2>2, ShiftSame
  <1>10. ASSUME NEW m \in 1..n PROVE Heard(m)'
    <2>1. typed'[m] = typed[m] /\ heard'[m] = heard[m]
      BY <1>1, <1>4, <1>6, <1>7
    <2>2. ShiftAfter(m)' <=> ShiftAfter(m)
      BY <1>6, <1>9
    <2>3. Heard(m)
      BY <1>4
    <2> QED
      BY <2>1, <2>2, <2>3, Zenon DEF Heard
  <1>11. ASSUME NEW j \in 1..(Len(w) + 1) PROVE ToHear(j)'
    <2>1. CASE j \in 1..Len(w)
      <3>1. n + j \in 1..Len(typed)
        BY <1>4, <1>6, <2>1
      <3>2. typed'[n + j] = typed[n + j] /\ Waiting("keyboard")'[j] = w[j] /\ heard' = heard
        BY <1>1, <1>7, <1>8, <2>1, <3>1
      <3>3. ToHear(j)
        BY <1>4, <2>1
      <3> QED
        BY <3>2, <3>3, Zenon DEF ToHear
    <2>2. CASE j = Len(w) + 1
      <3>1. n + j = Len(typed) + 1
        BY <1>4, <1>6, <2>2
      <3>2. typed'[n + j] = c /\ Waiting("keyboard")'[j] = b /\ heard' = heard
        BY <1>1, <1>7, <1>8, <2>2, <3>1
      <3> QED
        BY <1>3, <3>2, Zenon DEF ToHear
    <2> QED
      BY <1>6, <2>1, <2>2
  <1>12. ShiftAfter(Len(heard))' <=> ShiftAfter(n)
    <2>1. \A k \in 1..n : typed'[k] = typed[k]
      BY <1>4, <1>6, <1>7
    <2> QED
      BY <1>1, <2>1 DEF ShiftAfter
  <1>13. Len(typed') = Len(heard') + Len(Waiting("keyboard")')
    <2>1. PICK h \in Nat, k \in Nat : h = n /\ k = Len(w)
      BY <1>6
    <2>2. Len(typed') = (h + k) + 1
      BY <1>4, <1>7, <2>1
    <2>3. Len(heard') = h /\ Len(Waiting("keyboard")') = k + 1
      BY <1>1, <1>8, <2>1
    <2> QED
      BY <2>2, <2>3
  <1>14. keyHandlers' = 1 /\ heard' = heard /\ leftShift' = leftShift
    BY <1>1, <1>4
  <1> QED
    BY <1>4, <1>8, <1>10, <1>11, <1>12, <1>13, <1>14, Zenon DEF KeysOK

\* A key is taken.
LEMMA TakeKeys ==
  ASSUME TypeOK, KeysOK, pc = 28, keyboardIRQ
  PROVE  KeysOK'
  <1> DEFINE w == Waiting("keyboard")
             b == buffer.byte
             c == [key |-> b.key, pressed |-> ~b.up, shift |-> leftShift']
             n == Len(heard)
  <1>1. /\ keyHandlers = 1 /\ Len(typed) = n + Len(w) /\ (leftShift <=> ShiftAfter(n))
        /\ (\A m \in 1..n : Heard(m)) /\ (\A j \in 1..Len(w) : ToHear(j))
    BY DEF KeysOK
  <1>2. /\ buffer.of = "keyboard" /\ buffer' = Empty
        /\ UNCHANGED <<coming, pc, keyHandlers, typed>>
    BY DEF keyboardIRQ, Interrupt, init, user
  <1>3. heard' = Append(heard, c) /\ leftShift' = IF b.key = KEY_SHIFT THEN ~b.up ELSE leftShift
    BY <1>1 DEF keyboardIRQ, Shift
  <1>4. w \in Seq(Bytes) /\ w # << >> /\ b = w[1] /\ Waiting("keyboard")' = Tail(w)
    BY <1>2, TakenOff DEF Devices
  <1>5. /\ Len(w) \in Nat \ {0} /\ Len(Tail(w)) = Len(w) - 1
        /\ \A i \in 1..(Len(w) - 1) : Tail(w)[i] = w[i + 1]
    BY <1>4, HeadAndTail
  <1>6. b \in Bytes /\ (~b.up) \in BOOLEAN /\ b.key \in Keys \cup {"other"} /\ b.up \in BOOLEAN
    BY <1>2, WaitingType DEF Devices, Bytes
  <1>7. leftShift' \in BOOLEAN
    BY KeyType DEF TypeOK
  <1>8. c \in Calls /\ c.key = b.key /\ (c.pressed <=> ~b.up) /\ (c.shift <=> leftShift')
    <2>1. c \in Calls
      BY <1>6, <1>7 DEF Calls
    <2>2. c.key = b.key /\ c.pressed = (~b.up) /\ c.shift = leftShift'
      OBVIOUS
    <2> QED
      BY <2>1, <2>2
  <1>9. n \in Nat /\ heard \in Seq(Calls)
    BY LenProperties DEF TypeOK
  <1> HIDE DEF c, b, w
  <1>10. /\ Len(heard') = n + 1 /\ heard'[n + 1] = c /\ heard' \in Seq(Calls)
         /\ \A m \in 1..n : heard'[m] = heard[m]
    BY <1>3, <1>8, <1>9, AppendProperties
  <1>11. b.key = typed[n + 1].key /\ (b.up <=> ~typed[n + 1].pressed)
    <2>1. 1 \in 1..Len(w)
      BY <1>5
    <2>2. ToHear(1)
      BY <1>1, <2>1
    <2> QED
      BY <1>4, <2>2, Zenon DEF ToHear, w
  <1>12. leftShift' <=> ShiftAfter(n + 1)
    <2>1. /\ typed[n + 1].key = KEY_SHIFT => (ShiftAfter(n + 1) <=> typed[n + 1].pressed)
          /\ typed[n + 1].key # KEY_SHIFT => (ShiftAfter(n + 1) <=> ShiftAfter(n))
      BY <1>9, ShiftNext
    <2> QED
      BY <1>1, <1>3, <1>11, <2>1, Zenon
  <1>13. \A m : ShiftAfter(m)' <=> ShiftAfter(m)
    BY <1>2 DEF ShiftAfter
  <1>14. ASSUME NEW m \in 1..(n + 1) PROVE Heard(m)'
    <2>1. CASE m \in 1..n
      <3>1. heard'[m] = heard[m] /\ typed' = typed /\ Heard(m)
        BY <1>1, <1>2, <1>10, <2>1
      <3> QED
        BY <1>13, <3>1, Zenon DEF Heard
    <2>2. CASE m = n + 1
      <3>1. heard'[m] = c /\ typed' = typed
        BY <1>2, <1>10, <2>2
      <3>2. (typed[m].pressed <=> ~b.up) /\ b.key = typed[m].key /\ (leftShift' <=> ShiftAfter(m)')
        <4>1. (b.up <=> ~typed[m].pressed) /\ b.key = typed[m].key
          BY <1>11, <2>2
        <4>2. leftShift' <=> ShiftAfter(m)
          BY <1>12, <2>2
        <4> QED
          BY <1>13, <4>1, <4>2, Zenon
      <3> QED
        BY <1>8, <3>1, <3>2, Zenon DEF Heard
    <2> QED
      BY <1>9, <2>1, <2>2
  <1>15. ASSUME NEW j \in 1..(Len(w) - 1) PROVE ToHear(j)'
    <2>1. j + 1 \in 1..Len(w) /\ (n + 1) + j = n + (j + 1)
      BY <1>5, <1>9
    <2>2. ToHear(j + 1)
      BY <1>1, <2>1
    <2>3. Waiting("keyboard")'[j] = w[j + 1] /\ typed' = typed /\ Len(heard') + j = n + (j + 1)
      BY <1>2, <1>4, <1>5, <1>10, <2>1
    <2> QED
      BY <2>2, <2>3, Zenon DEF ToHear, w
  <1>16. ShiftAfter(Len(heard))' <=> ShiftAfter(n + 1)
    BY <1>2, <1>10 DEF ShiftAfter
  <1>17. Len(typed') = Len(heard') + Len(Waiting("keyboard")') /\ Len(Waiting("keyboard")') = Len(w) - 1
    <2>1. PICK h \in Nat, k \in Nat : h = n /\ k = Len(w)
      BY <1>5, <1>9
    <2>2. Len(typed') = h + k
      BY <1>1, <1>2, <2>1
    <2>3. Len(heard') = h + 1 /\ Len(Waiting("keyboard")') = k - 1
      BY <1>4, <1>5, <1>10, <2>1
    <2> QED
      BY <2>1, <2>2, <2>3
  <1>18. keyHandlers' = 1 /\ Len(heard') = n + 1
    BY <1>1, <1>2, <1>10
  <1> QED
    BY <1>12, <1>14, <1>15, <1>16, <1>17, <1>18, Zenon DEF KeysOK

-----------------------------------------------------------------------------
(* The cursor.                                                             *)

LEMMA TakenType ==
  ASSUME NEW p \in Cursors, NEW d \in Int
  PROVE  Taken(p, d) \in Cursors
  <1>1. p.cycle \in 0..2 /\ p.x \in Int /\ p.y \in Int
    BY DEF Cursors
  <1>2. Clamp(p.x + d, MaxX) \in Int /\ Clamp(p.y - d, MaxY) \in Int
    <2>1. p.x + d \in Int /\ p.y - d \in Int /\ MaxX \in Int /\ MaxY \in Int
      BY <1>1, Constants
    <2> QED
      BY <2>1, ClampInt
  <1>3. PICK c \in 0..2, x \in Int, y \in Int : Taken(p, d) = [cycle |-> c, x |-> x, y |-> y]
    <2>1. (IF p.cycle = 2 THEN 0 ELSE p.cycle + 1) \in 0..2
      BY <1>1
    <2>2. (IF p.cycle = 1 THEN Clamp(p.x + d, MaxX) ELSE p.x) \in Int
      BY <1>1, <1>2
    <2>3. (IF p.cycle = 2 THEN Clamp(p.y - d, MaxY) ELSE p.y) \in Int
      BY <1>1, <1>2
    <2> QED
      BY <2>1, <2>2, <2>3, Zenon DEF Taken
  <1> QED
    BY <1>3 DEF Cursors

\* One more byte on the way.
LEMMA TrackOn ==
  ASSUME NEW w \in Seq(Bytes), NEW from, NEW to, NEW t, Track(t, w, from, to), NEW b \in Bytes
  PROVE  \E u : Track(u, Append(w, b), from, Taken(to, b.delta))
  <1> DEFINE n == Len(w)
             v == Append(w, b)
             last2 == Taken(to, b.delta)
             u == [j \in 0..(n + 1) |-> IF j <= n THEN t[j] ELSE last2]
  <1>1. /\ t \in [0..n -> Cursors] /\ t[0] = from /\ t[n] = to
        /\ \A j \in 1..n : t[j] = Taken(t[j - 1], w[j].delta)
    BY DEF Track
  <1>2. n \in Nat
    BY LenProperties
  <1>3. b.delta \in Int
    BY DEF Bytes
  <1>4. last2 \in Cursors
    <2>1. n \in 0..n
      BY <1>2
    <2>2. to \in Cursors
      BY <1>1, <2>1
    <2> QED
      BY <1>3, <2>2, TakenType
  <1>5. Len(v) = n + 1 /\ v[n + 1] = b /\ \A j \in 1..n : v[j] = w[j]
    BY AppendProperties
  <1> HIDE DEF n, v, last2
  <1>6. \A j \in 0..n : u[j] = t[j]
    BY <1>2
  <1>7. u[n + 1] = last2
    BY <1>2
  <1>8. u \in [0..(n + 1) -> Cursors]
    BY <1>1, <1>2, <1>4
  <1> HIDE DEF u
  <1>9. ASSUME NEW j \in 1..(n + 1) PROVE u[j] = Taken(u[j - 1], v[j].delta)
    <2>1. CASE j \in 1..n
      <3>1. j \in 0..n /\ j - 1 \in 0..n
        BY <1>2, <2>1
      <3>2. u[j] = t[j] /\ u[j - 1] = t[j - 1] /\ v[j] = w[j]
        BY <1>5, <1>6, <2>1, <3>1
      <3> QED
        BY <1>1, <2>1, <3>2
    <2>2. CASE j = n + 1
      <3>1. j - 1 = n /\ n \in 0..n
        BY <1>2, <2>2
      <3>2. u[j] = last2 /\ u[j - 1] = to /\ v[j] = b
        BY <1>1, <1>5, <1>6, <1>7, <2>2, <3>1
      <3> QED
        BY <3>2 DEF last2
    <2> QED
      BY <1>2, <2>1, <2>2
  <1>10. u[0] = from
    <2>1. 0 \in 0..n
      BY <1>2
    <2> QED
      BY <1>1, <1>6, <2>1
  <1>11. Track(u, v, from, last2)
    BY <1>5, <1>7, <1>8, <1>9, <1>10 DEF Track
  <1> QED
    BY <1>11 DEF v, last2

\* The first byte is taken.
LEMMA TrackOff ==
  ASSUME NEW w \in Seq(Bytes), w # << >>, NEW from, NEW to, NEW t, Track(t, w, from, to)
  PROVE  \E u : Track(u, Tail(w), Taken(from, w[1].delta), to)
  <1> DEFINE n == Len(w) - 1
             v == Tail(w)
             u == [j \in 0..n |-> t[j + 1]]
  <1>1. /\ t \in [0..Len(w) -> Cursors] /\ t[0] = from /\ t[Len(w)] = to
        /\ \A j \in 1..Len(w) : t[j] = Taken(t[j - 1], w[j].delta)
    BY DEF Track
  <1>2. /\ Len(w) \in Nat \ {0} /\ Len(v) = Len(w) - 1
        /\ \A i \in 1..(Len(w) - 1) : v[i] = w[i + 1]
    BY HeadAndTail
  <1>3. n \in Nat /\ Len(w) = n + 1 /\ Len(v) = n /\ \A i \in 1..n : v[i] = w[i + 1]
    BY <1>2
  <1> HIDE DEF n, v
  <1>4. \A j \in 0..n : u[j] = t[j + 1]
    OBVIOUS
  <1>5. u \in [0..n -> Cursors]
    <2>1. ASSUME NEW j \in 0..n PROVE t[j + 1] \in Cursors
      <3>1. j + 1 \in 0..Len(w)
        BY <1>3
      <3> QED
        BY <1>1, <3>1
    <2> QED
      BY <2>1
  <1> HIDE DEF u
  <1>6. u[0] = Taken(from, w[1].delta)
    <2>1. 0 \in 0..n /\ 0 + 1 = 1 /\ 1 - 1 = 0 /\ 1 \in 1..Len(w)
      BY <1>3
    <2>2. u[0] = t[1]
      BY <1>4, <2>1
    <2>3. t[1] = Taken(t[1 - 1], w[1].delta)
      BY <1>1, <2>1
    <2> QED
      BY <1>1, <2>1, <2>2, <2>3
  <1>7. u[n] = to
    BY <1>1, <1>3, <1>4
  <1>8. ASSUME NEW j \in 1..n PROVE u[j] = Taken(u[j - 1], v[j].delta)
    <2>1. j \in 0..n /\ j - 1 \in 0..n /\ (j - 1) + 1 = j /\ j + 1 \in 1..Len(w) /\ (j + 1) - 1 = j
      BY <1>3
    <2>2. u[j] = t[j + 1] /\ u[j - 1] = t[j] /\ v[j] = w[j + 1]
      BY <1>3, <1>4, <2>1
    <2>3. t[j + 1] = Taken(t[(j + 1) - 1], w[j + 1].delta)
      BY <1>1, <2>1
    <2> QED
      BY <2>1, <2>2, <2>3
  <1>9. Track(u, v, Taken(from, w[1].delta), to)
    BY <1>3, <1>5, <1>6, <1>7, <1>8 DEF Track
  <1> QED
    BY <1>9 DEF v

\* A step that has to do with something else.
LEMMA SameCursor ==
  ASSUME CursorOK, UNCHANGED <<pc, mouseCycle, mouseX, mouseY, want>>,
         Waiting("mouse")' = Waiting("mouse")
  PROVE  CursorOK'
  <1>1. Cursor' = Cursor
    BY DEF Cursor
  <1> QED
    BY <1>1 DEF CursorOK

LEMMA AddCursor ==
  ASSUME TypeOK, Preparing, addKeyboardHandler
  PROVE  CursorOK'
  <1>1. pc = 27
    BY Places DEF addKeyboardHandler
  <1>2. mouseCycle = 0 /\ coming["mouse"] = << >> /\ buffer = Empty
    BY <1>1 DEF Preparing, Answers, NothingComing, Devices
  <1>3. UNCHANGED <<coming, buffer, mouseCycle, mouseX, mouseY>> /\ want' = <<mouseX, mouseY>>
    BY DEF addKeyboardHandler, controller, mouse
  <1>4. Waiting("mouse")' = << >>
    <2>1. Waiting("mouse")' = << >> \o << >>
      BY <1>2, <1>3, Constants DEF Waiting
    <2> QED
      BY <2>1, ConcatEmptySeq, EmptySeq
  <1>5. want' = <<want'[1], want'[2]>> /\ want'[1] = mouseX /\ want'[2] = mouseY /\ mouseX \in Int /\ mouseY \in Int
    BY <1>3 DEF TypeOK
  <1> DEFINE p == [cycle |-> 0, x |-> mouseX, y |-> mouseY]
             t == [j \in 0..0 |-> p]
  <1>6. Cursor' = p
    BY <1>2, <1>3 DEF Cursor
  <1>7. p \in Cursors
    BY <1>5 DEF Cursors
  <1> HIDE DEF p
  <1>8. Track(t, << >>, p, p)
    <2>1. Len(<< >>) = 0 /\ 1..0 = {} /\ 0 \in 0..0
      OBVIOUS
    <2>2. t \in [0..0 -> Cursors] /\ t[0] = p
      BY <1>7
    <2> QED
      BY <2>1, <2>2 DEF Track
  <1>9. Track(t, Waiting("mouse")', Cursor', [cycle |-> 0, x |-> want'[1], y |-> want'[2]])
    BY <1>4, <1>5, <1>6, <1>8 DEF p
  <1> QED
    BY <1>5, <1>9 DEF CursorOK

LEMMA ThreeMore ==
  ASSUME NEW w \in Seq(Bytes), NEW a \in Bytes, NEW b \in Bytes, NEW c \in Bytes
  PROVE  w \o <<a, b, c>> = Append(Append(Append(w, a), b), c)
  <1> DEFINE n == Len(w)
             s == <<a, b, c>>
             w1 == Append(w, a)
             w2 == Append(w1, b)
             w3 == Append(w2, c)
             v == w \o s
  <1>1. n \in Nat
    BY LenProperties
  <1>2. w1 \in Seq(Bytes) /\ Len(w1) = n + 1 /\ w1[n + 1] = a /\ \A i \in 1..n : w1[i] = w[i]
    BY AppendProperties
  <1> HIDE DEF w1
  <1>3. w2 \in Seq(Bytes) /\ Len(w2) = (n + 1) + 1 /\ w2[(n + 1) + 1] = b /\ \A i \in 1..(n + 1) : w2[i] = w1[i]
    BY <1>2, AppendProperties
  <1> HIDE DEF w2
  <1>4. /\ w3 \in Seq(Bytes) /\ Len(w3) = ((n + 1) + 1) + 1 /\ w3[((n + 1) + 1) + 1] = c
        /\ \A i \in 1..((n + 1) + 1) : w3[i] = w2[i]
    BY <1>3, AppendProperties
  <1> HIDE DEF w3
  <1>5. s \in Seq(Bytes) /\ Len(s) = 3 /\ s[1] = a /\ s[2] = b /\ s[3] = c
    OBVIOUS
  <1> HIDE DEF s
  <1>6. /\ v \in Seq(Bytes) /\ Len(v) = n + 3
        /\ \A i \in 1..n + Len(s) : v[i] = IF i <= n THEN w[i] ELSE s[i - n]
    <2>1. v \in Seq(Bytes) /\ Len(v) = Len(w) + Len(s)
      BY <1>5, ConcatProperties
    <2>2. \A i \in 1..Len(w) + Len(s) : v[i] = IF i <= Len(w) THEN w[i] ELSE s[i - Len(w)]
      BY <1>5, ConcatProperties, Zenon
    <2> QED
      BY <1>5, <2>1, <2>2
  <1> HIDE DEF v
  <1>7. PICK k \in Nat : k = n
    BY <1>1
  <1> HIDE DEF n
  <1>8. Len(w3) = Len(v)
    BY <1>4, <1>6, <1>7
  <1>9. ASSUME NEW i \in 1..(k + 3) PROVE v[i] = w3[i]
    <2>1. v[i] = IF i <= k THEN w[i] ELSE s[i - k]
      BY <1>5, <1>6, <1>7
    <2>2. CASE i <= k
      <3>1. i \in 1..k /\ i \in 1..(k + 1) /\ i \in 1..((k + 1) + 1)
        BY <1>7, <2>2
      <3> QED
        BY <1>2, <1>3, <1>4, <1>7, <2>1, <2>2, <3>1
    <2>3. CASE i = k + 1
      <3>1. ~(i <= k) /\ i - k = 1 /\ i \in 1..(k + 1) /\ i \in 1..((k + 1) + 1)
        BY <1>7, <2>3
      <3> QED
        BY <1>2, <1>3, <1>4, <1>5, <1>7, <2>1, <2>3, <3>1
    <2>4. CASE i = k + 2
      <3>1. ~(i <= k) /\ i - k = 2 /\ i = (k + 1) + 1 /\ i \in 1..((k + 1) + 1)
        BY <1>7, <2>4
      <3> QED
        BY <1>3, <1>4, <1>5, <1>7, <2>1, <3>1
    <2>5. CASE i = k + 3
      <3>1. ~(i <= k) /\ i - k = 3 /\ i = ((k + 1) + 1) + 1
        BY <1>7, <2>5
      <3> QED
        BY <1>4, <1>5, <1>7, <2>1, <3>1
    <2> QED
      BY <1>7, <2>2, <2>3, <2>4, <2>5
  <1>10. v = w3
    BY <1>4, <1>6, <1>7, <1>8, <1>9, SeqEqual
  <1> QED
    BY <1>10 DEF v, s, w1, w2, w3

\* A packet of three bytes takes the cursor as the user means it.
LEMMA MoveCursor ==
  ASSUME TypeOK, CursorOK, NEW dx \in Deltas, NEW dy \in Deltas, Move(dx, dy)
  PROVE  CursorOK'
  <1> DEFINE w == Waiting("mouse")
             a == Flags
             b == Delta(dx)
             c == Delta(dy)
             x == want[1]
             y == want[2]
             nx == Clamp(x + dx, MaxX)
             ny == Clamp(y - dy, MaxY)
  <1>1. /\ pc = 28 /\ Sent("mouse", <<a, b, c>>)
        /\ UNCHANGED <<buffer, pc, mouseCycle, mouseX, mouseY>>
    BY IsUp DEF Move, init, mouse
  <1>2. want' = <<nx, ny>>
    BY DEF Move, Clamp
  <1>3. a \in Bytes /\ b \in Bytes /\ c \in Bytes
    BY SomeBytes
  <1>4. b.delta = dx /\ c.delta = dy /\ a.delta \in Int /\ dx \in Int /\ dy \in Int
    BY Constants DEF Delta, Flags, Byte
  <1>5. x \in Int /\ y \in Int
    BY <1>1 DEF CursorOK
  <1>6. nx \in Int /\ ny \in Int
    <2>1. x + dx \in Int /\ y - dy \in Int /\ MaxX \in Int /\ MaxY \in Int
      BY <1>4, <1>5, Constants
    <2> QED
      BY <2>1, ClampInt
  <1>7. w \in Seq(Bytes) /\ Waiting("mouse")' = w \o <<a, b, c>>
    <2>1. <<a, b, c>> \in Seq(Bytes) /\ "mouse" \in Devices
      BY <1>3 DEF Devices
    <2> QED
      BY <1>1, <2>1, SentOn, WaitingType
  <1> HIDE DEF a, b, c
  <1>8. PICK t : Track(t, w, Cursor, [cycle |-> 0, x |-> x, y |-> y])
    BY <1>1 DEF CursorOK
  <1> HIDE DEF w
  <1>9. w \o <<a, b, c>> = Append(Append(Append(w, a), b), c)
    BY <1>3, <1>7, ThreeMore
  <1> DEFINE p0 == [cycle |-> 0, x |-> x, y |-> y]
             p1 == [cycle |-> 1, x |-> x, y |-> y]
             p2 == [cycle |-> 2, x |-> nx, y |-> y]
             p3 == [cycle |-> 0, x |-> nx, y |-> ny]
  <1>10. Taken(p0, a.delta) = p1 /\ Taken(p1, b.delta) = p2 /\ Taken(p2, c.delta) = p3
    BY <1>4 DEF Taken
  <1>11. Append(w, a) \in Seq(Bytes) /\ Append(Append(w, a), b) \in Seq(Bytes)
    BY <1>3, <1>7, AppendProperties
  <1> HIDE DEF p0, p1, p2, p3
  <1>12. Track(t, w, Cursor, p0)
    BY <1>8 DEF p0
  <1>13. PICK t1 : Track(t1, Append(w, a), Cursor, p1)
    BY <1>3, <1>7, <1>10, <1>12, TrackOn
  <1>14. PICK t2 : Track(t2, Append(Append(w, a), b), Cursor, p2)
    BY <1>3, <1>10, <1>11, <1>13, TrackOn
  <1>15. PICK t3 : Track(t3, Append(Append(Append(w, a), b), c), Cursor, p3)
    BY <1>3, <1>10, <1>11, <1>14, TrackOn
  <1>16. Cursor' = Cursor
    BY <1>1 DEF Cursor
  <1>17. want' = <<want'[1], want'[2]>> /\ want'[1] = nx /\ want'[2] = ny
    BY <1>2
  <1>18. Track(t3, Waiting("mouse")', Cursor', [cycle |-> 0, x |-> want'[1], y |-> want'[2]])
    BY <1>7, <1>9, <1>15, <1>16, <1>17 DEF p3
  <1> QED
    BY <1>6, <1>17, <1>18 DEF CursorOK

\* The handler takes the next byte of the packet.
LEMMA TakeCursor ==
  ASSUME TypeOK, CursorOK, mouseInterrupt
  PROVE  CursorOK'
  <1>1. /\ buffer.of = "mouse" /\ buffer' = Empty /\ UNCHANGED <<coming, pc, want>>
    BY DEF mouseInterrupt, Interrupt, init, user
  <1> SUFFICES ASSUME pc = 28 PROVE CursorOK'
    BY <1>1 DEF CursorOK
  <1> DEFINE w == Waiting("mouse")
             d == buffer.byte.delta
  <1>2. w \in Seq(Bytes) /\ w # << >> /\ buffer.byte = w[1] /\ Waiting("mouse")' = Tail(w)
    BY <1>1, TakenOff DEF Devices
  <1>3. Cursor' = Taken(Cursor, d)
    <2>1. CASE mouseCycle = 0
      BY <2>1 DEF mouseInterrupt, Cursor, Taken
    <2>2. CASE mouseCycle = 1
      BY <2>2 DEF mouseInterrupt, Cursor, Taken
    <2>3. CASE mouseCycle = 2
      BY <2>3 DEF mouseInterrupt, Cursor, Taken, MoveY
    <2> QED
      BY <2>1, <2>2, <2>3 DEF TypeOK
  <1> HIDE DEF w
  <1>4. PICK t : Track(t, w, Cursor, [cycle |-> 0, x |-> want[1], y |-> want[2]])
    BY DEF CursorOK, w
  <1>5. \E u : Track(u, Tail(w), Taken(Cursor, w[1].delta), [cycle |-> 0, x |-> want[1], y |-> want[2]])
    BY <1>2, <1>4, TrackOff
  <1> QED
    BY <1>1, <1>2, <1>3, <1>5 DEF CursorOK

-----------------------------------------------------------------------------
(* The invariant.                                                          *)

LEMMA InitIInv == Init => IInv
  <1> SUFFICES ASSUME Init PROVE IInv
    OBVIOUS
  <1>1. TypeOK
    <2>1. coming \in [Devices -> Seq(Bytes)]
      BY EmptySeq DEF Init
    <2>2. last \in Bytes
      <3>1. Flags \in Bytes
        <4>1. "other" \in Keys \cup {"other"} /\ {} \in SUBSET Devices /\ FALSE \in BOOLEAN /\ 8 \in Int
          OBVIOUS
        <4>2. Byte(8, "other", FALSE, {}) \in Bytes
          BY <4>1, ByteTypes
        <4> QED
          BY <4>2 DEF Flags
      <3> QED
        BY <3>1 DEF Init
    <2>3. typed \in Seq(Strokes) /\ heard \in Seq(Calls)
      BY EmptySeq DEF Init
    <2>4. buffer = Empty /\ config \in SUBSET Devices /\ status \in SUBSET Devices
      BY DEF Init, Devices
    <2>5. pc \in 1..28 /\ mouseX \in Int /\ mouseY \in Int /\ mouseCycle \in 0..2
      BY DEF Init
    <2>6. leftShift \in BOOLEAN
      BY DEF Init
    <2> QED
      BY <2>1, <2>2, <2>3, <2>4, <2>5, <2>6 DEF TypeOK
  <1>2. pc = 1
    BY DEF Init
  <1>3. Preparing
    <2>1. Answers
      BY <1>2 DEF Init, Answers, NothingComing, Devices
    <2> QED
      BY <1>2, <2>1 DEF Init, Preparing
  <1> QED
    BY <1>1, <1>2, <1>3 DEF IInv, KeysOK, CursorOK

LEMMA KeysStep ==
  ASSUME IInv, [Next]_vars
  PROVE  KeysOK'
  <1> USE DEF IInv
  <1>1. CASE Initialise
    <2>1. CASE addKeyboardHandler
      BY <2>1, AddKeys
    <2>2. CASE ~addKeyboardHandler
      <3>1. pc \in 1..27 /\ pc' = pc + 1
        BY <1>1, InitialiseAnswers
      <3>2. pc # 27
        <4>1. PICK step, d : At(step, d) /\ step # "add"
          BY <1>1, <2>2 DEF Initialise, Register, Ask, WaitData, Delay, ReadStatus, Store, Write, Read, Reset, ResetHandlers
        <4>2. pc \in 1..27 /\ Program[pc] = <<step, d>>
          BY <4>1, Places DEF At
        <4> QED
          BY <4>1, <4>2, ProgramIs
      <3> QED
        BY <3>1, <3>2 DEF KeysOK
    <2> QED
      BY <2>1, <2>2
  <1>2. CASE mouseInterrupt
    <2>1. /\ buffer.of = "mouse" /\ buffer' = Empty
          /\ UNCHANGED <<coming, pc, keyHandlers, typed, heard, leftShift>>
      BY <1>2 DEF mouseInterrupt, Interrupt, init, keyboard, user
    <2>2. Waiting("keyboard")' = Waiting("keyboard")
      BY <2>1, TakenOff DEF Devices
    <2> QED
      BY <2>1, <2>2, SameKeys
  <1>3. CASE keyboardIRQ
    <2>1. CASE pc = 28
      BY <1>3, <2>1, TakeKeys
    <2>2. CASE pc # 28
      <3>1. pc' = pc
        BY <1>3 DEF keyboardIRQ, init
      <3> QED
        BY <2>2, <3>1 DEF KeysOK
    <2> QED
      BY <2>1, <2>2
  <1>4. CASE \E d \in Devices : Fill(d)
    <2>1. UNCHANGED <<pc, keyHandlers, typed, heard, leftShift>>
      BY <1>4 DEF Fill, init, keyboard, user
    <2>2. Waiting("keyboard")' = Waiting("keyboard")
      BY <1>4, Filled DEF Devices
    <2> QED
      BY <2>1, <2>2, SameKeys
  <1>5. CASE \E dx, dy \in Deltas : Move(dx, dy)
    <2>1. PICK dx \in Deltas, dy \in Deltas : Move(dx, dy)
      BY <1>5
    <2>2. UNCHANGED <<buffer, pc, keyHandlers, typed, heard, leftShift>>
      BY <2>1 DEF Move, init, keyboard
    <2>3. Waiting("keyboard")' = Waiting("keyboard")
      <3>1. Flags \in Bytes /\ Delta(dx) \in Bytes /\ Delta(dy) \in Bytes
        BY SomeBytes
      <3>2. <<Flags, Delta(dx), Delta(dy)>> \in Seq(Bytes) /\ "mouse" \in Devices /\ "keyboard" \in Devices \ {"mouse"}
        BY <3>1 DEF Devices
      <3>3. Sent("mouse", <<Flags, Delta(dx), Delta(dy)>>)
        BY <2>1 DEF Move
      <3> QED
        BY <2>2, <3>2, <3>3, SentOn
    <2> QED
      BY <2>2, <2>3, SameKeys
  <1>6. CASE \E key \in Keys, up \in BOOLEAN : Type(key, up)
    BY <1>6, TypeKeys
  <1>7. CASE UNCHANGED vars
    <2>1. UNCHANGED <<coming, buffer, pc, keyHandlers, typed, heard, leftShift>>
      BY <1>7 DEF vars, controller, init, keyboard, user
    <2>2. Waiting("keyboard")' = Waiting("keyboard")
      BY <2>1 DEF Waiting
    <2> QED
      BY <2>1, <2>2, SameKeys
  <1> QED
    BY <1>1, <1>2, <1>3, <1>4, <1>5, <1>6, <1>7 DEF Next

LEMMA CursorStep ==
  ASSUME IInv, [Next]_vars
  PROVE  CursorOK'
  <1> USE DEF IInv
  <1>1. CASE Initialise
    <2>1. CASE addKeyboardHandler
      BY <2>1, AddCursor
    <2>2. CASE ~addKeyboardHandler
      <3>1. pc \in 1..27 /\ pc' = pc + 1
        BY <1>1, InitialiseAnswers
      <3>2. pc # 27
        <4>1. PICK step, d : At(step, d) /\ step # "add"
          BY <1>1, <2>2 DEF Initialise, Register, Ask, WaitData, Delay, ReadStatus, Store, Write, Read, Reset, ResetHandlers
        <4>2. pc \in 1..27 /\ Program[pc] = <<step, d>>
          BY <4>1, Places DEF At
        <4> QED
          BY <4>1, <4>2, ProgramIs
      <3> QED
        BY <3>1, <3>2 DEF CursorOK
    <2> QED
      BY <2>1, <2>2
  <1>2. CASE mouseInterrupt
    BY <1>2, TakeCursor
  <1>3. CASE keyboardIRQ
    <2>1. /\ buffer.of = "keyboard" /\ buffer' = Empty
          /\ UNCHANGED <<coming, pc, mouseCycle, mouseX, mouseY, want>>
      BY <1>3 DEF keyboardIRQ, Interrupt, init, mouse, user
    <2>2. Waiting("mouse")' = Waiting("mouse")
      BY <2>1, TakenOff DEF Devices
    <2> QED
      BY <2>1, <2>2, SameCursor
  <1>4. CASE \E d \in Devices : Fill(d)
    <2>1. UNCHANGED <<pc, mouseCycle, mouseX, mouseY, want>>
      BY <1>4 DEF Fill, init, mouse, user
    <2>2. Waiting("mouse")' = Waiting("mouse")
      BY <1>4, Filled DEF Devices
    <2> QED
      BY <2>1, <2>2, SameCursor
  <1>5. CASE \E dx, dy \in Deltas : Move(dx, dy)
    BY <1>5, MoveCursor
  <1>6. CASE \E key \in Keys, up \in BOOLEAN : Type(key, up)
    <2>1. PICK key \in Keys, up \in BOOLEAN : Type(key, up)
      BY <1>6
    <2>2. UNCHANGED <<buffer, pc, mouseCycle, mouseX, mouseY, want>>
      BY <2>1 DEF Type, init, mouse
    <2>3. Waiting("mouse")' = Waiting("mouse")
      <3>1. Scan(key, up) \in Bytes /\ "keyboard" \in Devices /\ "mouse" \in Devices \ {"keyboard"}
        BY SomeBytes DEF Devices
      <3>2. <<Scan(key, up)>> \in Seq(Bytes) /\ Sent("keyboard", <<Scan(key, up)>>)
        BY <2>1, <3>1 DEF Type
      <3> QED
        BY <2>2, <3>1, <3>2, SentOn
    <2> QED
      BY <2>2, <2>3, SameCursor
  <1>7. CASE UNCHANGED vars
    <2>1. UNCHANGED <<coming, buffer, pc, mouseCycle, mouseX, mouseY, want>>
      BY <1>7 DEF vars, controller, init, mouse, user
    <2>2. Waiting("mouse")' = Waiting("mouse")
      BY <2>1 DEF Waiting
    <2> QED
      BY <2>1, <2>2, SameCursor
  <1> QED
    BY <1>1, <1>2, <1>3, <1>4, <1>5, <1>6, <1>7 DEF Next

LEMMA NextIInv ==
  ASSUME IInv, [Next]_vars
  PROVE  IInv'
  BY TypeStep, PreparingStep, KeysStep, CursorStep DEF IInv

\* With no packet under way the cursor is where the user has moved the mouse,
\* whatever was read during the initialisations, and whoever read it.
THEOREM CursorFollows == Spec => []Follows
  <1>1. IInv => Follows
    <2> SUFFICES ASSUME IInv, Initialised, coming["mouse"] = << >>, buffer.of # "mouse"
                 PROVE  <<mouseX, mouseY>> = want
      BY DEF Follows
    <2>1. pc = 28
      BY IsUp
    <2>2. Waiting("mouse") = << >>
      BY WaitingType DEF IInv, Devices
    <2>3. PICK t : Track(t, Waiting("mouse"), Cursor, [cycle |-> 0, x |-> want[1], y |-> want[2]])
      BY <2>1 DEF IInv, CursorOK
    <2>4. Len(Waiting("mouse")) = 0
      BY <2>2
    <2>5. Cursor = [cycle |-> 0, x |-> want[1], y |-> want[2]]
      BY <2>3, <2>4 DEF Track
    <2>6. mouseX = want[1] /\ mouseY = want[2]
      BY <2>5 DEF Cursor
    <2> QED
      BY <2>1, <2>6 DEF IInv, CursorOK
  <1> QED
    BY <1>1, InitIInv, NextIInv, PTL DEF Spec

\* Key handlers hear what was typed, in order, each key with the shift key as
\* it was when the key was typed, however many keys wait.
THEOREM KeysAreHeard == Spec => []HearsKeys
  <1>1. IInv => HearsKeys
    <2> SUFFICES ASSUME IInv, NEW n \in 1..Len(heard)
                 PROVE  /\ [key |-> heard[n].key, pressed |-> heard[n].pressed] = typed[n]
                        /\ heard[n].shift = \E k \in {k \in 1..n : typed[k].key = KEY_SHIFT} :
                             typed[k].pressed /\ \A j \in {k2 \in 1..n : typed[k2].key = KEY_SHIFT} : j <= k
      BY DEF HearsKeys
    <2>1. heard \in Seq(Calls) /\ typed \in Seq(Strokes) /\ Len(heard) \in Nat
      BY LenProperties DEF IInv, TypeOK
    <2>2. pc = 28
      <3>1. Len(heard) # 0
        BY <2>1
      <3>2. heard # << >>
        BY <3>1
      <3> QED
        BY <3>2 DEF IInv, TypeOK, Preparing
    <2>3. Heard(n) /\ Len(typed) = Len(heard) + Len(Waiting("keyboard")) /\ Len(Waiting("keyboard")) \in Nat
      BY <2>2, WaitingType, LenProperties DEF IInv, KeysOK, Devices
    <2>4. n \in 1..Len(typed)
      BY <2>1, <2>3
    <2>5. typed[n] \in Strokes /\ heard[n] \in Calls
      BY <2>1, <2>4, ElementOfSeq
    <2>6. typed[n].pressed \in BOOLEAN /\ heard[n].pressed \in BOOLEAN /\ heard[n].shift \in BOOLEAN
      BY <2>5 DEF Strokes, Calls
    <2>7. heard[n].pressed = typed[n].pressed /\ heard[n].key = typed[n].key
      BY <2>3, <2>6, Zenon DEF Heard
    <2>8. [key |-> typed[n].key, pressed |-> typed[n].pressed] = typed[n]
      BY <2>5 DEF Strokes
    <2>9. ShiftAfter(n) <=> \E k \in {k \in 1..n : typed[k].key = KEY_SHIFT} :
                             typed[k].pressed /\ \A j \in {k2 \in 1..n : typed[k2].key = KEY_SHIFT} : j <= k
      BY Zenon DEF ShiftAfter
    <2>10. heard[n].shift = \E k \in {k \in 1..n : typed[k].key = KEY_SHIFT} :
                             typed[k].pressed /\ \A j \in {k2 \in 1..n : typed[k2].key = KEY_SHIFT} : j <= k
      BY <2>3, <2>6, <2>9, Zenon DEF Heard
    <2> QED
      BY <2>7, <2>8, <2>10, Zenon
  <1> QED
    BY <1>1, InitIInv, NextIInv, PTL DEF Spec

-----------------------------------------------------------------------------
(* The lines of the PICs: the module Interrupts.                            *)

\* What is in service between the CPU's answer and the end of interrupt: the
\* line itself, the cascade too if it comes in on that, and less if the
\* request was gone.
InService ==
  \/ isr = {num, FirstLine(num)}
  \/ num = 7 /\ isr = {}
  \/ num = 15 /\ isr = {Cascade}

LinesOK ==
  /\ irr \subseteq Lines
  /\ num \in 0..15
  /\ handler \in {"out", "eoi", "handle"}
  /\ handler \in {"out", "handle"} => isr = {}
  /\ handler = "eoi" => InService

LEMMA LineRange ==
  ASSUME NEW l \in Lines
  PROVE  l \in 0..15
  BY LineAssumption

LEMMA FirstOfOne ==
  ASSUME NEW l
  PROVE  First({l}) = l /\ Ended({l}) = {}
  <1>1. First({l}) = l
    BY DEF First
  <1> QED
    BY <1>1 DEF Ended

\* One end of interrupt to each PIC that is in service, or that would not
\* mind, leaves nothing in service.
LEMMA EndsAll ==
  ASSUME num \in 0..15, InService
  PROVE  EndOfInterrupt(num, isr) = {}
  <1>1. \A l \in 0..7 : EndFirst({l}) = {}
    <2>1. ASSUME NEW l \in 0..7 PROVE EndFirst({l}) = {}
      <3>1. {k \in {l} : OnSecond(k)} = {} /\ {k \in {l} : ~OnSecond(k)} = {l}
        BY DEF OnSecond
      <3> QED
        BY <3>1, FirstOfOne DEF EndFirst
    <2> QED
      BY <2>1
  <1>2. EndFirst({}) = {}
    BY DEF EndFirst, Ended
  <1>3. EndSecond({Cascade}) = {Cascade}
    <2>1. {k \in {Cascade} : ~OnSecond(k)} = {Cascade} /\ {k \in {Cascade} : OnSecond(k)} = {}
      BY DEF OnSecond, Cascade
    <2> QED
      BY <2>1 DEF EndSecond, Ended
  <1>4. ASSUME NEW l \in 8..15 PROVE EndSecond({l, Cascade}) = {Cascade}
    <2>1. /\ {k \in {l, Cascade} : ~OnSecond(k)} = {Cascade}
          /\ {k \in {l, Cascade} : OnSecond(k)} = {l}
      BY DEF OnSecond, Cascade
    <2> QED
      BY <2>1, FirstOfOne DEF EndSecond
  <1>5. EndFirst({Cascade}) = {}
    BY <1>1 DEF Cascade
  <1>6. CASE num < 8
    <2>1. num \in 0..7 /\ FirstLine(num) = num
      BY <1>6 DEF FirstLine, OnSecond
    <2>2. isr = {num} \/ isr = {}
      BY <1>6, <2>1 DEF InService
    <2>3. EndFirst(isr) = {}
      BY <1>1, <1>2, <2>1, <2>2
    <2> QED
      BY <1>6, <2>1, <2>3 DEF EndOfInterrupt
  <1>7. CASE num >= 8
    <2>1. num \in 8..15 /\ FirstLine(num) = Cascade
      BY <1>7 DEF FirstLine, OnSecond
    <2>2. isr = {num, Cascade} \/ isr = {Cascade}
      BY <1>7, <2>1 DEF InService
    <2>3. EndSecond(isr) = {Cascade}
      BY <1>3, <1>4, <2>1, <2>2
    <2> QED
      BY <1>5, <1>7, <2>1, <2>3 DEF EndOfInterrupt
  <1> QED
    BY <1>6, <1>7

LEMMA InitLines == IRQInit => LinesOK
  BY DEF IRQInit, LinesOK

LEMMA TakenStep ==
  ASSUME LinesOK, Acknowledge \/ \E l \in Lines : Spurious(l)
  PROVE  LinesOK'
  <1>1. CASE Acknowledge
    <2>1. PICK l \in irr : /\ irr' = irr \ {l} /\ num' = l
                          /\ isr' = isr \cup {l, FirstLine(l)}
      BY <1>1 DEF Acknowledge
    <2>2. isr = {} /\ handler' = "eoi" /\ l \in Lines
      BY <1>1 DEF Acknowledge, LinesOK
    <2>3. InService'
      BY <2>1, <2>2 DEF InService
    <2> QED
      BY <2>1, <2>2, <2>3, LineRange DEF LinesOK
  <1>2. CASE \E l \in Lines : Spurious(l)
    <2>1. PICK l \in Lines :
            /\ handler = "out" /\ irr' = irr \ {l} /\ handler' = "eoi"
            /\ isr' = IF OnSecond(l) THEN isr \cup {Cascade} ELSE isr
            /\ num' = IF OnSecond(l) THEN 15 ELSE 7
      BY <1>2 DEF Spurious
    <2>2. isr = {}
      BY <2>1 DEF LinesOK
    <2>3. InService'
      BY <2>1, <2>2 DEF InService
    <2> QED
      BY <2>1, <2>3 DEF LinesOK
  <1> QED
    BY <1>1, <1>2

LEMMA NextLines ==
  ASSUME LinesOK, [IRQNext]_irqVars
  PROVE  LinesOK'
  <1>1. CASE Acknowledge \/ \E l \in Lines : Spurious(l)
    BY <1>1, TakenStep
  <1>2. CASE SendEOI
    <2>1. EndOfInterrupt(num, isr) = {}
      BY <1>2, EndsAll DEF LinesOK, SendEOI
    <2> QED
      BY <1>2, <2>1 DEF LinesOK, SendEOI
  <1>3. CASE CallHandler
    BY <1>3 DEF LinesOK, CallHandler
  <1>4. CASE \E l \in Lines : Raise(l) \/ Withdraw(l)
    <2>1. PICK l \in Lines :
            irr' \in {irr \cup {l}, irr \ {l}} /\ UNCHANGED <<isr, handler, num>>
      BY <1>4 DEF Raise, Withdraw
    <2> QED
      BY <2>1 DEF LinesOK, InService
  <1>5. CASE UNCHANGED irqVars
    BY <1>5 DEF irqVars, LinesOK, InService
  <1> QED
    BY <1>1, <1>2, <1>3, <1>4, <1>5 DEF IRQNext, CPU

\* When a handler begins, and between handlers, nothing is in service,
\* whichever lines are handled and whichever requests go away.
THEOREM NothingHeldBackCorrect == IRQSpec => []NothingHeldBack
  <1>1. LinesOK => NothingHeldBack
    BY DEF LinesOK, NothingHeldBack
  <1> QED
    BY <1>1, InitLines, NextLines, PTL DEF IRQSpec
=============================================================================
