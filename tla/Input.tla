-------------------------------- MODULE Input --------------------------------
(* Mouse.cpp and Keyboard.cpp of kernel/src against the PS/2 controller.    *)
(* The two initialisations run with interrupts on: what a device answers    *)
(* there is read by the thread or by the handler it has registered,         *)
(* whichever comes first.  The waits for data end with data, or late enough *)
(* for none to be to come.  mouseWaitSignal and keyWaitSignal test their bit *)
(* the wrong way round: they return at once while the controller has not    *)
(* taken the last byte, and are long delays when it has.  It is assumed     *)
(* here, and not by the code, that it has taken a byte before its status is *)
(* read again: then they are delays, and no byte written is overwritten.    *)
EXTENDS Integers, Sequences

CONSTANTS
  MaxX, MaxY,   \* 1920 and 1080
  Start,        \* 50
  Deltas,       \* movements that the mouse reports
  Keys,         \* keys, the left shift key among them
  MaxMoves, MaxKeys   \* bounds on what the user does

KEY_SHIFT == "KEY_SHIFT"

ASSUME InputAssumption ==
  /\ {MaxX, MaxY, Start} \subseteq Nat /\ Start <= MaxX /\ Start <= MaxY
  /\ Deltas \subseteq (-128)..127 /\ KEY_SHIFT \in Keys

Devices == {"keyboard", "mouse"}

VARIABLES
  coming,      \* bytes each device has sent, or the controller for it
  buffer,      \* the output buffer: a byte and whose it is, or Empty
  last,        \* the byte that port 0x60 shows
  config,      \* devices whose interrupts the controller passes on
  registered,  \* devices with a handler
  pc,          \* how far the initialisations are in Program
  status,      \* the local variable of both
  mouseCycle, mouseX, mouseY,
  leftShift,   \* keyboardState
  keyHandlers, \* how many there are
  want,        \* where the mouse has been moved to
  moves, typed,\* what the user has done
  heard        \* calls of the key handler, each with leftShift then

controller == <<coming, buffer, last, config>>
init == <<registered, pc, status>>
mouse == <<mouseCycle, mouseX, mouseY>>
keyboard == <<leftShift, keyHandlers, heard>>
user == <<want, moves, typed>>
vars == <<controller, init, mouse, keyboard, user>>

-----------------------------------------------------------------------------
(* The controller and the devices (external).  A byte is a record of what  *)
(* it can be taken for.                                                    *)

Empty == [of |-> "nobody"]

Byte(delta, key, up, bits) == [delta |-> delta, key |-> key, up |-> up, bits |-> bits]

ConfigByte == Byte(0, "other", FALSE, config)
Ack == Byte(-6, "other", TRUE, {})
Flags == Byte(8, "other", FALSE, {})
Delta(d) == Byte(d, "other", FALSE, {})
Scan(key, up) == Byte(0, key, up, {})

Sent(d, bytes) == coming' = [coming EXCEPT ![d] = @ \o bytes]

Fill(d) ==
  /\ buffer = Empty /\ coming[d] # << >>
  /\ buffer' = [of |-> d, byte |-> Head(coming[d])]
  /\ last' = Head(coming[d])
  /\ coming' = [coming EXCEPT ![d] = Tail(@)]
  /\ UNCHANGED <<config, init, mouse, keyboard, user>>

NothingComing == \A d \in Devices : coming[d] = << >>

\* A byte of a device with its bit set interrupts; without a handler
\* irq_handler leaves it alone.
Interrupt(d) == buffer.of = d /\ d \in config \cap registered

-----------------------------------------------------------------------------
(* mouseInterrupt.                                                         *)

Clamp(n, high) == IF n < 0 THEN 0 ELSE IF n > high THEN high ELSE n

MoveY(d) == mouseY' = Clamp(mouseY - d, MaxY)

mouseInterrupt ==
  /\ Interrupt("mouse")
  /\ \/ mouseCycle = 0 /\ mouseCycle' = 1 /\ UNCHANGED <<mouseX, mouseY>>
     \/ /\ mouseCycle = 1 /\ mouseCycle' = 2
        /\ mouseX' = Clamp(mouseX + buffer.byte.delta, MaxX) /\ UNCHANGED mouseY
     \/ mouseCycle = 2 /\ mouseCycle' = 0 /\ MoveY(buffer.byte.delta) /\ UNCHANGED mouseX
  /\ buffer' = Empty
  /\ UNCHANGED <<coming, last, config, init, keyboard, user>>

-----------------------------------------------------------------------------
(* keyboardIRQ.                                                            *)

\* Mutant: the key is compared before its top bit is cleared.
Shift_Unmasked(key, pressed) == IF key = KEY_SHIFT /\ pressed THEN pressed ELSE leftShift

Shift(key, pressed) == IF key = KEY_SHIFT THEN pressed ELSE leftShift

keyboardIRQ ==
  /\ Interrupt("keyboard")
  /\ LET key == buffer.byte.key
         pressed == ~buffer.byte.up
     IN /\ leftShift' = Shift(key, pressed)
        /\ heard' = IF keyHandlers = 0 THEN heard
                    ELSE Append(heard, [key |-> key, pressed |-> pressed, shift |-> leftShift'])
  /\ buffer' = Empty
  /\ UNCHANGED <<coming, last, config, init, mouse, keyHandlers, user>>

-----------------------------------------------------------------------------
(* initializeMouse, initializeKeyboard and addKeyboardHandler, from one    *)
(* access of what they share with the handlers to the next.                *)

Program ==
  LET Setup(d) == << <<"register", d>>, <<"ask", d>>, <<"wait", d>>, <<"status", d>>, <<"store", d>> >>
      Command == << <<"write", "mouse">>, <<"wait", "mouse">>, <<"read", "mouse">> >>
      Echo == << <<"write", "keyboard">>, <<"delay", "keyboard">>, <<"read", "keyboard">> >>
  IN Setup("mouse") \o Command \o Command \o << <<"reset", "mouse">> >>
     \o Setup("keyboard") \o Echo \o Echo \o << <<"read", "keyboard">>,
          <<"reset", "keyboard">>, <<"handlers", "keyboard">>, <<"add", "keyboard">> >>

Initialised == pc = Len(Program) + 1

At(step, d) == ~Initialised /\ Program[pc] = <<step, d>> /\ pc' = pc + 1

Register(d) ==
  /\ At("register", d)
  /\ registered' = registered \cup {d}
  /\ IF d = "mouse" THEN mouseX' = Start /\ mouseY' = Start ELSE UNCHANGED <<mouseX, mouseY>>
  /\ UNCHANGED <<controller, status, mouseCycle, keyboard, user>>

\* Command 0x20.
Ask(d) ==
  /\ At("ask", d)
  /\ Sent("keyboard", <<ConfigByte>>)
  /\ UNCHANGED <<buffer, last, config, registered, status, mouse, keyboard, user>>

\* mouseWaitData and keyWaitData.
WaitData(d) ==
  /\ At("wait", d)
  /\ buffer # Empty \/ NothingComing
  /\ UNCHANGED <<controller, registered, status, mouse, keyboard, user>>

\* keyWaitSignal.
Delay(d) ==
  /\ At("delay", d)
  /\ NothingComing
  /\ UNCHANGED <<controller, registered, status, mouse, keyboard, user>>

\* Mutant: the other bits are not kept.
Status_Fresh(d) == status' = {d}

Status(d) == status' = last.bits \cup {d}

ReadStatus(d) ==
  /\ At("status", d)
  /\ Status(d)
  /\ buffer' = Empty
  /\ UNCHANGED <<coming, last, config, registered, mouse, keyboard, user>>

\* Command 0x60.
Store(d) ==
  /\ At("store", d)
  /\ config' = status
  /\ UNCHANGED <<coming, buffer, last, registered, status, mouse, keyboard, user>>

\* To the mouse, which acknowledges; command 0xD2 makes the controller hand
\* the byte back as if it came from the keyboard.
Write(d) ==
  /\ At("write", d)
  /\ Sent(d, IF d = "mouse" THEN <<Ack>> ELSE <<Scan("other", FALSE)>>)
  /\ UNCHANGED <<buffer, last, config, registered, status, mouse, keyboard, user>>

Read(d) ==
  /\ At("read", d)
  /\ buffer' = Empty
  /\ UNCHANGED <<coming, last, config, registered, status, mouse, keyboard, user>>

\* Mutant: no reset.
ResetCycle_Dropped == UNCHANGED mouseCycle

ResetCycle == mouseCycle' = 0

Reset(d) ==
  /\ At("reset", d)
  /\ IF d = "mouse" THEN ResetCycle /\ UNCHANGED leftShift
                    ELSE leftShift' = FALSE /\ UNCHANGED mouseCycle
  /\ UNCHANGED <<controller, registered, status, mouseX, mouseY, keyHandlers, heard, user>>

ResetHandlers ==
  /\ At("handlers", "keyboard")
  /\ keyHandlers' = 0
  /\ UNCHANGED <<controller, registered, status, mouse, leftShift, heard, user>>

addKeyboardHandler ==
  /\ At("add", "keyboard")
  /\ keyHandlers' = keyHandlers + 1
  /\ want' = <<mouseX, mouseY>>
  /\ UNCHANGED <<controller, registered, status, mouse, leftShift, heard, moves, typed>>

-----------------------------------------------------------------------------
(* The user (external), who waits for the kernel to be up: during the      *)
(* initialisations the first byte of a movement or a key may be read for   *)
(* an answer, and nothing would bring packets back into step.              *)

Move(dx, dy) ==
  /\ Initialised /\ moves < MaxMoves
  /\ moves' = moves + 1
  /\ Sent("mouse", <<Flags, Delta(dx), Delta(dy)>>)
  /\ want' = LET In(n, high) == IF n < 0 THEN 0 ELSE IF n > high THEN high ELSE n
             IN <<In(want[1] + dx, MaxX), In(want[2] - dy, MaxY)>>
  /\ UNCHANGED <<buffer, last, config, init, mouse, keyboard, typed>>

Type(key, up) ==
  /\ Initialised /\ Len(typed) < MaxKeys
  /\ typed' = Append(typed, [key |-> key, pressed |-> ~up])
  /\ Sent("keyboard", <<Scan(key, up)>>)
  /\ UNCHANGED <<buffer, last, config, init, mouse, keyboard, want, moves>>

-----------------------------------------------------------------------------
\* The firmware may have left the keyboard's interrupts on.
Init ==
  /\ coming = [d \in Devices |-> << >>] /\ buffer = Empty
  /\ last = Flags
  /\ config \in {{}, {"keyboard"}}
  /\ registered = {} /\ pc = 1 /\ status = {}
  /\ mouseCycle = 0 /\ mouseX = 0 /\ mouseY = 0
  /\ leftShift = FALSE /\ keyHandlers = 0 /\ heard = << >>
  /\ want = <<0, 0>> /\ moves = 0 /\ typed = << >>

Initialise ==
  \/ \E d \in Devices : \/ Register(d) \/ Ask(d) \/ WaitData(d) \/ Delay(d) \/ ReadStatus(d)
                        \/ Store(d) \/ Write(d) \/ Read(d) \/ Reset(d)
  \/ ResetHandlers \/ addKeyboardHandler

Next ==
  \/ Initialise \/ mouseInterrupt \/ keyboardIRQ
  \/ \E d \in Devices : Fill(d)
  \/ \E dx, dy \in Deltas : Move(dx, dy)
  \/ \E key \in Keys, up \in BOOLEAN : Type(key, up)

Spec == Init /\ [][Next]_vars

\* The kernel goes on, interrupts are taken, and the controller passes on
\* the bytes of both devices.
FairSpec ==
  /\ Spec
  /\ WF_vars(Initialise) /\ WF_vars(mouseInterrupt) /\ WF_vars(keyboardIRQ)
  /\ \A d \in Devices : WF_vars(Fill(d))

-----------------------------------------------------------------------------
\* With no packet under way the cursor is where the user has moved the mouse,
\* from where it was when the kernel came up.
Follows ==
  Initialised /\ coming["mouse"] = << >> /\ buffer.of # "mouse"
    => <<mouseX, mouseY>> = want

\* Key handlers hear what was typed, in order, each key with the shift key as
\* it was when the key was typed.
HearsKeys ==
  \A n \in 1..Len(heard) :
    /\ [key |-> heard[n].key, pressed |-> heard[n].pressed] = typed[n]
    /\ LET shifts == {k \in 1..n : typed[k].key = KEY_SHIFT} IN
       heard[n].shift = \E k \in shifts : typed[k].pressed /\ \A j \in shifts : j <= k

\* The kernel comes up, and after that nothing is left with a device: both
\* have their interrupts on, although each initialisation stores bits for
\* both, read from a buffer that a handler may have emptied.
Drained ==
  /\ <>Initialised
  /\ \A d \in Devices : coming[d] # << >> ~> coming[d] = << >> /\ buffer = Empty
=============================================================================
