------------------------------ MODULE Interrupts -----------------------------
(* irq_handler (kernel/src/IRQ.cpp, x86-64.asm) against the two 8259 PICs   *)
(* as initializePIC programs them: the second on line 2 of the first, edge  *)
(* triggered, fully nested, no automatic end of interrupt.  The gates turn *)
(* interrupts off, so that no handler is interrupted by another.           *)
EXTENDS Naturals, FiniteSets

CONSTANTS
  Lines,       \* lines with a device, of 0..15 without 2
  Handled,     \* lines for which a handler is registered
  Polled,      \* lines whose request may go away again: a thread has read
               \* what the device asked for, or it was noise
  MaxRaises    \* bound on the requests of a line

Cascade == 2

ASSUME LineAssumption ==
  /\ Lines \subseteq (0..15) \ {Cascade}
  /\ Handled \subseteq Lines /\ Polled \subseteq Lines /\ MaxRaises \in Nat

VARIABLES
  irr,     \* requested lines
  isr,     \* lines in service; Cascade is the bit of the first PIC
  handler, \* "out" of any handler, or where in irq_handler
  num,     \* the line it runs for
  raised,  \* requests made, for each line
  served,  \* handler calls made, for each line
  gone     \* requests that went away again, for each line (history)

irqVars == <<irr, isr, handler, num, raised, served, gone>>

-----------------------------------------------------------------------------
(* The PICs (external).                                                    *)

OnSecond(l) == l >= 8

\* The line of the first PIC that a request comes in on.
FirstLine(l) == IF OnSecond(l) THEN Cascade ELSE l

\* a goes before b.
Before(a, b) == \/ FirstLine(a) < FirstLine(b)
                \/ FirstLine(a) = FirstLine(b) /\ a < b

First(s) == CHOOSE l \in s : \A k \in s \ {l} : Before(l, k)

\* A line in service holds back itself and what comes after it on its PIC.
Blocked(l) ==
  \/ \E k \in isr : ~OnSecond(k) /\ k <= FirstLine(l)
  \/ \E k \in isr : OnSecond(k) /\ OnSecond(l) /\ k <= l

Raise(l) ==
  /\ raised[l] < MaxRaises
  /\ irr' = irr \cup {l}
  /\ raised' = [raised EXCEPT ![l] = @ + 1]
  /\ UNCHANGED <<isr, handler, num, served, gone>>

\* A request goes away while interrupts are off or it is held back.
Withdraw(l) ==
  /\ l \in irr \cap Polled
  /\ irr' = irr \ {l}
  /\ gone' = [gone EXCEPT ![l] = @ + 1]
  /\ UNCHANGED <<isr, handler, num, raised, served>>

\* The CPU takes the first request that is not held back.
Acknowledge ==
  /\ handler = "out"
  /\ \E l \in irr :
       /\ ~Blocked(l)
       /\ \A k \in irr \ {l} : Blocked(k) \/ Before(l, k)
       /\ irr' = irr \ {l}
       /\ isr' = isr \cup {l, FirstLine(l)}
       /\ num' = l
  /\ handler' = "eoi"
  /\ UNCHANGED <<raised, served, gone>>

\* A request that is gone when the CPU asks for its number: the PIC answers
\* with its last line and sets no bit for that.
Spurious(l) ==
  /\ handler = "out" /\ l \in irr \cap Polled /\ ~Blocked(l)
  /\ irr' = irr \ {l}
  /\ isr' = IF OnSecond(l) THEN isr \cup {Cascade} ELSE isr
  /\ num' = IF OnSecond(l) THEN 15 ELSE 7
  /\ handler' = "eoi"
  /\ gone' = [gone EXCEPT ![l] = @ + 1]
  /\ UNCHANGED <<raised, served>>

\* A non-specific end of interrupt clears the first bit in service.
Ended(s) == IF s = {} THEN s ELSE s \ {First(s)}

EndSecond(s) == {k \in s : ~OnSecond(k)} \cup Ended({k \in s : OnSecond(k)})

EndFirst(s) == {k \in s : OnSecond(k)} \cup Ended({k \in s : ~OnSecond(k)})

-----------------------------------------------------------------------------
(* irq_handler.                                                            *)

\* Mutant: only the second PIC is told.
EndOfInterrupt_One(l, s) == IF l >= 8 THEN EndSecond(s) ELSE EndFirst(s)

EndOfInterrupt(l, s) == EndFirst(IF l >= 8 THEN EndSecond(s) ELSE s)

SendEOI ==
  /\ handler = "eoi"
  /\ isr' = EndOfInterrupt(num, isr)
  /\ handler' = "handle"
  /\ UNCHANGED <<irr, num, raised, served, gone>>

\* handlers[num], if there is one, and iret.
CallHandler ==
  /\ handler = "handle"
  /\ served' = IF num \in Handled THEN [served EXCEPT ![num] = @ + 1] ELSE served
  /\ handler' = "out"
  /\ UNCHANGED <<irr, isr, num, raised, gone>>

-----------------------------------------------------------------------------
\* After initializePIC and the registrations.
IRQInit ==
  /\ irr = {} /\ isr = {}
  /\ handler = "out" /\ num = 0
  /\ raised = [l \in Lines |-> 0] /\ served = raised /\ gone = raised

CPU == Acknowledge \/ SendEOI \/ CallHandler

IRQNext == CPU \/ \E l \in Lines : Raise(l) \/ Withdraw(l) \/ Spurious(l)

IRQSpec == IRQInit /\ [][IRQNext]_irqVars

\* The CPU takes interrupts and executes their handlers.
IRQFairSpec == IRQSpec /\ WF_irqVars(CPU)

-----------------------------------------------------------------------------
\* When a handler begins, and ever after, nothing is left in service that
\* would hold back a line: also after a line of the second PIC, which needs
\* both told, and after a spurious interrupt, which needs one told or none.
NothingHeldBack == handler \in {"handle", "out"} => isr = {}

\* A request that comes after the line was acknowledged, also while its own
\* handler runs, leads to another call of the handler, unless it goes away:
\* one that did before does not stand for one that did not.
Served ==
  \A l \in Handled : \A n \in 1..MaxRaises :
    (l \in irr /\ served[l] + gone[l] = n - 1) ~> served[l] + gone[l] >= n
=============================================================================
