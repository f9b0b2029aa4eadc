------------------------------ MODULE Processes ------------------------------
(* What the scheduler promises the code of the threads: each runs as if it *)
(* had a processor of its own.  It moves by its own steps only, keeps      *)
(* moving, sleeps for exactly the ticks it asked for, and outlives the     *)
(* others, with one exception: an exception of the kernel thread stops     *)
(* them all.  There is no CPU here, no list, no context to save, no heap   *)
(* to make current.                                                        *)
EXTENDS Naturals

CONSTANTS Threads, Kernel, None, MaxMillis, Joiners, Faulty

VARIABLES
  pc,       \* what each thread is doing
  left,     \* ticks a sleeping thread has still to sleep
  target,   \* the thread that a joining thread waits for
  up        \* FALSE once the machine has stopped

vars == <<pc, left, target, up>>

Phases == {"absent", "born", "run", "sleep", "new", "link", "join", "ended"}

Init ==
  /\ pc = [t \in Threads |-> IF t = Kernel THEN "run" ELSE "absent"]
  /\ left = [t \in Threads |-> 0]
  /\ target = [t \in Threads |-> None]
  /\ up = TRUE

\* Thread t passes from one phase to another.
Move(t, from, to) ==
  up /\ pc[t] = from /\ pc' = [pc EXCEPT ![t] = to]

\* A timer interrupt.
Pass ==
  /\ up
  /\ left' = [t \in Threads |-> IF left[t] = 0 THEN 0 ELSE left[t] - 1]
  /\ UNCHANGED <<pc, target, up>>

Sleep(t, m) ==
  Move(t, "run", "sleep") /\ left' = [left EXCEPT ![t] = m] /\ UNCHANGED <<target, up>>

Wake(t) ==
  left[t] = 0 /\ Move(t, "sleep", "run") /\ UNCHANGED <<left, target, up>>

New(t) == Move(t, "run", "new") /\ UNCHANGED <<left, target, up>>

NewDone(t) == Move(t, "new", "run") /\ UNCHANGED <<left, target, up>>

Create(u) ==
  /\ up /\ pc[Kernel] = "run" /\ pc[u] = "absent"
  /\ pc' = [pc EXCEPT ![Kernel] = "link", ![u] = "born"]
  /\ UNCHANGED <<left, target, up>>

\* addThread returns: the thread it was given has started.
Start(u) ==
  /\ up /\ pc[Kernel] = "link" /\ pc[u] = "born"
  /\ pc' = [pc EXCEPT ![Kernel] = "run", ![u] = "run"]
  /\ UNCHANGED <<left, target, up>>

Join(t, u) ==
  /\ t \in Joiners /\ t # u /\ pc[u] \notin {"absent", "born"}
  /\ Move(t, "run", "join")
  /\ target' = [target EXCEPT ![t] = u]
  /\ UNCHANGED <<left, up>>

Joined(t) ==
  Move(t, "join", "run") /\ pc[target[t]] = "ended" /\ UNCHANGED <<left, target, up>>

Return(t) == t # Kernel /\ Move(t, "run", "ended") /\ UNCHANGED <<left, target, up>>

Crash(t) ==
  /\ up /\ t \in Faulty /\ pc[t] \notin {"absent", "born", "ended"}
  /\ pc' = [pc EXCEPT ![t] = "ended"]
  /\ left' = [left EXCEPT ![t] = 0]
  /\ up' = (t # Kernel)
  /\ UNCHANGED target

\* What a thread has begun and will bring to its end.
Continue(t) ==
  \/ Wake(t) \/ NewDone(t) \/ Joined(t)
  \/ t = Kernel /\ \E u \in Threads : Start(u)

Choose(t) ==
  \/ \E m \in 0..MaxMillis : Sleep(t, m)
  \/ New(t)
  \/ \E u \in Threads : Join(t, u)
  \/ t = Kernel /\ \E u \in Threads : Create(u)
  \/ Return(t)
  \/ Crash(t)

Next == Pass \/ \E t \in Threads : Continue(t) \/ Choose(t)

Spec == Init /\ [][Next]_vars

FairSpec == Spec /\ WF_vars(Pass) /\ \A t \in Threads : WF_vars(Continue(t))
=============================================================================
