------------------------------ MODULE Scheduler ------------------------------
(***************************************************************************)
(* The preemptive scheduler (kernel/src/Scheduler.cpp) as it runs on the   *)
(* one CPU of the machine: threads execute with interrupts enabled, the    *)
(* timer interrupt may hit between any two steps of theirs, and its        *)
(* handler (irq_common -> irq_handler -> pitHandler -> schedule) runs with *)
(* interrupts disabled, so it is one atomic action, Tick.                  *)
(*                                                                         *)
(* Time is kept relative.  The code only compares sleepTimeout with        *)
(* scheduledCounter or adds to it, so what is kept is how far each         *)
(* deadline is from the present: timeLeft[t] is sleepTimeout -             *)
(* scheduledCounter, 0 once passed, and "scheduledCounter++" brings every  *)
(* deadline one tick closer.  The state space is then finite with no bound *)
(* on the number of ticks.                                                 *)
(*                                                                         *)
(* The linked list that starts at `queue` is the sequence `list`: t->next  *)
(* is the element after t, NULL for the last one.                          *)
(***************************************************************************)
EXTENDS Naturals, Sequences

CONSTANTS
  Threads,     \* the Thread objects, Kernel among them
  Kernel,      \* the object initializeScheduler makes: `queue` for ever
  None,        \* the null pointer
  MaxMillis,   \* longest sleep a thread asks for
  Joiners,     \* threads whose code waits for another one to end
  Faulty       \* threads whose code may raise a CPU exception

ASSUME ThreadsAssumption == Kernel \in Threads /\ None \notin Threads
ASSUME MillisAssumption  == MaxMillis \in Nat
ASSUME ClientAssumption  == Joiners \subseteq Threads /\ Faulty \subseteq Threads

VARIABLES
  list,              \* the threads reachable from `queue`, in next order
  running,           \* Thread* running
  cpu,               \* the context the CPU is executing
  state,             \* Thread::state, the context saved for each thread
  asleep,            \* Thread::asleep
  timeLeft,          \* Thread::sleepTimeout - scheduledCounter, 0 if passed
  joined,            \* Thread::joined
  joinTarget,        \* Thread::joinTarget
  done,              \* Thread::done
  currentHeap,       \* Heap* currentHeap, named by the owner of the heap
  currentDirectory   \* PageDirectory* currentDirectory

clientVars == <<asleep, timeLeft, joined, joinTarget, done>>
switchVars == <<running, currentHeap, currentDirectory>>
vars == <<list, switchVars, cpu, state, clientVars>>

-----------------------------------------------------------------------------
(* Contexts: what CPURegisters and the stack its rsp designates hold.      *)

\* Where a thread is.  "none" is the all-zero context, "spin" the endless
\* loop of a killed thread, "halt" that of isr_handler with interrupts off.
Labels == {"none", "run", "sleepStore", "sleepFlag", "sleepSpin", "new",
           "addWalk", "joinSpin", "spin", "halt"}

Context == [tid  : Threads \cup {None},   \* whose stack rsp points into
            pc   : Labels,
            ms   : 0..MaxMillis,          \* sleep: deadline not yet stored
            heap : Threads \cup {None},   \* operator new: `this` of malloc
            obj  : Threads \cup {None},   \* addThread: the thread to link
            at   : Nat,                   \* addThread: position of t
            intr : BOOLEAN]               \* rflags.IF

NullContext == [tid |-> None, pc |-> "none", ms |-> 0, heap |-> None,
                obj |-> None, at |-> 0, intr |-> FALSE]

\* A thread about to execute code of its own; rflags is 0x202.
FreshContext(t) == [tid |-> t, pc |-> "run", ms |-> 0, heap |-> None,
                    obj |-> None, at |-> 0, intr |-> TRUE]

\* The context of t, wherever it is.
Ctx(t) == IF t = running THEN cpu ELSE state[t]

Pred(n) == IF n = 0 THEN 0 ELSE n - 1

\* The global kernelHeap belongs to no thread.
kernelHeap == None

\* initializeScheduler clones the directory for the kernel thread, every
\* other thread shares kernelDirectory itself.
Dir(t) == IF t = Kernel THEN "clone" ELSE "kernelDirectory"

Linked == {list[i] : i \in 1..Len(list)}

Workers == Threads \ {Kernel}

-----------------------------------------------------------------------------
(* The state when kernel_main executes sti: initializeMMU, initializeHeap  *)
(* and initializeScheduler have run.  state[Kernel] is still the zeroed    *)
(* context with rip = 0; the first tick overwrites it before it is used.   *)
Init ==
  /\ list = <<Kernel>>
  /\ running = Kernel
  /\ cpu = FreshContext(Kernel)
  /\ state = [t \in Threads |-> NullContext]
  /\ asleep = [t \in Threads |-> FALSE]
  /\ timeLeft = [t \in Threads |-> 0]
  /\ joined = [t \in Threads |-> FALSE]
  /\ joinTarget = [t \in Threads |-> None]
  /\ done = [t \in Threads |-> FALSE]
  /\ currentHeap = kernelHeap
  /\ currentDirectory = "kernelDirectory"

-----------------------------------------------------------------------------
(* schedule()                                                              *)

Blocked(t)  == joined[t] /\ ~done[joinTarget[t]]
Sleeping(t) == asleep[t] /\ timeLeft[t] > 0

\* Mutant: the "running != queue" tests left out.
Accept_NoQueueTest(t) == ~done[t] /\ ~Blocked(t) /\ ~Sleeping(t)

\* The loop leaves find_thread with t: the kernel thread is taken even
\* while it waits (the "running != queue" tests), no thread once done.
Accept(t) ==
  /\ ~done[t]
  /\ t = Kernel \/ (~Blocked(t) /\ ~Sleeping(t))

Pos(t) == CHOOSE i \in 1..Len(list) : list[i] = t

\* Mutant: each scan begins at the head of the list.
After_FromHead(k) == list[k]

\* The k-th thread after `running` in the ring, 1 <= k <= Len(list).
After(k) == LET i == Pos(running) + k
            IN  IF i <= Len(list) THEN list[i] ELSE list[i - Len(list)]

Seen(k) == {After(j) : j \in 1..k}

\* Mutant: sleep reads the counter only when it stores the deadline.
Aged_ReadLate(c) == c

\* A context in which sleep() holds a deadline ages like the deadline.
Aged(c) == [c EXCEPT !.ms = Pred(@)]

\* Mutant: the frame of the interrupted thread is not kept.
Saved_Lost == state

\* memcpy(&running->state, regs)
Saved == [state EXCEPT ![running] = cpu]

\* Mutant: setCurrentHeap forgotten.
SwitchSpace_HeapKept(t) == currentDirectory' = Dir(t) /\ UNCHANGED currentHeap

\* switchDirectory(running->dir); setCurrentHeap(running->heap)
SwitchSpace(t) == currentDirectory' = Dir(t) /\ currentHeap' = t

\* Mutants: the target's `done` not tested; the deadline not compared.
Joined_Unchecked(seen) == seen
Woken_Unchecked(seen)  == {t \in seen : t = Kernel \/ ~Blocked(t)}

\* The threads whose flag the scan clears when it examines those in `seen`.
Joined(seen) == {t \in seen : ~Blocked(t)}
Woken(seen)  == {t \in seen : timeLeft[t] = 0 /\ (t = Kernel \/ ~Blocked(t))}

schedule ==
  \E k \in 1..Len(list) :
    /\ Accept(After(k))
    /\ \A j \in 1..(k - 1) : ~Accept(After(j))
    /\ running' = After(k)
    /\ joined' = [t \in Threads |-> joined[t] /\ t \notin Joined(Seen(k))]
    /\ asleep' = [t \in Threads |-> asleep[t] /\ t \notin Woken(Seen(k))]
    /\ timeLeft' = [t \in Threads |-> Pred(timeLeft[t])]
    /\ state' = [t \in Threads |-> Aged(Saved[t])]
    /\ cpu' = Aged(Saved[After(k)])
    /\ SwitchSpace(After(k))
    /\ UNCHANGED <<list, joinTarget, done>>

\* The timer interrupt: taken only while the CPU has interrupts enabled.
\* pitHandler calls schedule on the frame that irq_common has pushed.
Tick == cpu.intr /\ schedule

-----------------------------------------------------------------------------
(* sleep(millis): the counter is read, then sleepTimeout is stored, then   *)
(* asleep is set, then the thread spins; a tick may come in between.       *)

CallSleep(m) ==
  /\ cpu.pc = "run"
  /\ cpu' = [cpu EXCEPT !.pc = "sleepStore", !.ms = m]
  /\ UNCHANGED <<list, switchVars, state, clientVars>>

SleepStore ==
  /\ cpu.pc = "sleepStore"
  /\ timeLeft' = [timeLeft EXCEPT ![running] = cpu.ms]
  /\ cpu' = [cpu EXCEPT !.pc = "sleepFlag", !.ms = 0]
  /\ UNCHANGED <<list, switchVars, state, asleep, joined, joinTarget, done>>

SleepFlag ==
  /\ cpu.pc = "sleepFlag"
  /\ asleep' = [asleep EXCEPT ![running] = TRUE]
  /\ cpu' = [cpu EXCEPT !.pc = "sleepSpin"]
  /\ UNCHANGED <<list, switchVars, state, timeLeft, joined, joinTarget, done>>

SleepReturn ==
  /\ cpu.pc = "sleepSpin"
  /\ timeLeft[running] = 0
  /\ cpu' = [cpu EXCEPT !.pc = "run"]
  /\ UNCHANGED <<list, switchVars, state, clientVars>>

-----------------------------------------------------------------------------
(* operator new: currentHeap is read once, malloc then works on that heap  *)
(* for many instructions.                                                  *)

NewBegin ==
  /\ cpu.pc = "run"
  /\ cpu' = [cpu EXCEPT !.pc = "new", !.heap = currentHeap]
  /\ UNCHANGED <<list, switchVars, state, clientVars>>

NewEnd ==
  /\ cpu.pc = "new"
  /\ cpu' = [cpu EXCEPT !.pc = "run", !.heap = None]
  /\ UNCHANGED <<list, switchVars, state, clientVars>>

-----------------------------------------------------------------------------
(* new Thread(...) and addThread: only kernel_main makes threads, in       *)
(* initializeGraphics.  The constructor works on an object nobody else     *)
(* can reach, so it is one step; the walk to the end of the list and the   *)
(* store that links the object are separate ones.  The pid is not kept:    *)
(* nothing reads it.                                                       *)

CreateThread(t) ==
  /\ running = Kernel
  /\ cpu.pc = "run"
  /\ t # Kernel
  /\ state[t].pc = "none"
  /\ state' = [state EXCEPT ![t] = FreshContext(t)]
  /\ asleep' = [asleep EXCEPT ![t] = FALSE]
  /\ joined' = [joined EXCEPT ![t] = FALSE]
  /\ done' = [done EXCEPT ![t] = FALSE]
  /\ cpu' = [cpu EXCEPT !.pc = "addWalk", !.obj = t, !.at = 1]
  /\ UNCHANGED <<list, switchVars, timeLeft, joinTarget>>

AddWalk ==
  /\ cpu.pc = "addWalk"
  /\ cpu.at < Len(list)
  /\ cpu' = [cpu EXCEPT !.at = @ + 1]
  /\ UNCHANGED <<list, switchVars, state, clientVars>>

\* Mutant: the walk stops where it starts.
AddLink_NoWalk ==
  /\ cpu.pc = "addWalk"
  /\ list' = Append(SubSeq(list, 1, cpu.at), cpu.obj)
  /\ cpu' = [cpu EXCEPT !.pc = "run", !.obj = None, !.at = 0]
  /\ UNCHANGED <<switchVars, state, clientVars>>

\* t->next = thread, whose own next is NULL.
AddLink ==
  /\ cpu.pc = "addWalk"
  /\ cpu.at >= Len(list)
  /\ list' = Append(SubSeq(list, 1, cpu.at), cpu.obj)
  /\ cpu' = [cpu EXCEPT !.pc = "run", !.obj = None, !.at = 0]
  /\ UNCHANGED <<switchVars, state, clientVars>>

-----------------------------------------------------------------------------
(* The end of a thread.                                                    *)

\* The entry function of a thread returns into _kill.  kernel_main does not
\* return: it ends in for(;;).
Kill ==
  /\ running # Kernel
  /\ cpu.pc = "run"
  /\ done' = [done EXCEPT ![running] = TRUE]
  /\ cpu' = [cpu EXCEPT !.pc = "spin"]
  /\ UNCHANGED <<list, switchVars, state, asleep, timeLeft, joined, joinTarget>>

\* Mutant: interrupts stay off in the loop of a worker too.
Fault_NoSti ==
  /\ running \in Faulty
  /\ cpu.pc \notin {"spin", "halt"}
  /\ cpu' = [cpu EXCEPT !.pc = IF running # Kernel THEN "spin" ELSE "halt",
                        !.intr = FALSE]
  /\ done' = [done EXCEPT ![running] = running # Kernel]
  /\ UNCHANGED <<list, switchVars, state, asleep, timeLeft, joined, joinTarget>>

\* isr_handler: interrupts are off on entry.  A worker is marked done and
\* spins with interrupts on again; the kernel thread spins with them off.
Fault ==
  /\ running \in Faulty
  /\ cpu.pc \notin {"spin", "halt"}
  /\ IF running # Kernel
     THEN /\ done' = [done EXCEPT ![running] = TRUE]
          /\ cpu' = [cpu EXCEPT !.pc = "spin", !.intr = TRUE]
     ELSE /\ cpu' = [cpu EXCEPT !.pc = "halt", !.intr = FALSE]
          /\ UNCHANGED done
  /\ UNCHANGED <<list, switchVars, state, asleep, timeLeft, joined, joinTarget>>

-----------------------------------------------------------------------------
(* Waiting for another thread to end.  schedule() serves joined and        *)
(* joinTarget, public members of Thread, but no code in the repository     *)
(* sets them: this is the client such code would be.                       *)

Join(u) ==
  /\ running \in Joiners
  /\ cpu.pc = "run"
  /\ u # running /\ u \in Linked
  /\ joinTarget' = [joinTarget EXCEPT ![running] = u]
  /\ joined' = [joined EXCEPT ![running] = TRUE]
  /\ cpu' = [cpu EXCEPT !.pc = "joinSpin"]
  /\ UNCHANGED <<list, switchVars, state, asleep, timeLeft, done>>

JoinReturn ==
  /\ cpu.pc = "joinSpin"
  /\ ~joined[running]
  /\ cpu' = [cpu EXCEPT !.pc = "run"]
  /\ UNCHANGED <<list, switchVars, state, clientVars>>

-----------------------------------------------------------------------------
\* Code the current thread has entered and will get through.
Progress == \/ SleepStore \/ SleepFlag \/ SleepReturn
            \/ NewEnd \/ AddWalk \/ AddLink \/ JoinReturn

\* What the code of a thread may choose to do next.
Client == \/ NewBegin
          \/ \E t \in Threads : CreateThread(t)
          \/ \E u \in Threads : Join(u)
          \/ Kill
          \/ Fault

Next == Tick \/ Progress \/ (\E m \in 0..MaxMillis : CallSleep(m)) \/ Client

Spec == Init /\ [][Next]_vars

\* The PIT keeps interrupting, and a thread that gets its time slice again
\* and again executes its instructions: a slice is 10 ms.
Fairness == /\ WF_vars(Tick)
            /\ \A t \in Threads : SF_vars(running = t /\ Progress)

FairSpec == Spec /\ Fairness

-----------------------------------------------------------------------------
(* How the threads look to their own code.                                 *)

Phase(t) ==
  LET c == Ctx(t).pc IN
  CASE c = "none" -> "absent"
    [] c = "run" -> IF t \in Linked THEN "run" ELSE "born"
    [] c \in {"sleepStore", "sleepFlag", "sleepSpin"} -> "sleep"
    [] c = "addWalk" -> "link"
    [] c = "joinSpin" -> "join"
    [] c \in {"spin", "halt"} -> "ended"
    [] OTHER -> c

TicksLeft(t) ==
  CASE Ctx(t).pc = "sleepStore" -> Ctx(t).ms
    [] Ctx(t).pc \in {"sleepFlag", "sleepSpin"} -> timeLeft[t]
    [] OTHER -> 0

P == INSTANCE Processes WITH
       pc     <- [t \in Threads |-> Phase(t)],
       left   <- [t \in Threads |-> TicksLeft(t)],
       target <- joinTarget,
       up     <- cpu.pc # "halt"

-----------------------------------------------------------------------------
(* What must hold.                                                         *)

TypeOK ==
  /\ list \in Seq(Threads)
  /\ running \in Threads
  /\ cpu \in Context
  /\ state \in [Threads -> Context]
  /\ asleep \in [Threads -> BOOLEAN]
  /\ timeLeft \in [Threads -> 0..MaxMillis]
  /\ joined \in [Threads -> BOOLEAN]
  /\ joinTarget \in [Threads -> Threads \cup {None}]
  /\ done \in [Threads -> BOOLEAN]
  /\ currentHeap \in Threads \cup {None}
  /\ currentDirectory \in {"kernelDirectory", "clone"}

\* Wherever ticks fall, the CPU executes the context of the thread that
\* `running` names, in that thread's directory and with its heap current;
\* until the first tick the kernel thread is still in the boot ones.
OnCPU ==
  /\ cpu.tid = running
  /\ \A t \in Linked : Ctx(t).tid = t
  /\ \/ currentHeap = running /\ currentDirectory = Dir(running)
     \/ /\ running = Kernel
        /\ currentHeap = kernelHeap /\ currentDirectory = "kernelDirectory"

\* malloc takes no lock.  It needs none, whatever preempts it, because no
\* two threads are ever inside malloc of the same heap.
HeapExclusion ==
  \A t, u \in Linked :
    t # u /\ Ctx(t).pc = "new" /\ Ctx(u).pc = "new" => Ctx(t).heap # Ctx(u).heap

\* The find_thread loop runs with interrupts off: if it met no thread to
\* accept the machine would hang.  There always is one.
FindTerminates == \E t \in Linked : Accept(t)

\* A thread that join has let go waits for nothing: its target has ended,
\* is off the CPU and can never be given it again.
JoinSound ==
  \A t \in Linked :
    Ctx(t).pc = "joinSpin" /\ ~joined[t] =>
      done[joinTarget[t]] /\ running # joinTarget[t]

\* addThread walks the list while ticks scan it: no thread that is in the
\* list ever drops out of it, and the order of those before it is kept.
NeverUnlinked ==
  [][Len(list) <= Len(list') /\ list = SubSeq(list', 1, Len(list))]_list

\* A tick never hands the CPU to a worker that could only spin, the flags
\* and deadlines of sleep being set one after the other notwithstanding.
NoWastedSlice ==
  [][running' \notin {running, Kernel} =>
       LET c == state[running'] IN
       /\ c.pc = "sleepSpin" => timeLeft[running'] = 0
       /\ c.pc = "joinSpin" => done[joinTarget[running']]
       /\ c.pc \notin {"spin", "halt", "none"}]_vars

\* Time slicing is invisible: whatever the ticks interrupt, each thread
\* goes through the phases of a thread with a processor of its own.
RunsAlone == P!Spec

\* And it keeps going.
RunsAloneFairly == P!FairSpec

=============================================================================
