--------------------------- MODULE SchedulerProofs ---------------------------
(* Theorems about Scheduler, for any set of threads and any bound on sleep: *)
(* its invariants, that it implements Processes (each initial state is one  *)
(* of Processes, and each step a step of Processes or none), and how long a *)
(* thread that may run waits for the CPU.                                   *)
EXTENDS SchedulerBounds, TLAPS

-----------------------------------------------------------------------------
(* The inductive invariant.                                                *)

\* The list is the kernel thread and then the others, each once.
ListOK ==
  /\ Len(list) >= 1
  /\ list[1] = Kernel
  /\ \A i, j \in 1..Len(list) : list[i] = list[j] => i = j
  /\ running \in Linked

\* Heap and directory are those of the running thread (see OnCPU).
SpaceOK ==
  \/ currentHeap = running /\ currentDirectory = Dir(running)
  \/ /\ running = Kernel
     /\ currentHeap = kernelHeap /\ currentDirectory = "kernelDirectory"

\* What holds of a linked thread at each place of its code.
ThreadOK(t) ==
  LET c == Ctx(t) IN
  /\ c.tid = t
  /\ c.pc # "none"
  /\ c.pc = "new" => c.heap = t \/ (t = Kernel /\ c.heap = kernelHeap)
  /\ c.pc = "addWalk" => /\ t = Kernel
                         /\ c.at \in 1..Len(list)
                         /\ c.obj \in Threads /\ c.obj \notin Linked
                         /\ state[c.obj] = FreshContext(c.obj)
  /\ c.pc = "sleepSpin" /\ timeLeft[t] > 0 => asleep[t]
  /\ c.pc = "joinSpin" =>
       /\ joinTarget[t] \in Linked
       /\ joined[t] \/ (done[joinTarget[t]] /\ running # joinTarget[t])
  /\ c.pc = "spin" => done[t]
  /\ c.pc = "halt" => t = Kernel

\* A thread that is not linked yet has not moved.
UnlinkedOK(t) == state[t] \in {NullContext, FreshContext(t)}

IInv ==
  /\ TypeOK
  /\ ListOK
  /\ SpaceOK
  /\ ~done[Kernel]
  /\ \A t \in Linked : ThreadOK(t)
  /\ \A t \in Threads \ Linked : UnlinkedOK(t)

-----------------------------------------------------------------------------

LEMMA PredBound ==
  ASSUME NEW n \in 0..MaxMillis
  PROVE  Pred(n) \in 0..MaxMillis
  BY MillisAssumption DEF Pred

\* Aged touches nothing but the deadline that a context holds.
LEMMA AgedContext ==
  ASSUME NEW c \in Context
  PROVE  /\ Aged(c) \in Context
         /\ Aged(c).tid = c.tid /\ Aged(c).pc = c.pc /\ Aged(c).heap = c.heap
         /\ Aged(c).obj = c.obj /\ Aged(c).at = c.at
  <1> USE MillisAssumption
  <1>1. c.ms \in 0..MaxMillis
    BY DEF Context
  <1>2. Pred(c.ms) \in 0..MaxMillis
    BY <1>1 DEF Pred
  <1> QED
    BY <1>2 DEF Aged, Context

\* A context with no deadline in it does not age.
LEMMA AgedStill ==
  ASSUME NEW t \in Threads
  PROVE  Aged(NullContext) = NullContext /\ Aged(FreshContext(t)) = FreshContext(t)
  BY DEF Aged, Pred, NullContext, FreshContext

LEMMA ContextTypes ==
  ASSUME NEW t \in Threads
  PROVE  NullContext \in Context /\ FreshContext(t) \in Context
  <1> USE MillisAssumption
  <1>1. 0 \in 0..MaxMillis
    OBVIOUS
  <1> QED
    BY <1>1 DEF Context, NullContext, FreshContext, Labels

\* A scan only meets threads of the list.
LEMMA AfterLinked ==
  ASSUME IInv, NEW k \in 1..Len(list)
  PROVE  After(k) \in Linked
  <1>1. PICK i \in 1..Len(list) : list[i] = running
    BY DEF IInv, ListOK, Linked
  <1>2. Pos(running) \in 1..Len(list)
    BY <1>1 DEF Pos
  <1>3. Len(list) \in Nat
    BY DEF IInv, TypeOK
  <1> QED
    BY <1>2, <1>3 DEF After, Linked

LEMMA LinkedThreads ==
  ASSUME IInv
  PROVE  Linked \subseteq Threads /\ running \in Threads /\ Kernel \in Linked
  BY DEF IInv, TypeOK, ListOK, Linked

LEMMA InitIInv == Init => IInv
  <1> SUFFICES ASSUME Init PROVE IInv
    OBVIOUS
  <1> USE DEF Init
  <1>1. Kernel \in Threads /\ None \notin Threads
    BY ThreadsAssumption
  <1>2. Linked = {Kernel}
    BY DEF Linked
  <1>3. TypeOK
    <2>1. 0 \in 0..MaxMillis
      BY MillisAssumption
    <2>2. list \in Seq(Threads)
      BY <1>1
    <2> QED
      BY <1>1, <2>1, <2>2, ContextTypes DEF TypeOK, kernelHeap
  <1>4. ListOK /\ SpaceOK
    BY <1>2 DEF ListOK, SpaceOK
  <1>5. \A t \in Linked : ThreadOK(t)
    BY <1>1, <1>2 DEF ThreadOK, Ctx, FreshContext, NullContext
  <1>6. \A t \in Threads \ Linked : UnlinkedOK(t)
    BY DEF UnlinkedOK
  <1> QED
    BY <1>1, <1>3, <1>4, <1>5, <1>6 DEF IInv

-----------------------------------------------------------------------------
(* The steps of the running thread.                                        *)

\* A step that changes only the context and the flags of the running thread
\* keeps the invariant when it keeps it for that thread.
LEMMA LocalStep ==
  ASSUME IInv,
         UNCHANGED <<list, switchVars, state>>,
         TypeOK',
         ~done'[Kernel],
         \A t \in Threads : done[t] => done'[t],
         \A t \in Threads \ {running} :
           /\ asleep'[t] = asleep[t] /\ timeLeft'[t] = timeLeft[t]
           /\ joined'[t] = joined[t] /\ joinTarget'[t] = joinTarget[t],
         ThreadOK(running)'
  PROVE  IInv'
  <1>1. Linked' = Linked /\ running' = running /\ Linked \subseteq Threads
    BY LinkedThreads DEF Linked, switchVars
  <1>2. ListOK' /\ SpaceOK'
    BY <1>1 DEF IInv, ListOK, SpaceOK, switchVars
  <1>3. ASSUME NEW t \in Linked PROVE ThreadOK(t)'
    <2>1. CASE t = running
      BY <1>1, <2>1
    <2>2. CASE t # running
      <3>1. ThreadOK(t) /\ Ctx(t)' = Ctx(t)
        BY <1>1, <2>2 DEF IInv, Ctx
      <3>2. joinTarget[t] \in Linked => joinTarget[t] \in Threads
        BY <1>1
      <3> QED
        BY <1>1, <1>3, <2>2, <3>1, <3>2 DEF ThreadOK
    <2> QED
      BY <2>1, <2>2
  <1>4. \A t \in Threads \ Linked' : UnlinkedOK(t)'
    BY <1>1 DEF IInv, UnlinkedOK
  <1> QED
    BY <1>1, <1>2, <1>3, <1>4 DEF IInv

\* What each of the lemmas below begins with.
LEMMA RunningOK ==
  ASSUME IInv
  PROVE  /\ cpu \in Context /\ running \in Threads /\ running \in Linked
         /\ Ctx(running) = cpu /\ ThreadOK(running)
  BY LinkedThreads DEF IInv, TypeOK, ListOK, Ctx

LEMMA CallSleepStep ==
  ASSUME IInv, NEW m \in 0..MaxMillis, CallSleep(m)
  PROVE  IInv'
  <1> USE RunningOK DEF CallSleep, switchVars, clientVars
  <1>1. TypeOK'
    BY DEF IInv, TypeOK, Context, Labels
  <1>2. ThreadOK(running)'
    BY DEF ThreadOK, Ctx, Context
  <1> QED
    BY <1>1, <1>2, LocalStep DEF IInv

LEMMA SleepStoreStep ==
  ASSUME IInv, SleepStore
  PROVE  IInv'
  <1> USE RunningOK DEF SleepStore, switchVars
  <1>1. TypeOK'
    <2>1. 0 \in 0..MaxMillis /\ cpu.ms \in 0..MaxMillis
      BY MillisAssumption DEF Context
    <2>2. cpu' \in Context
      BY <2>1 DEF Context, Labels
    <2>3. timeLeft' \in [Threads -> 0..MaxMillis]
      BY <2>1 DEF IInv, TypeOK
    <2> QED
      BY <2>2, <2>3 DEF IInv, TypeOK
  <1>2. ThreadOK(running)'
    BY DEF ThreadOK, Ctx, Context
  <1> QED
    BY <1>1, <1>2, LocalStep DEF IInv, TypeOK

LEMMA SleepFlagStep ==
  ASSUME IInv, SleepFlag
  PROVE  IInv'
  <1> USE RunningOK DEF SleepFlag, switchVars
  <1>1. TypeOK'
    BY DEF IInv, TypeOK, Context, Labels
  <1>2. ThreadOK(running)'
    BY DEF ThreadOK, Ctx, Context, IInv, TypeOK
  <1> QED
    BY <1>1, <1>2, LocalStep DEF IInv, TypeOK

LEMMA ReturnStep ==
  ASSUME IInv, SleepReturn \/ NewEnd \/ JoinReturn
  PROVE  IInv'
  <1> USE RunningOK DEF SleepReturn, NewEnd, JoinReturn, switchVars, clientVars
  <1>1. TypeOK'
    <2>1. cpu' \in Context
      BY DEF Context, Labels
    <2> QED
      BY <2>1 DEF IInv, TypeOK
  <1>2. ThreadOK(running)'
    BY DEF ThreadOK, Ctx, Context
  <1> QED
    BY <1>1, <1>2, LocalStep DEF IInv

\* operator new takes the heap that SpaceOK speaks of.
LEMMA NewBeginStep ==
  ASSUME IInv, NewBegin
  PROVE  IInv'
  <1> USE RunningOK DEF NewBegin, switchVars, clientVars
  <1>1. TypeOK'
    BY DEF IInv, TypeOK, Context, Labels
  <1>2. ThreadOK(running)'
    BY DEF ThreadOK, Ctx, Context, IInv, SpaceOK
  <1> QED
    BY <1>1, <1>2, LocalStep DEF IInv

LEMMA AddWalkStep ==
  ASSUME IInv, AddWalk
  PROVE  IInv'
  <1> USE RunningOK DEF AddWalk, switchVars, clientVars
  <1>1. TypeOK'
    <2>1. cpu.at \in Nat /\ cpu.at + 1 \in Nat
      BY DEF Context
    <2>2. cpu' \in Context
      BY <2>1 DEF Context
    <2> QED
      BY <2>2 DEF IInv, TypeOK
  <1>2. Linked' = Linked
    BY DEF Linked
  <1>3. ThreadOK(running)'
    <2>1. /\ cpu.tid = running /\ running = Kernel
          /\ cpu.obj \in Threads /\ cpu.obj \notin Linked /\ state[cpu.obj] = FreshContext(cpu.obj)
      BY DEF ThreadOK
    <2>2. cpu.at \in Nat /\ Len(list) \in Nat /\ cpu.at + 1 \in 1..Len(list)
      BY DEF Context, IInv, TypeOK
    <2>3. /\ cpu'.tid = cpu.tid /\ cpu'.pc = "addWalk" /\ cpu'.obj = cpu.obj
          /\ cpu'.at = cpu.at + 1
      BY DEF Context
    <2>4. UNCHANGED <<list, state, running>> /\ Ctx(running)' = cpu'
      BY DEF Ctx
    <2> HIDE DEF AddWalk
    <2> QED
      BY <1>2, <2>1, <2>2, <2>3, <2>4 DEF ThreadOK
  <1> QED
    BY <1>1, <1>3, LocalStep DEF IInv

LEMMA KillStep ==
  ASSUME IInv, Kill
  PROVE  IInv'
  <1> USE RunningOK DEF Kill, switchVars
  <1>1. TypeOK'
    BY DEF IInv, TypeOK, Context, Labels
  <1>2. ThreadOK(running)'
    BY DEF ThreadOK, Ctx, Context, IInv, TypeOK
  <1> QED
    BY <1>1, <1>2, LocalStep DEF IInv, TypeOK

LEMMA FaultStep ==
  ASSUME IInv, Fault
  PROVE  IInv'
  <1> USE RunningOK DEF Fault, switchVars
  <1>1. cpu' \in Context /\ cpu'.tid = cpu.tid
    <2>1. {"spin", "halt"} \subseteq Labels
      BY DEF Labels
    <2>2. CASE running # Kernel
      BY <2>1, <2>2 DEF Context
    <2>3. CASE running = Kernel
      BY <2>1, <2>3 DEF Context
    <2> QED
      BY <2>2, <2>3
  <1>2. /\ done' \in [Threads -> BOOLEAN]
        /\ done'[Kernel] = done[Kernel]
        /\ \A t \in Threads : done[t] => done'[t]
        /\ \/ cpu'.pc = "spin" /\ done'[running]
           \/ cpu'.pc = "halt" /\ running = Kernel
    BY ThreadsAssumption DEF Context, IInv, TypeOK
  <1>3. TypeOK'
    BY <1>1, <1>2 DEF IInv, TypeOK
  <1>4. ThreadOK(running)'
    BY <1>1, <1>2 DEF ThreadOK, Ctx
  <1> QED
    BY <1>2, <1>3, <1>4, LocalStep DEF IInv

LEMMA JoinStep ==
  ASSUME IInv, NEW u \in Threads, Join(u)
  PROVE  IInv'
  <1> USE RunningOK DEF Join, switchVars
  <1>1. TypeOK'
    BY DEF IInv, TypeOK, Context, Labels
  <1>2. Linked' = Linked
    BY DEF Linked
  <1>3. ThreadOK(running)'
    BY <1>2 DEF ThreadOK, Ctx, Context, IInv, TypeOK
  <1> QED
    BY <1>1, <1>3, LocalStep DEF IInv, TypeOK

-----------------------------------------------------------------------------
(* Making and linking a thread.                                            *)

LEMMA CreateThreadStep ==
  ASSUME IInv, NEW t \in Threads, CreateThread(t)
  PROVE  IInv'
  <1> USE RunningOK DEF CreateThread, switchVars
  <1>1. Linked' = Linked /\ Linked \subseteq Threads
    BY LinkedThreads DEF Linked
  <1>2. t \notin Linked
    BY DEF IInv, ThreadOK, Ctx
  <1>3. cpu' \in Context /\ cpu'.tid = cpu.tid /\ cpu'.pc = "addWalk"
        /\ cpu'.obj = t /\ cpu'.at = 1
    BY DEF Context, Labels
  <1>4. TypeOK'
    BY <1>3, ContextTypes DEF IInv, TypeOK
  <1>5. ListOK' /\ SpaceOK' /\ ~done'[Kernel]
    BY <1>1 DEF IInv, TypeOK, ListOK, SpaceOK
  <1>6. ThreadOK(running)'
    <2>1. state'[t] = FreshContext(t)
      BY DEF IInv, TypeOK
    <2>2. 1 \in 1..Len(list)
      BY DEF IInv, TypeOK, ListOK
    <2> QED
      BY <1>1, <1>2, <1>3, <2>1, <2>2 DEF ThreadOK, Ctx
  <1>7. ASSUME NEW u \in Linked, u # running PROVE ThreadOK(u)'
    <2>1. ThreadOK(u) /\ Ctx(u)' = Ctx(u) /\ u \in Threads /\ u # t
      BY <1>1, <1>2, <1>7 DEF IInv, TypeOK, Ctx
    <2>2. /\ asleep'[u] = asleep[u] /\ timeLeft'[u] = timeLeft[u]
          /\ joined'[u] = joined[u] /\ joinTarget'[u] = joinTarget[u]
          /\ \A v \in Linked : done'[v] = done[v]
      BY <1>1, <1>2, <2>1 DEF IInv, TypeOK
    <2> QED
      BY <1>1, <1>7, <2>1, <2>2 DEF ThreadOK
  <1>8. ASSUME NEW u \in Threads \ Linked PROVE UnlinkedOK(u)'
    BY DEF IInv, TypeOK, UnlinkedOK
  <1> QED
    BY <1>1, <1>4, <1>5, <1>6, <1>7, <1>8 DEF IInv

\* The walk of addThread has come to the last thread of the list, so that
\* what the store links in comes after all the others.
LEMMA AddLinkList ==
  ASSUME IInv, AddLink
  PROVE  /\ cpu.obj \in Threads \ Linked
         /\ running = Kernel
         /\ list' \in Seq(Threads)
         /\ Len(list') = Len(list) + 1
         /\ \A i \in 1..Len(list) : list'[i] = list[i]
         /\ list'[Len(list) + 1] = cpu.obj
         /\ Linked' = Linked \cup {cpu.obj}
  <1> USE RunningOK DEF AddLink
  <1>1. cpu.obj \in Threads \ Linked /\ running = Kernel /\ cpu.at = Len(list)
    BY DEF ThreadOK, IInv, TypeOK
  <1>2. list \in Seq(Threads) /\ Len(list) \in Nat
    BY DEF IInv, TypeOK
  <1> DEFINE s == SubSeq(list, 1, Len(list))
  <1>3. s \in Seq(Threads) /\ Len(s) = Len(list) /\ \A i \in 1..Len(list) : s[i] = list[i]
    BY <1>2
  <1>4. list' = Append(s, cpu.obj)
    BY <1>1
  <1> HIDE DEF s
  <1>5. /\ list' \in Seq(Threads) /\ Len(list') = Len(list) + 1
        /\ \A i \in 1..Len(list) : list'[i] = list[i]
        /\ list'[Len(list) + 1] = cpu.obj
    BY <1>1, <1>2, <1>3, <1>4
  <1> HIDE DEF AddLink
  <1>6. Linked' = Linked \cup {cpu.obj}
    <2>1. \A i : i \in 1..Len(list') <=> i \in 1..Len(list) \/ i = Len(list) + 1
      BY <1>2, <1>5
    <2>2. Linked' = {list'[i] : i \in 1..Len(list')}
      BY DEF Linked
    <2>3. \A x : x \in Linked' <=> x \in Linked \/ x = cpu.obj
      BY <1>5, <2>1, <2>2, Zenon DEF Linked
    <2> QED
      BY <2>3
  <1> QED
    BY <1>1, <1>5, <1>6

LEMMA AddLinkStep ==
  ASSUME IInv, AddLink
  PROVE  IInv'
  <1> USE RunningOK DEF switchVars, clientVars
  <1>1. UNCHANGED <<switchVars, state, clientVars>> /\ cpu.pc = "addWalk"
    BY DEF AddLink
  <1>2. cpu' \in Context /\ cpu'.tid = cpu.tid /\ cpu'.pc = "run"
    BY DEF AddLink, Context, Labels
  <1>3. TypeOK'
    BY <1>1, <1>2, AddLinkList DEF IInv, TypeOK
  <1>4. ListOK'
    <2>1. \A i \in 1..Len(list) : list[i] # cpu.obj
      BY AddLinkList DEF Linked
    <2>2. Len(list) \in Nat /\ Len(list) >= 1 /\ list[1] = Kernel
      BY DEF IInv, TypeOK, ListOK
    <2>3. \A i, j \in 1..Len(list') : list'[i] = list'[j] => i = j
      BY <2>1, <2>2, AddLinkList DEF IInv, ListOK
    <2> QED
      BY <1>1, <2>2, <2>3, AddLinkList DEF IInv, ListOK
  <1>5. SpaceOK' /\ ~done'[Kernel]
    BY <1>1 DEF IInv, SpaceOK
  <1>6. state[cpu.obj] = FreshContext(cpu.obj) /\ cpu.obj # running
    BY <1>1, AddLinkList DEF ThreadOK
  <1>7. ASSUME NEW u \in Linked' PROVE ThreadOK(u)'
    <2>1. CASE u = running
      BY <1>1, <1>2, <2>1, AddLinkList DEF ThreadOK, Ctx
    <2>2. CASE u = cpu.obj
      BY <1>1, <1>6, <2>2, AddLinkList DEF ThreadOK, Ctx, FreshContext
    <2>3. CASE u \in Linked /\ u # running
      <3>1. ThreadOK(u) /\ Ctx(u)' = Ctx(u) /\ Ctx(u).pc # "addWalk"
        BY <1>1, <2>3, AddLinkList DEF IInv, Ctx, ThreadOK
      <3> QED
        BY <1>1, <2>3, <3>1, AddLinkList DEF ThreadOK
    <2> QED
      BY <2>1, <2>2, <2>3, AddLinkList
  <1>8. \A u \in Threads \ Linked' : UnlinkedOK(u)'
    BY <1>1, AddLinkList DEF IInv, UnlinkedOK
  <1> QED
    BY <1>3, <1>4, <1>5, <1>7, <1>8 DEF IInv

-----------------------------------------------------------------------------
(* The timer interrupt.                                                    *)

\* A tick moves no thread: each context, saved, loaded or left where it is,
\* is afterwards the context of the same thread, one tick older.
LEMMA TickContexts ==
  ASSUME IInv, schedule
  PROVE  \A t \in Threads : Ctx(t) \in Context /\ Ctx(t)' = Aged(Ctx(t))
  <1>1. PICK k \in 1..Len(list) :
          /\ running' = After(k)
          /\ state' = [t \in Threads |-> Aged(Saved[t])]
          /\ cpu' = Aged(Saved[After(k)])
    BY DEF schedule
  <1>2. \A t \in Threads : Saved[t] = Ctx(t) /\ Ctx(t) \in Context
    BY DEF Saved, Ctx, IInv, TypeOK
  <1> QED
    BY <1>1, <1>2 DEF Ctx

\* What a tick does to the rest.
LEMMA TickFacts ==
  ASSUME IInv, schedule
  PROVE  /\ UNCHANGED <<list, joinTarget, done>>
         /\ running' \in Linked /\ Accept(running')
         /\ currentHeap' = running' /\ currentDirectory' = Dir(running')
         /\ asleep' \in [Threads -> BOOLEAN]
         /\ joined' \in [Threads -> BOOLEAN]
         /\ timeLeft' \in [Threads -> 0..MaxMillis]
         /\ \A t \in Threads :
              /\ timeLeft'[t] = Pred(timeLeft[t])
              /\ asleep[t] => asleep'[t] \/ timeLeft[t] = 0
              /\ joined[t] => joined'[t] \/ done[joinTarget[t]]
  <1>1. PICK k \in 1..Len(list) :
          /\ Accept(After(k))
          /\ running' = After(k)
          /\ joined' = [t \in Threads |-> joined[t] /\ t \notin Joined(Seen(k))]
          /\ asleep' = [t \in Threads |-> asleep[t] /\ t \notin Woken(Seen(k))]
          /\ timeLeft' = [t \in Threads |-> Pred(timeLeft[t])]
          /\ SwitchSpace(After(k))
          /\ UNCHANGED <<list, joinTarget, done>>
    BY DEF schedule
  <1>2. running' \in Linked /\ Accept(running')
    BY <1>1, AfterLinked
  <1>3. timeLeft' \in [Threads -> 0..MaxMillis]
    <2>1. \A t \in Threads : timeLeft[t] \in 0..MaxMillis
      BY DEF IInv, TypeOK
    <2>2. \A t \in Threads : Pred(timeLeft[t]) \in 0..MaxMillis
      BY <2>1, PredBound
    <2> QED
      BY <1>1, <2>2
  <1>4. asleep' \in [Threads -> BOOLEAN] /\ joined' \in [Threads -> BOOLEAN]
    BY <1>1
  <1>5. ASSUME NEW t \in Threads
        PROVE  /\ asleep[t] => asleep'[t] \/ timeLeft[t] = 0
               /\ joined[t] => joined'[t] \/ done[joinTarget[t]]
    BY <1>1 DEF Woken, Joined, Blocked
  <1> QED
    BY <1>1, <1>2, <1>3, <1>4, <1>5 DEF SwitchSpace

LEMMA TickStep ==
  ASSUME IInv, Tick
  PROVE  IInv'
  <1> schedule
    BY DEF Tick
  <1>1. Linked' = Linked /\ Linked \subseteq Threads /\ running' \in Linked
    BY TickFacts, LinkedThreads DEF Linked
  <1>2. TypeOK'
    <2>1. \A t \in Threads : Ctx(t)' \in Context
      BY TickContexts, AgedContext
    <2>3. cpu' \in Context
      BY <1>1, <2>1, TickContexts, AgedContext DEF Ctx
    <2>4. state' \in [Threads -> Context]
      BY TickContexts, AgedContext DEF schedule, Saved, Ctx, IInv, TypeOK
    <2>5. Dir(running') \in {"kernelDirectory", "clone"}
      BY DEF Dir
    <2> QED
      BY <1>1, <2>3, <2>4, <2>5, TickFacts DEF IInv, TypeOK
  <1>3. ListOK'
    BY <1>1, TickFacts DEF IInv, ListOK
  <1>4. SpaceOK'
    BY TickFacts DEF SpaceOK
  <1>5. ~done'[Kernel]
    BY TickFacts DEF IInv
  <1>6. ASSUME NEW t \in Threads \ Linked PROVE state'[t] = Aged(state[t])
    <2>1. Ctx(t) = state[t] /\ Ctx(t)' = state'[t]
      BY <1>1 DEF Ctx, IInv, ListOK
    <2> QED
      BY <2>1, TickContexts
  <1>7. ASSUME NEW t \in Linked PROVE ThreadOK(t)'
    <2> DEFINE c == Ctx(t)
               d == Ctx(t)'
    <2>1. /\ t \in Threads /\ ThreadOK(t)
          /\ d.tid = c.tid /\ d.pc = c.pc /\ d.heap = c.heap
          /\ d.obj = c.obj /\ d.at = c.at
      BY <1>1, TickContexts, AgedContext DEF IInv
    <2>2. timeLeft'[t] > 0 => timeLeft[t] > 0
      BY <2>1, TickFacts, MillisAssumption DEF IInv, TypeOK, Pred
    <2>3. c.pc = "sleepSpin" /\ timeLeft'[t] > 0 => asleep'[t]
      BY <2>1, <2>2, TickFacts, MillisAssumption DEF ThreadOK, IInv, TypeOK
    <2>4. c.pc = "joinSpin" =>
            /\ joinTarget'[t] \in Linked'
            /\ joined'[t] \/ (done'[joinTarget'[t]] /\ running' # joinTarget'[t])
      BY <1>1, <2>1, TickFacts DEF ThreadOK, Accept
    <2>5. c.pc = "addWalk" => state'[c.obj] = FreshContext(c.obj)
      <3>1. SUFFICES ASSUME c.pc = "addWalk" PROVE state'[c.obj] = FreshContext(c.obj)
        OBVIOUS
      <3>2. c.obj \in Threads /\ c.obj \notin Linked /\ state[c.obj] = FreshContext(c.obj)
        BY <2>1, <3>1 DEF ThreadOK
      <3>3. state'[c.obj] = FreshContext(c.obj)
        BY <1>6, <3>2, AgedStill
      <3> QED
        BY <3>3
    <2>6. UNCHANGED list /\ UNCHANGED done
      BY TickFacts
    <2> HIDE DEF c, d
    <2>7. /\ d.tid = t
          /\ d.pc # "none"
          /\ d.pc = "new" => d.heap = t \/ (t = Kernel /\ d.heap = kernelHeap)
          /\ d.pc = "addWalk" => /\ t = Kernel
                                 /\ d.at \in 1..Len(list')
                                 /\ d.obj \in Threads /\ d.obj \notin Linked'
                                 /\ state'[d.obj] = FreshContext(d.obj)
          /\ d.pc = "spin" => done'[t]
          /\ d.pc = "halt" => t = Kernel
      BY <1>1, <2>1, <2>5, <2>6 DEF ThreadOK, c
    <2> QED
      BY <2>1, <2>3, <2>4, <2>7 DEF ThreadOK, d
  <1>8. ASSUME NEW t \in Threads \ Linked PROVE UnlinkedOK(t)'
    BY <1>6, AgedStill DEF IInv, UnlinkedOK
  <1> QED
    BY <1>1, <1>2, <1>3, <1>4, <1>5, <1>7, <1>8 DEF IInv

-----------------------------------------------------------------------------
(* The theorems.                                                           *)

LEMMA NextIInv ==
  ASSUME IInv, [Next]_vars
  PROVE  IInv'
  <1>1. CASE Tick
    BY <1>1, TickStep
  <1>2. CASE Progress
    BY <1>2, SleepStoreStep, SleepFlagStep, ReturnStep, AddWalkStep, AddLinkStep
       DEF Progress
  <1>3. CASE \E m \in 0..MaxMillis : CallSleep(m)
    BY <1>3, CallSleepStep
  <1>4. CASE Client
    BY <1>4, NewBeginStep, CreateThreadStep, JoinStep, KillStep, FaultStep DEF Client
  <1>5. CASE UNCHANGED vars
    <2>1. UNCHANGED <<list, running, cpu, state, asleep, timeLeft, joined, joinTarget,
                      done, currentHeap, currentDirectory>>
      BY <1>5 DEF vars, switchVars, clientVars
    <2>2. Linked' = Linked /\ \A t : Ctx(t)' = Ctx(t)
      BY <2>1 DEF Linked, Ctx
    <2>3. TypeOK' /\ ListOK' /\ SpaceOK'
      BY <2>1, <2>2 DEF IInv, TypeOK, ListOK, SpaceOK
    <2>4. \A t \in Linked : ThreadOK(t)'
      BY <2>1, <2>2 DEF IInv, ThreadOK
    <2> QED
      BY <2>1, <2>2, <2>3, <2>4 DEF IInv, UnlinkedOK
  <1> QED
    BY <1>1, <1>2, <1>3, <1>4, <1>5 DEF Next

\* IInv holds in every reachable state.
THEOREM Invariance == Spec => []IInv
  BY InitIInv, NextIInv, PTL DEF Spec

\* Every variable keeps to its type.
THEOREM TypeCorrect == Spec => []TypeOK
  <1>1. IInv => TypeOK
    BY DEF IInv
  <1> QED
    BY <1>1, Invariance, PTL

\* The CPU executes the context of `running`, in its directory, on its heap.
THEOREM SwitchCorrect == Spec => []OnCPU
  <1>1. IInv => OnCPU
    <2> SUFFICES ASSUME IInv PROVE OnCPU
      OBVIOUS
    <2>1. \A t \in Linked : Ctx(t).tid = t
      BY DEF IInv, ThreadOK
    <2>2. cpu.tid = running
      BY <2>1, RunningOK
    <2> QED
      BY <2>1, <2>2 DEF OnCPU, IInv, SpaceOK
  <1> QED
    BY <1>1, Invariance, PTL

\* No two threads are inside malloc of the same heap.
THEOREM MallocNeedsNoLock == Spec => []HeapExclusion
  <1>1. IInv => HeapExclusion
    <2> SUFFICES ASSUME IInv, NEW t \in Linked, NEW u \in Linked, t # u,
                        Ctx(t).pc = "new", Ctx(u).pc = "new"
                 PROVE  Ctx(t).heap # Ctx(u).heap
      BY DEF HeapExclusion
    <2>1. ThreadOK(t) /\ ThreadOK(u)
      BY DEF IInv
    <2>2. t # None /\ u # None
      BY LinkedThreads, ThreadsAssumption
    <2> QED
      BY <2>1, <2>2 DEF ThreadOK, kernelHeap
  <1> QED
    BY <1>1, Invariance, PTL

\* The scan of schedule() always has a thread to end with.
THEOREM ScanEnds == Spec => []FindTerminates
  <1>1. IInv => FindTerminates
    BY LinkedThreads DEF IInv, FindTerminates, Accept
  <1> QED
    BY <1>1, Invariance, PTL

\* join lets a thread go only when its target is off the CPU for good.
THEOREM JoinCorrect == Spec => []JoinSound
  <1>1. IInv => JoinSound
    BY DEF IInv, ThreadOK, JoinSound
  <1> QED
    BY <1>1, Invariance, PTL

\* addThread only ever adds to the end of the list.
THEOREM ListGrows == Spec => NeverUnlinked
  <1>1. ASSUME IInv, [Next]_vars
        PROVE  [Len(list) <= Len(list') /\ list = SubSeq(list', 1, Len(list))]_list
    <2>1. CASE AddLink
      <3>1. list \in Seq(Threads) /\ Len(list) \in Nat
        BY <1>1 DEF IInv, TypeOK
      <3> DEFINE s == SubSeq(list', 1, Len(list))
      <3>2. /\ s \in Seq(Threads) /\ Len(s) = Len(list)
            /\ \A i \in 1..Len(list) : s[i] = list'[i]
        BY <1>1, <2>1, <3>1, AddLinkList
      <3> HIDE DEF s
      <3>3. list = s
        BY <1>1, <2>1, <3>1, <3>2, AddLinkList
      <3> QED
        BY <1>1, <2>1, <3>1, <3>3, AddLinkList DEF s
    <2>2. CASE ~AddLink
      BY <1>1, <2>2
         DEF Next, Tick, schedule, Progress, SleepStore, SleepFlag, SleepReturn, NewEnd,
             AddWalk, JoinReturn, CallSleep, Client, NewBegin, CreateThread, Join, Kill,
             Fault, vars
    <2> QED
      BY <2>1, <2>2
  <1> QED
    BY <1>1, Invariance, PTL DEF Spec, NeverUnlinked

\* A tick gives the CPU to no worker that could only spin.
THEOREM SlicesUsed == Spec => NoWastedSlice
  <1> DEFINE Good == LET c == state[running'] IN
                     /\ c.pc = "sleepSpin" => timeLeft[running'] = 0
                     /\ c.pc = "joinSpin" => done[joinTarget[running']]
                     /\ c.pc \notin {"spin", "halt", "none"}
  <1>1. ASSUME IInv, [Next]_vars, running' \notin {running, Kernel} PROVE Good
    <2>1. CASE schedule
      <3>1. running' \in Linked /\ Accept(running')
        BY <1>1, <2>1, TickFacts
      <3>2. ThreadOK(running') /\ Ctx(running') = state[running'] /\ running' \in Threads
        BY <1>1, <3>1, LinkedThreads DEF IInv, Ctx
      <3>3. timeLeft[running'] \in Nat
        BY <1>1, <3>2, MillisAssumption DEF IInv, TypeOK
      <3>4. ~done[running'] /\ ~Blocked(running') /\ ~Sleeping(running')
        BY <1>1, <3>1 DEF Accept
      <3>5. state[running'].pc = "sleepSpin" => timeLeft[running'] = 0
        BY <3>2, <3>3, <3>4 DEF ThreadOK, Sleeping
      <3>6. state[running'].pc = "joinSpin" => done[joinTarget[running']]
        BY <3>2, <3>4 DEF ThreadOK, Blocked
      <3>7. state[running'].pc \notin {"spin", "halt", "none"}
        BY <1>1, <3>2, <3>4 DEF ThreadOK
      <3> QED
        BY <3>5, <3>6, <3>7
    <2>2. CASE ~schedule
      BY <1>1, <2>2
         DEF Next, Tick, Progress, SleepStore, SleepFlag, SleepReturn, NewEnd,
             AddWalk, AddLink, JoinReturn, CallSleep, Client, NewBegin, CreateThread,
             Join, Kill, Fault, vars, switchVars
    <2> QED
      BY <2>1, <2>2
  <1>2. ASSUME IInv, [Next]_vars
        PROVE  [running' \notin {running, Kernel} => Good]_vars
    BY <1>1, <1>2
  <1> QED
    BY <1>2, Invariance, PTL DEF Spec, NoWastedSlice

-----------------------------------------------------------------------------
(* Scheduler implements Processes.                                         *)

\* What the mapping needs beside IInv: the machine stops with interrupts off
\* and in the kernel thread alone, and a thread that is done has ended.
EndOK ==
  /\ cpu.pc = "halt" => ~cpu.intr
  /\ \A t \in Threads \ {running} : state[t].pc # "halt"
  /\ \A t \in Threads : done[t] => Ctx(t).pc = "spin"

\* The variables of Processes.
pcs   == [t \in Threads |-> Phase(t)]
lefts == [t \in Threads |-> TicksLeft(t)]

-----------------------------------------------------------------------------
LEMMA EndOKInit == Init => EndOK
  BY ThreadsAssumption DEF Init, EndOK, Ctx, FreshContext, NullContext

LEMMA EndOKTick ==
  ASSUME IInv, EndOK, Tick
  PROVE  EndOK' /\ cpu.pc # "halt" /\ cpu'.pc # "halt"
  <1> schedule /\ cpu.intr
    BY DEF Tick
  <1>1. cpu.pc # "halt"
    BY DEF EndOK
  <1>2. \A t \in Threads : Ctx(t)'.pc = Ctx(t).pc /\ Ctx(t).pc # "halt"
    BY <1>1, TickContexts, AgedContext DEF EndOK, Ctx
  <1>3. running' \in Threads
    BY TickFacts, LinkedThreads
  <1>4. cpu'.pc # "halt" /\ \A t \in Threads \ {running'} : state'[t].pc # "halt"
    BY <1>2, <1>3 DEF Ctx
  <1>5. \A t \in Threads : done'[t] => Ctx(t)'.pc = "spin"
    BY <1>2, TickFacts DEF EndOK
  <1> QED
    BY <1>1, <1>4, <1>5 DEF EndOK

LEMMA EndOKNext ==
  ASSUME IInv, EndOK, [Next]_vars
  PROVE  EndOK'
  <1> USE RunningOK
  <1>1. CASE Tick
    BY <1>1, EndOKTick
  <1>2. CASE Progress \/ (\E m \in 0..MaxMillis : CallSleep(m)) \/ NewBegin \/ \E u \in Threads : Join(u)
    <2>1. /\ UNCHANGED <<running, state, done>>
          /\ cpu.pc \notin {"spin", "halt"} /\ cpu'.pc # "halt"
      BY <1>2 DEF Progress, SleepStore, SleepFlag, SleepReturn, NewEnd, AddWalk, AddLink,
                  JoinReturn, CallSleep, NewBegin, Join, clientVars, switchVars, Context
    <2> QED
      BY <2>1 DEF EndOK, Ctx
  <1>3. ASSUME NEW t \in Threads, CreateThread(t) PROVE EndOK'
    <2>1. /\ UNCHANGED running /\ t # running
          /\ cpu.pc = "run" /\ cpu'.pc = "addWalk"
          /\ state' = [state EXCEPT ![t] = FreshContext(t)]
          /\ done' = [done EXCEPT ![t] = FALSE]
      BY <1>3 DEF CreateThread, switchVars, Context
    <2>2. \A u \in Threads : u # t => state'[u] = state[u] /\ done'[u] = done[u]
      BY <2>1 DEF IInv, TypeOK
    <2>3. ~done'[t] /\ state'[t].pc = "run"
      BY <2>1 DEF IInv, TypeOK, FreshContext
    <2> QED
      BY <2>1, <2>2, <2>3 DEF EndOK, Ctx
  <1>4. CASE Kill \/ Fault
    <2>1. /\ UNCHANGED <<running, state>>
          /\ \A t \in Threads \ {running} : done'[t] = done[t]
          /\ \/ cpu'.pc = "spin"
             \/ cpu'.pc = "halt" /\ ~cpu'.intr /\ UNCHANGED done /\ cpu.pc \notin {"spin", "halt"}
      BY <1>4 DEF Kill, Fault, switchVars, Context, IInv, TypeOK
    <2> QED
      BY <2>1 DEF EndOK, Ctx
  <1>5. CASE UNCHANGED vars
    BY <1>5 DEF vars, switchVars, clientVars, EndOK, Ctx
  <1> QED
    BY <1>1, <1>2, <1>3, <1>4, <1>5 DEF Next, Client

-----------------------------------------------------------------------------
(* The steps of the running thread.                                        *)

\* A step that leaves list, `running` and the saved contexts alone is a move
\* of the running thread.
LEMMA LocalMove ==
  ASSUME IInv, UNCHANGED <<list, running, state>>,
         \A t \in Threads \ {running} : timeLeft'[t] = timeLeft[t]
  PROVE  /\ pcs' = [pcs EXCEPT ![running] = Phase(running)']
         /\ lefts' = [lefts EXCEPT ![running] = TicksLeft(running)']
         /\ pcs[running] = Phase(running) /\ lefts[running] = TicksLeft(running)
         /\ Ctx(running)' = cpu'
  <1>1. running \in Threads /\ Linked' = Linked
    BY RunningOK DEF Linked
  <1>2. ASSUME NEW t \in Threads, t # running
        PROVE  Phase(t)' = Phase(t) /\ TicksLeft(t)' = TicksLeft(t)
    <2>1. Ctx(t)' = Ctx(t) /\ timeLeft'[t] = timeLeft[t]
      BY <1>2 DEF Ctx
    <2> QED
      BY <1>1, <2>1 DEF Phase, TicksLeft
  <1> QED
    BY <1>1, <1>2 DEF pcs, lefts, Ctx

\* Phases and ticks that do not change.
LEMMA Still ==
  ASSUME IInv, UNCHANGED <<list, running, state>>,
         \A t \in Threads \ {running} : timeLeft'[t] = timeLeft[t],
         Phase(running)' = Phase(running), TicksLeft(running)' = TicksLeft(running)
  PROVE  pcs' = pcs /\ lefts' = lefts
  BY LocalMove DEF pcs, lefts

\* The same in terms of Processes, for a step that does not touch deadlines.
LEMMA Moves ==
  ASSUME IInv, UNCHANGED <<list, running, state, timeLeft>>,
         cpu.pc # "halt", cpu'.pc # "halt", TicksLeft(running)' = TicksLeft(running),
         NEW from, NEW to, Phase(running) = from, Phase(running)' = to
  PROVE  /\ P!Move(running, from, to)
         /\ UNCHANGED [t \in Threads |-> TicksLeft(t)]
         /\ UNCHANGED (cpu.pc # "halt")
         /\ Ctx(running)' = cpu' /\ Linked' = Linked
  <1>1. pcs' = [pcs EXCEPT ![running] = Phase(running)'] /\ pcs[running] = Phase(running)
    BY LocalMove
  <1>2. P!Move(running, from, to)
    BY <1>1 DEF P!Move, pcs
  <1>3. lefts' = lefts
    BY LocalMove DEF lefts
  <1>4. UNCHANGED [t \in Threads |-> TicksLeft(t)]
    BY <1>3 DEF lefts
  <1> QED
    BY <1>2, <1>4, LocalMove DEF Linked

LEMMA SleepMaps ==
  ASSUME IInv, NEW m \in 0..MaxMillis, CallSleep(m)
  PROVE  P!Next
  <1> USE RunningOK DEF CallSleep, switchVars, clientVars, Context
  <1>1. Phase(running) = "run"
    BY DEF Phase
  <1>2. Phase(running)' = "sleep" /\ TicksLeft(running)' = m
    BY LocalMove DEF Phase, TicksLeft
  <1>3. P!Sleep(running, m)
    BY <1>1, <1>2, LocalMove DEF P!Sleep, P!Move, pcs, lefts
  <1> QED
    BY <1>3 DEF P!Next, P!Choose
\* The deadline is stored and the flag set: nothing that the thread can tell.
LEMMA SleepStoreStill ==
  ASSUME IInv, SleepStore \/ SleepFlag
  PROVE  UNCHANGED P!vars
  <1> USE RunningOK DEF SleepStore, SleepFlag, switchVars, Context
  <1>1. Phase(running)' = Phase(running) /\ TicksLeft(running)' = TicksLeft(running)
    <2>1. /\ Ctx(running).pc \in {"sleepStore", "sleepFlag"}
          /\ Ctx(running)'.pc \in {"sleepFlag", "sleepSpin"}
      BY DEF Ctx
    <2>2. timeLeft'[running] = IF cpu.pc = "sleepStore" THEN cpu.ms ELSE timeLeft[running]
      BY DEF IInv, TypeOK
    <2> QED
      BY <2>1, <2>2 DEF Phase, TicksLeft
  <1>2. \A t \in Threads \ {running} : timeLeft'[t] = timeLeft[t]
    BY DEF IInv, TypeOK
  <1>3. UNCHANGED <<pcs, lefts>>
    BY <1>1, <1>2, Still
  <1> QED
    BY <1>3 DEF P!vars, pcs, lefts

LEMMA AddWalkStill ==
  ASSUME IInv, AddWalk
  PROVE  UNCHANGED P!vars
  <1> USE RunningOK DEF AddWalk, switchVars, clientVars, Context
  <1>1. Phase(running)' = Phase(running) /\ TicksLeft(running)' = TicksLeft(running)
    BY DEF Phase, TicksLeft, Ctx
  <1>2. UNCHANGED <<pcs, lefts>>
    BY <1>1, Still
  <1> QED
    BY <1>2 DEF P!vars, pcs, lefts

\* From the first walk on, the thread has slept when no ticks are left.
LEMMA WakeMaps ==
  ASSUME IInv, SleepReturn
  PROVE  P!Next
  <1> USE RunningOK DEF SleepReturn, switchVars, clientVars, Context
  <1>1. Phase(running) = "sleep" /\ TicksLeft(running) = 0
    BY DEF Phase, TicksLeft
  <1>2. Phase(running)' = "run" /\ TicksLeft(running)' = 0
    BY LocalMove DEF Phase, TicksLeft, Linked
  <1>3. P!Wake(running)
    BY <1>1, <1>2, Moves DEF P!Wake
  <1> QED
    BY <1>3 DEF P!Next, P!Continue

LEMMA NewMaps ==
  ASSUME IInv, NewBegin \/ NewEnd
  PROVE  P!Next
  <1> USE RunningOK DEF NewBegin, NewEnd, switchVars, clientVars, Context
  <1>1. TicksLeft(running) = 0 /\ TicksLeft(running)' = 0
    BY LocalMove DEF TicksLeft
  <1>2. CASE NewBegin
    <2>1. Phase(running) = "run" /\ Phase(running)' = "new"
      BY <1>2, LocalMove DEF Phase
    <2>2. P!New(running)
      BY <1>1, <1>2, <2>1, Moves DEF P!New
    <2> QED
      BY <2>2 DEF P!Next, P!Choose
  <1>3. CASE NewEnd
    <2>1. Phase(running) = "new" /\ Phase(running)' = "run"
      <3>1. Ctx(running).pc = "new" /\ Ctx(running)'.pc = "run"
        BY <1>3, LocalMove
      <3>2. running' \in Linked'
        BY <1>3 DEF Linked
      <3> QED
        BY <1>3, <3>1, <3>2 DEF Phase
    <2>2. P!NewDone(running)
      BY <1>1, <1>3, <2>1, Moves DEF P!NewDone
    <2> QED
      BY <2>2 DEF P!Next, P!Continue
  <1> QED
    BY <1>2, <1>3

LEMMA JoinMaps ==
  ASSUME IInv, NEW u \in Threads, Join(u)
  PROVE  P!Next
  <1> USE RunningOK DEF Join, switchVars, Context
  <1>1. TicksLeft(running) = 0 /\ TicksLeft(running)' = 0
    BY LocalMove DEF TicksLeft
  <1>2. Phase(running) = "run" /\ Phase(running)' = "join"
    BY LocalMove DEF Phase
  <1>3. Phase(u) \notin {"absent", "born"}
    <2>1. Ctx(u).pc # "none" /\ Ctx(u).pc \in Labels
      BY DEF IInv, ThreadOK, Ctx, TypeOK
    <2> QED
      BY <2>1 DEF Phase, Labels
  <1>4. P!Join(running, u)
    BY <1>1, <1>2, <1>3, Moves DEF P!Join
  <1> QED
    BY <1>4 DEF P!Next, P!Choose

\* schedule has let the thread go because its target is done, and what is
\* done has ended.
LEMMA JoinedMaps ==
  ASSUME IInv, EndOK, JoinReturn
  PROVE  P!Next
  <1> USE RunningOK DEF JoinReturn, switchVars, clientVars, Context
  <1>1. TicksLeft(running) = 0 /\ TicksLeft(running)' = 0
    BY LocalMove DEF TicksLeft
  <1>2. Phase(running) = "join" /\ Phase(running)' = "run"
    BY LocalMove DEF Phase, Linked
  <1>3. joinTarget[running] \in Threads /\ Phase(joinTarget[running]) = "ended"
    <2>1. joinTarget[running] \in Threads /\ done[joinTarget[running]]
      BY LinkedThreads DEF ThreadOK
    <2> QED
      BY <2>1 DEF EndOK, Phase
  <1>4. P!Joined(running)
    BY <1>1, <1>2, <1>3, Moves DEF P!Joined
  <1> QED
    BY <1>4 DEF P!Next, P!Continue

LEMMA KillMaps ==
  ASSUME IInv, Kill
  PROVE  P!Next
  <1> USE RunningOK DEF Kill, switchVars, Context
  <1>1. TicksLeft(running) = 0 /\ TicksLeft(running)' = 0
    BY LocalMove DEF TicksLeft
  <1>2. Phase(running) = "run" /\ Phase(running)' = "ended"
    BY LocalMove DEF Phase
  <1>3. P!Return(running)
    BY <1>1, <1>2, Moves DEF P!Return
  <1> QED
    BY <1>3 DEF P!Next, P!Choose

LEMMA FaultMaps ==
  ASSUME IInv, Fault
  PROVE  P!Next
  <1> USE RunningOK DEF Fault, switchVars, Context
  <1>1. cpu'.pc = IF running = Kernel THEN "halt" ELSE "spin"
    OBVIOUS
  <1>2. TicksLeft(running)' = 0 /\ Phase(running)' = "ended"
    BY <1>1, LocalMove DEF TicksLeft, Phase
  <1>3. Phase(running) \notin {"absent", "born", "ended"}
    BY DEF Phase, ThreadOK, Labels
  <1>4. P!Crash(running)
    BY <1>1, <1>2, <1>3, LocalMove DEF P!Crash, pcs, lefts
  <1> QED
    BY <1>4 DEF P!Next, P!Choose
-----------------------------------------------------------------------------
(* Threads made, and ticks.                                                *)

LEMMA CreateMaps ==
  ASSUME IInv, NEW u \in Threads, CreateThread(u)
  PROVE  P!Next
  <1> USE RunningOK DEF CreateThread, switchVars, Context
  <1>1. u \notin Linked /\ Linked' = Linked /\ u # running
    BY DEF IInv, ThreadOK, Ctx, Linked
  <1>2. Ctx(u).pc = "none" /\ Ctx(u)'.pc = "run" /\ Ctx(running).pc = "run" /\ Ctx(running)'.pc = "addWalk"
    BY <1>1 DEF Ctx, FreshContext, IInv, TypeOK
  <1>3. ASSUME NEW t \in Threads, t \notin {u, running}
        PROVE  Phase(t)' = Phase(t) /\ TicksLeft(t)' = TicksLeft(t)
    <2>1. Ctx(t)' = Ctx(t)
      BY <1>3 DEF Ctx, IInv, TypeOK
    <2> QED
      BY <1>1, <2>1 DEF Phase, TicksLeft
  <1>4. /\ Phase(u) = "absent" /\ Phase(u)' = "born"
        /\ Phase(running) = "run" /\ Phase(running)' = "link"
    BY <1>1, <1>2 DEF Phase
  <1>5. TicksLeft(u)' = TicksLeft(u) /\ TicksLeft(running)' = TicksLeft(running)
    BY <1>2 DEF TicksLeft
  <1>6. pcs' = [pcs EXCEPT ![Kernel] = "link", ![u] = "born"] /\ lefts' = lefts
    BY <1>3, <1>4, <1>5 DEF pcs, lefts
  <1>7. P!Create(u)
    BY <1>4, <1>6 DEF P!Create, pcs, lefts
  <1> QED
    BY <1>7 DEF P!Next, P!Choose

LEMMA StartMaps ==
  ASSUME IInv, AddLink
  PROVE  P!Next
  <1> PICK u : u = cpu.obj
    OBVIOUS
  <1>1. /\ UNCHANGED <<running, state, timeLeft, joinTarget>>
        /\ cpu.pc = "addWalk" /\ cpu'.pc = "run"
    BY RunningOK DEF AddLink, switchVars, clientVars, Context
  <1>2. /\ u \in Threads \ Linked /\ Linked' = Linked \cup {u}
        /\ running = Kernel /\ Kernel \in Linked /\ Kernel \in Threads
        /\ state[u] = FreshContext(u)
    BY <1>1, RunningOK, AddLinkList DEF ThreadOK
  <1>3. Ctx(u) = FreshContext(u) /\ Ctx(u)' = FreshContext(u)
    BY <1>1, <1>2 DEF Ctx
  <1>4. Ctx(running).pc = "addWalk" /\ Ctx(running)'.pc = "run"
    BY <1>1 DEF Ctx
  <1>5. ASSUME NEW t \in Threads, t \notin {u, running}
        PROVE  Phase(t)' = Phase(t) /\ TicksLeft(t)' = TicksLeft(t)
    <2>1. Ctx(t)' = Ctx(t) /\ (t \in Linked' <=> t \in Linked)
      BY <1>1, <1>2, <1>5 DEF Ctx
    <2> QED
      BY <1>1, <2>1 DEF Phase, TicksLeft
  <1>6. Phase(u) = "born" /\ Phase(u)' = "run"
    BY <1>2, <1>3 DEF Phase, FreshContext
  <1>7. Phase(running) = "link" /\ Phase(running)' = "run"
    BY <1>1, <1>2, <1>4 DEF Phase
  <1>8. TicksLeft(u)' = TicksLeft(u) /\ TicksLeft(running)' = TicksLeft(running)
    BY <1>3, <1>4 DEF TicksLeft, FreshContext
  <1>9. pcs' = [pcs EXCEPT ![Kernel] = "run", ![u] = "run"] /\ lefts' = lefts
    <2>1. running' = Kernel /\ u # Kernel
      BY <1>1, <1>2
    <2>2. Phase(Kernel)' = "run" /\ TicksLeft(Kernel)' = TicksLeft(Kernel)
      BY <1>1, <1>2, <1>7, <1>8
    <2>3. \A t \in Threads \ {u, Kernel} : Phase(t)' = Phase(t) /\ TicksLeft(t)' = TicksLeft(t)
      BY <1>2, <1>5
    <2> QED
      BY <1>2, <1>6, <1>8, <2>1, <2>2, <2>3 DEF pcs, lefts
  <1>10. P!Start(u)
    BY <1>1, <1>2, <1>6, <1>7, <1>9 DEF P!Start, pcs, lefts
  <1> QED
    BY <1>2, <1>10 DEF P!Next, P!Continue

\* Nobody moves during a tick, and each deadline comes closer by one,
\* wherever it is kept.
LEMMA PassMaps ==
  ASSUME IInv, EndOK, Tick
  PROVE  P!Next
  <1> schedule
    BY DEF Tick
  <1>1. UNCHANGED <<list, joinTarget>> /\ Linked' = Linked
    BY TickFacts DEF Linked
  <1>2. ASSUME NEW t \in Threads
        PROVE  /\ Phase(t)' = Phase(t)
               /\ TicksLeft(t)' = IF TicksLeft(t) = 0 THEN 0 ELSE TicksLeft(t) - 1
    <2>1. Ctx(t)'.pc = Ctx(t).pc /\ timeLeft'[t] = Pred(timeLeft[t])
      BY TickContexts, TickFacts, AgedContext
    <2>2. Ctx(t)'.ms = Pred(Ctx(t).ms)
      BY TickContexts DEF Aged, Context
    <2> QED
      BY <1>1, <2>1, <2>2 DEF Phase, TicksLeft, Pred
  <1>3. pcs' = pcs /\ lefts' = [t \in Threads |-> IF lefts[t] = 0 THEN 0 ELSE lefts[t] - 1]
    BY <1>2 DEF pcs, lefts
  <1>4. P!Pass
    BY <1>1, <1>3, EndOKTick DEF P!Pass, pcs, lefts
  <1> QED
    BY <1>4 DEF P!Next

-----------------------------------------------------------------------------
LEMMA InitMaps ==
  ASSUME Init
  PROVE  P!Init
  <1> USE ThreadsAssumption DEF Init
  <1>1. Linked = {Kernel} /\ Ctx(Kernel) = FreshContext(Kernel)
    BY DEF Linked, Ctx
  <1>2. \A t \in Threads \ {Kernel} : Ctx(t) = NullContext
    BY DEF Ctx
  <1>3. Phase(Kernel) = "run" /\ TicksLeft(Kernel) = 0
    BY <1>1 DEF Phase, TicksLeft, FreshContext
  <1>4. ASSUME NEW t \in Threads \ {Kernel} PROVE Phase(t) = "absent" /\ TicksLeft(t) = 0
    BY <1>2 DEF Phase, TicksLeft, NullContext
  <1>5. /\ pcs = [t \in Threads |-> IF t = Kernel THEN "run" ELSE "absent"]
        /\ lefts = [t \in Threads |-> 0]
    BY <1>3, <1>4 DEF pcs, lefts
  <1> QED
    BY <1>5 DEF P!Init, FreshContext, pcs, lefts

LEMMA NextMaps ==
  ASSUME IInv, EndOK, [Next]_vars
  PROVE  [P!Next]_(P!vars)
  <1>1. CASE Tick
    BY <1>1, PassMaps
  <1>2. CASE Progress
    BY <1>2, SleepStoreStill, WakeMaps, NewMaps, AddWalkStill, StartMaps, JoinedMaps DEF Progress
  <1>3. CASE \E m \in 0..MaxMillis : CallSleep(m)
    BY <1>3, SleepMaps
  <1>4. CASE Client
    BY <1>4, NewMaps, CreateMaps, JoinMaps, KillMaps, FaultMaps DEF Client, Join, Linked, IInv, TypeOK
  <1>5. CASE UNCHANGED vars
    <2>1. UNCHANGED P!vars
      BY <1>5 DEF vars, switchVars, clientVars, P!vars, Phase, TicksLeft, Ctx, Linked
    <2> QED
      BY <2>1
  <1> QED
    BY <1>1, <1>2, <1>3, <1>4, <1>5 DEF Next

\* Whatever the ticks of schedule() interrupt, each thread goes through the
\* phases of a thread with a processor of its own.
THEOREM Implements == Spec => RunsAlone
  <1>1. Init => IInv /\ EndOK /\ P!Init
    BY InitIInv, EndOKInit, InitMaps
  <1>2. IInv /\ EndOK /\ [Next]_vars => (IInv /\ EndOK)'
    BY NextIInv, EndOKNext
  <1>3. IInv /\ EndOK /\ [Next]_vars => [P!Next]_(P!vars)
    BY NextMaps
  <1> QED
    BY <1>1, <1>2, <1>3, PTL DEF Spec, RunsAlone, P!Spec
-----------------------------------------------------------------------------
(* A thread that may run gets the CPU within as many ticks as there are     *)
(* other threads in the list.                                              *)

-----------------------------------------------------------------------------
(* Places in a ring: a sequence without repetitions that is walked round.  *)

Distinct(s) == \A i, j \in 1..Len(s) : s[i] = s[j] => i = j

Place(s, t) == CHOOSE i \in 1..Len(s) : s[i] = t

Elements(s) == {s[i] : i \in 1..Len(s)}

\* The k-th element after r.
Onward(s, r, k) ==
  LET i == Place(s, r) + k IN IF i <= Len(s) THEN s[i] ELSE s[i - Len(s)]

\* How many elements a walk from r goes on to come to t.
Gap(s, r, t) ==
  IF Place(s, t) > Place(s, r) THEN Place(s, t) - Place(s, r)
                               ELSE Place(s, t) + Len(s) - Place(s, r)

LEMMA PlaceOfElement ==
  ASSUME NEW S, NEW s \in Seq(S), NEW t \in Elements(s)
  PROVE  Place(s, t) \in 1..Len(s) /\ s[Place(s, t)] = t
  BY DEF Place, Elements

LEMMA PlaceOfIndex ==
  ASSUME NEW S, NEW s \in Seq(S), Distinct(s), NEW i \in 1..Len(s)
  PROVE  Place(s, s[i]) = i
  <1>1. s[i] \in Elements(s)
    BY DEF Elements
  <1> QED
    BY <1>1, PlaceOfElement DEF Distinct

\* A walk once round the ring comes to every element.
LEMMA GapReaches ==
  ASSUME NEW S, NEW s \in Seq(S), NEW r \in Elements(s), NEW t \in Elements(s)
  PROVE  /\ Gap(s, r, t) \in 1..Len(s)
         /\ Onward(s, r, Gap(s, r, t)) = t
         /\ r = t => Gap(s, r, t) = Len(s)
  <1>1. Len(s) \in Nat
    OBVIOUS
  <1>2. Place(s, r) \in 1..Len(s) /\ Place(s, t) \in 1..Len(s) /\ s[Place(s, t)] = t
    BY PlaceOfElement
  <1> QED
    BY <1>1, <1>2 DEF Gap, Onward

\* Having gone on by k, it has k less to go to what it has not passed.
LEMMA GapShrinks ==
  ASSUME NEW S, NEW s \in Seq(S), Distinct(s),
         NEW r \in Elements(s), NEW t \in Elements(s),
         NEW k \in 1..Len(s), k < Gap(s, r, t)
  PROVE  Gap(s, Onward(s, r, k), t) = Gap(s, r, t) - k
  <1>1. Len(s) \in Nat
    OBVIOUS
  <1>2. Place(s, r) \in 1..Len(s) /\ Place(s, t) \in 1..Len(s)
    BY PlaceOfElement
  <1> DEFINE i == IF Place(s, r) + k <= Len(s) THEN Place(s, r) + k
                                                ELSE Place(s, r) + k - Len(s)
  <1>3. i \in 1..Len(s) /\ Onward(s, r, k) = s[i]
    BY <1>1, <1>2 DEF Onward
  <1>4. Place(s, Onward(s, r, k)) = i
    BY <1>3, PlaceOfIndex
  <1> QED
    BY <1>1, <1>2, <1>4 DEF Gap

-----------------------------------------------------------------------------
(* The inductive invariant: what a thread has waited, and what is left of   *)
(* the way of the scan to it, are together no more than one round.          *)

WaitPlusDistance ==
  \A t \in Linked : IF t = running THEN waited[t] = 0
                    ELSE waited[t] + Gap(list, running, t) <= Len(list)

BInv ==
  /\ IInv
  /\ waited \in [Threads -> Nat]
  /\ \A t \in Threads \ Linked : waited[t] = 0
  /\ WaitPlusDistance

\* The list of the scheduler is such a ring.
LEMMA ListIsRing ==
  ASSUME IInv
  PROVE  /\ list \in Seq(Threads) /\ Distinct(list) /\ Len(list) \in Nat
         /\ Linked = Elements(list) /\ running \in Elements(list)
         /\ \A k : After(k) = Onward(list, running, k)
  BY DEF IInv, TypeOK, ListOK, Distinct, Linked, Elements, After, Onward, Pos, Place

LEMMA InitBInv == BInit => BInv
  <1> SUFFICES ASSUME BInit PROVE BInv
    OBVIOUS
  <1>1. IInv
    BY InitIInv DEF BInit
  <1>2. waited = [t \in Threads |-> 0] /\ Linked = {Kernel} /\ running = Kernel
    BY DEF BInit, Init, Linked
  <1>3. Kernel \in Threads
    BY ThreadsAssumption
  <1> QED
    BY <1>1, <1>2, <1>3 DEF BInv, WaitPlusDistance

\* A tick brings the scan closer to every thread that may run by at least
\* the one tick that the thread waits longer.
LEMMA BTickStep ==
  ASSUME BInv, BTick
  PROVE  BInv'
  <1>1. IInv /\ IInv' /\ schedule
    BY TickStep DEF BInv, BTick, Tick
  <1>2. PICK k \in 1..Len(list) :
          /\ \A j \in 1..(k - 1) : ~Accept(After(j))
          /\ running' = After(k)
    BY <1>1 DEF schedule
  <1>3. list' = list /\ Linked' = Linked /\ Linked \subseteq Threads /\ running' \in Linked
    BY <1>1, TickFacts, LinkedThreads DEF Linked
  <1>4. waited' = [t \in Threads |-> IF t \in Linked /\ Accept(t) /\ t # running'
                                      THEN waited[t] + 1 ELSE 0]
    BY DEF BTick
  <1>5. waited' \in [Threads -> Nat] /\ \A t \in Threads \ Linked' : waited'[t] = 0
    BY <1>3, <1>4 DEF BInv
  <1>6. ASSUME NEW t \in Linked, t # running'
        PROVE  waited'[t] + Gap(list, running', t) <= Len(list)
    <2> DEFINE g == Gap(list, running, t)
    <2>1. t \in Elements(list) /\ running \in Elements(list) /\ running' \in Elements(list)
      BY <1>1, <1>3, <1>6, ListIsRing
    <2>2. list \in Seq(Threads) /\ Distinct(list) /\ Len(list) \in Nat
      BY <1>1, ListIsRing
    <2>3. /\ g \in 1..Len(list) /\ Onward(list, running, g) = t
          /\ running = t => g = Len(list)
      BY <2>1, <2>2, GapReaches
    <2>4. Gap(list, running', t) \in 1..Len(list)
      BY <2>1, <2>2, GapReaches
    <2>5. running' = Onward(list, running, k) /\ After(g) = t
      BY <1>1, <1>2, <2>3, ListIsRing
    <2>6. CASE ~Accept(t)
      <3>1. waited'[t] = 0
        BY <1>3, <1>4, <2>6
      <3> QED
        BY <2>2, <2>4, <3>1
    <2>7. CASE Accept(t)
      <3> HIDE DEF g
      <3>1. g >= k
        BY <1>2, <2>2, <2>3, <2>5, <2>7
      <3>2. g # k
        BY <1>6, <2>3, <2>5
      <3>3. k < g
        BY <2>2, <2>3, <3>1, <3>2
      <3>4. Gap(list, Onward(list, running, k), t) = g - k
        BY <2>1, <2>2, <3>3, GapShrinks DEF g
      <3>5. waited'[t] = waited[t] + 1 /\ waited[t] \in Nat
        BY <1>3, <1>4, <1>6, <2>7 DEF BInv
      <3>6. waited[t] + g <= Len(list)
        BY <1>6, <2>2, <2>3, <3>5 DEF BInv, WaitPlusDistance, g
      <3> QED
        BY <2>2, <2>3, <2>5, <3>3, <3>4, <3>5, <3>6
    <2> QED
      BY <2>6, <2>7
  <1>7. waited'[running'] = 0
    BY <1>3, <1>4
  <1> QED
    BY <1>1, <1>3, <1>5, <1>6, <1>7 DEF BInv, WaitPlusDistance

\* The thread that addThread links comes last, and has not waited.
LEMMA BLinkStep ==
  ASSUME BInv, AddLink, UNCHANGED waited
  PROVE  BInv'
  <1>1. IInv /\ IInv' /\ list \in Seq(Threads) /\ Len(list) \in Nat
    BY AddLinkStep, ListIsRing DEF BInv
  <1>2. /\ list' \in Seq(Threads) /\ Len(list') = Len(list) + 1
        /\ \A i \in 1..Len(list) : list'[i] = list[i]
        /\ Linked' = Linked \cup {cpu.obj} /\ cpu.obj \in Threads \ Linked
        /\ running' = running
    BY <1>1, AddLinkList DEF AddLink, switchVars
  <1>3. Distinct(list') /\ Linked' = Elements(list') /\ running' \in Linked'
    BY <1>1, <1>2 DEF IInv, ListOK, Distinct, Linked, Elements
  <1>4. ASSUME NEW t \in Linked PROVE Place(list', t) = Place(list, t)
    <2>1. Place(list, t) \in 1..Len(list) /\ list[Place(list, t)] = t
      BY <1>1, ListIsRing, PlaceOfElement
    <2>2. Place(list, t) \in 1..Len(list') /\ list'[Place(list, t)] = t
      BY <1>1, <1>2, <2>1
    <2> QED
      BY <1>2, <1>3, <2>2, PlaceOfIndex
  <1>5. ASSUME NEW t \in Linked', t # running'
        PROVE  waited'[t] + Gap(list', running', t) <= Len(list')
    <2>1. Gap(list', running', t) \in 1..Len(list')
      BY <1>2, <1>3, <1>5, GapReaches
    <2>2. CASE t \in Linked
      <3>1. Gap(list', running', t) <= Gap(list, running, t) + 1
        <4>1. Place(list, t) \in 1..Len(list) /\ Place(list, running) \in 1..Len(list)
          BY <1>1, <2>2, ListIsRing, PlaceOfElement
        <4>2. Place(list', t) = Place(list, t) /\ Place(list', running') = Place(list, running)
          BY <1>1, <1>2, <1>4, <2>2, LinkedThreads DEF IInv, ListOK
        <4> QED
          BY <1>1, <1>2, <4>1, <4>2 DEF Gap
      <3>2. waited[t] \in Nat /\ Gap(list, running, t) \in 1..Len(list)
        BY <1>1, <2>2, ListIsRing, GapReaches, LinkedThreads DEF BInv
      <3>3. waited[t] + Gap(list, running, t) <= Len(list)
        BY <1>2, <1>5, <2>2 DEF BInv, WaitPlusDistance
      <3> QED
        BY <1>1, <1>2, <2>1, <3>1, <3>2, <3>3
    <2>3. CASE t \notin Linked
      BY <1>1, <1>2, <2>1, <2>3 DEF BInv
    <2> QED
      BY <2>2, <2>3
  <1>6. waited'[running'] = 0
    BY <1>1, <1>2 DEF BInv, WaitPlusDistance, IInv, ListOK
  <1> QED
    BY <1>1, <1>2, <1>5, <1>6 DEF BInv, WaitPlusDistance

\* No other step moves anything that the invariant speaks of.
LEMMA BOtherStep ==
  ASSUME BInv, BOther
  PROVE  BInv'
  <1>1. IInv' /\ waited' = waited
    BY NextIInv DEF BInv, BOther, Next
  <1>2. CASE AddLink
    BY <1>1, <1>2, BLinkStep
  <1>3. CASE ~AddLink
    <2>1. list' = list /\ running' = running
      BY <1>3 DEF BOther, Progress, SleepStore, SleepFlag, SleepReturn, NewEnd, AddWalk,
                  JoinReturn, CallSleep, Client, NewBegin, CreateThread, Join, Kill, Fault,
                  switchVars
    <2> QED
      BY <1>1, <2>1 DEF BInv, WaitPlusDistance, Linked
  <1> QED
    BY <1>2, <1>3

LEMMA NextBInv ==
  ASSUME BInv, [BNext]_boundVars
  PROVE  BInv'
  <1>1. CASE BTick
    BY <1>1, BTickStep
  <1>2. CASE BOther
    BY <1>2, BOtherStep
  <1>3. CASE UNCHANGED boundVars
    <2>1. UNCHANGED vars /\ UNCHANGED waited
      BY <1>3 DEF boundVars
    <2>2. IInv' /\ list' = list /\ running' = running
      BY <2>1, NextIInv DEF BInv, vars, switchVars
    <2> QED
      BY <2>1, <2>2 DEF BInv, WaitPlusDistance, Linked
  <1> QED
    BY <1>1, <1>2, <1>3 DEF BNext

\* A thread that may run is passed over by fewer ticks than there are
\* threads in the list.
THEOREM BoundedWaitCorrect == BSpec => []BoundedWait
  <1>1. BInv => BoundedWait
    <2> SUFFICES ASSUME BInv, NEW t \in Linked PROVE waited[t] <= Len(list) - 1
      BY DEF BoundedWait
    <2>1. IInv /\ Len(list) \in Nat /\ Len(list) >= 1 /\ waited[t] \in Nat
      BY ListIsRing, LinkedThreads DEF BInv, IInv, ListOK
    <2>2. Gap(list, running, t) \in 1..Len(list)
      BY <2>1, ListIsRing, GapReaches
    <2> QED
      BY <2>1, <2>2 DEF BInv, WaitPlusDistance
  <1> QED
    BY <1>1, InitBInv, NextBInv, PTL DEF BSpec
=============================================================================
