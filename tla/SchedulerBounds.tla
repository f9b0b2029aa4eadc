--------------------------- MODULE SchedulerBounds ---------------------------
(* How long the scheduler makes a thread wait, in ticks: Scheduler with a  *)
(* history variable that its actions do not read.                          *)
EXTENDS Scheduler

VARIABLE waited   \* ticks since t could run, while others were given the CPU

boundVars == <<vars, waited>>

BInit == Init /\ waited = [t \in Threads |-> 0]

BTick ==
  /\ Tick
  /\ waited' = [t \in Threads |->
                  IF t \in Linked /\ Accept(t) /\ t # running'
                  THEN waited[t] + 1 ELSE 0]

BOther ==
  /\ Progress \/ (\E m \in 0..MaxMillis : CallSleep(m)) \/ Client
  /\ UNCHANGED waited

BNext == BTick \/ BOther

BSpec == BInit /\ [][BNext]_boundVars

-----------------------------------------------------------------------------
\* Round robin: a thread that may run is passed over by fewer ticks than
\* there are threads in the list, however the others come and go.
BoundedWait == \A t \in Linked : waited[t] <= Len(list) - 1
=============================================================================
