------------------------------ MODULE Executor ------------------------------
(* What a thread pool promises, and nothing else: tasks start in the order in *)
(* which they were submitted, each once, on a thread that is running no other *)
(* one; who closes the pool may go on only when every task submitted has come *)
(* to its end.  It says nothing about progress.                               *)
EXTENDS Naturals

CONSTANT Threads    \* the threads that run tasks

VARIABLES
  submitted,        \* tasks submitted so far: they are numbered from 1
  started,          \* tasks started so far
  running,          \* per thread: the task it runs, 0 if none
  phase             \* "open", "closing", "closed"

vars == <<submitted, started, running, phase>>

Init ==
  /\ submitted = 0 /\ started = 0
  /\ running = [t \in Threads |-> 0] /\ phase = "open"

Submit ==
  /\ phase = "open"
  /\ submitted' = submitted + 1
  /\ UNCHANGED <<started, running, phase>>

Start(t) ==
  /\ started < submitted /\ running[t] = 0
  /\ started' = started + 1
  /\ running' = [running EXCEPT ![t] = started + 1]
  /\ UNCHANGED <<submitted, phase>>

End(t) ==
  /\ running[t] # 0
  /\ running' = [running EXCEPT ![t] = 0]
  /\ UNCHANGED <<submitted, started, phase>>

Close ==
  /\ phase = "open" /\ phase' = "closing"
  /\ UNCHANGED <<submitted, started, running>>

Closed ==
  /\ phase = "closing" /\ phase' = "closed"
  /\ started = submitted /\ \A t \in Threads : running[t] = 0
  /\ UNCHANGED <<submitted, started, running>>

Next == Submit \/ (\E t \in Threads : Start(t) \/ End(t)) \/ Close \/ Closed

Spec == Init /\ [][Next]_vars
=============================================================================
