------------------------------- MODULE Mailbox -------------------------------
(* How a thread hands a command to an epoll thread, on either side: push to a *)
(* ConcurrentQueue under its mutex, then write to an eventfd; the epoll loop  *)
(* wakes, reads the eventfd to zero, pops until the queue is empty, handles   *)
(* each command, and looks at _running again.  Handling a command may throw,  *)
(* which leaves the loop with _running as it is.  Commands are numbered in    *)
(* the order of their pushes.                                                 *)
EXTENDS Naturals, Sequences

CONSTANTS
  Producers,    \* threads that push: the client's callers, the server's workers
  MaxPushes     \* bound: commands pushed

ASSUME MaxPushesAssumption == MaxPushes \in Nat

VARIABLES
  queue,        \* ConcurrentQueue::_queue
  counter,      \* the eventfd
  running,      \* _running
  producer,     \* per producer: between push and write?
  stopper,      \* the thread inside stop() or close(): "wake" is its write
  loop,         \* where the epoll loop is
  current,      \* the command popped and not yet handled, 0 if none
  pushed,       \* number of commands pushed so far
  handled       \* the commands handled, in order

vars == <<queue, counter, running, producer, stopper, loop, current, pushed, handled>>

Init ==
  /\ queue = <<>> /\ counter = 0 /\ running = TRUE
  /\ producer = [p \in Producers |-> "idle"] /\ stopper = "idle"
  /\ loop = "check" /\ current = 0 /\ pushed = 0 /\ handled = <<>>

\* ConcurrentQueue::push
Push(p) ==
  /\ producer[p] = "idle" /\ pushed < MaxPushes
  /\ pushed' = pushed + 1
  /\ queue' = Append(queue, pushed')
  /\ producer' = [producer EXCEPT ![p] = "pushed"]
  /\ UNCHANGED <<counter, running, stopper, loop, current, handled>>

\* fault: the eventfd is written only when the loop is seen waiting
WakeIfWaiting(p) ==
  /\ producer[p] = "pushed"
  /\ producer' = [producer EXCEPT ![p] = "idle"]
  /\ counter' = IF loop = "wait" THEN counter + 1 ELSE counter
  /\ UNCHANGED <<queue, running, stopper, loop, current, pushed, handled>>

\* the write to the eventfd
Wake(p) ==
  /\ producer[p] = "pushed"
  /\ producer' = [producer EXCEPT ![p] = "idle"]
  /\ counter' = counter + 1
  /\ UNCHANGED <<queue, running, stopper, loop, current, pushed, handled>>

\* _running first, then the queue, then the eventfd: Server::stop empties the
\* queue, each time it is called; Connection::close leaves it as it is, and
\* returns early when _running is already false
StopRunning ==
  /\ stopper \in {"idle", "done"}
  /\ running' = FALSE
  /\ stopper' \in (IF running THEN {"clear", "wake"} ELSE {"clear"})
  /\ UNCHANGED <<queue, counter, producer, loop, current, pushed, handled>>

StopClear ==
  /\ stopper = "clear"
  /\ stopper' = "wake"
  /\ queue' = <<>>
  /\ UNCHANGED <<counter, running, producer, loop, current, pushed, handled>>

\* fault: no write to the eventfd after _running = false
StopSilent ==
  /\ stopper = "wake"
  /\ stopper' = "done"
  /\ UNCHANGED <<queue, counter, running, producer, loop, current, pushed, handled>>

StopWake ==
  /\ stopper = "wake"
  /\ stopper' = "done"
  /\ counter' = counter + 1
  /\ UNCHANGED <<queue, running, producer, loop, current, pushed, handled>>

------------------------------------------------------------------------------
(* The epoll loop                                                             *)

\* `while (_running)`
Check ==
  /\ loop = "check"
  /\ loop' = IF running THEN "wait" ELSE "exited"
  /\ UNCHANGED <<queue, counter, running, producer, stopper, current, pushed, handled>>

\* epoll_wait returns with the eventfd readable, or for a socket alone
Awake ==
  /\ loop = "wait" /\ counter > 0
  /\ loop' = "read"
  /\ UNCHANGED <<queue, counter, running, producer, stopper, current, pushed, handled>>

AwakeElsewhere ==
  /\ loop = "wait"
  /\ loop' = "check"
  /\ UNCHANGED <<queue, counter, running, producer, stopper, current, pushed, handled>>

Read ==
  /\ loop = "read"
  /\ counter' = 0 /\ loop' = "drain"
  /\ UNCHANGED <<queue, running, producer, stopper, current, pushed, handled>>

\* fault: front() without pop()
TryPeek ==
  /\ loop = "drain"
  /\ IF queue = <<>>
       THEN loop' = "check" /\ UNCHANGED current
       ELSE loop' = "handle" /\ current' = Head(queue)
  /\ UNCHANGED <<queue, counter, running, producer, stopper, pushed, handled>>

\* ConcurrentQueue::tryPop
TryPop ==
  /\ loop = "drain"
  /\ IF queue = <<>>
       THEN loop' = "check" /\ UNCHANGED <<queue, current>>
       ELSE loop' = "handle" /\ current' = Head(queue) /\ queue' = Tail(queue)
  /\ UNCHANGED <<counter, running, producer, stopper, pushed, handled>>

\* fault: `if` for `while (tryPop(cmd))`, one command per wakeup
HandleOne ==
  /\ loop = "handle"
  /\ handled' = Append(handled, current)
  /\ current' = 0 /\ loop' = "check"
  /\ UNCHANGED <<queue, counter, running, producer, stopper, pushed>>

\* _handleCommand
Handle ==
  /\ loop = "handle"
  /\ handled' = Append(handled, current)
  /\ current' = 0 /\ loop' = "drain"
  /\ UNCHANGED <<queue, counter, running, producer, stopper, pushed>>

\* an exception of _handleCommand leaves the loop; nobody touches _running
HandleThrows ==
  /\ loop = "handle"
  /\ loop' = "exited"
  /\ UNCHANGED <<queue, counter, running, producer, stopper, current, pushed, handled>>

------------------------------------------------------------------------------
ProducerStep(p) == Push(p) \/ Wake(p)
StopperStep == StopRunning \/ StopClear \/ StopWake
LoopStep == Check \/ Awake \/ AwakeElsewhere \/ Read \/ TryPop \/ Handle \/ HandleThrows

Next == (\E p \in Producers : ProducerStep(p)) \/ StopperStep \/ LoopStep

Spec == Init /\ [][Next]_vars

\* a thread past its push or its _running = false finishes; the loop runs, and
\* epoll_wait does not overlook a readable eventfd for ever.  No socket need
\* ever become ready: AwakeElsewhere has no fairness
FairSpec ==
  /\ Spec
  /\ \A p \in Producers : WF_vars(Wake(p))
  /\ WF_vars(StopClear \/ StopWake)
  /\ WF_vars(Check \/ Read \/ TryPop \/ Handle \/ HandleThrows) /\ SF_vars(Awake)

------------------------------------------------------------------------------
\* Every variable has its type.
TypeOK ==
  /\ queue \in Seq(Nat) /\ counter \in Nat /\ running \in BOOLEAN
  /\ producer \in [Producers -> {"idle", "pushed"}]
  /\ stopper \in {"idle", "clear", "wake", "done"}
  /\ loop \in {"check", "wait", "read", "drain", "handle", "exited"}
  /\ current \in Nat /\ pushed \in Nat /\ handled \in Seq(Nat)

Waking == stopper \in {"clear", "wake"} \/ \E p \in Producers : producer[p] = "pushed"

\* No lost wakeup: while the loop is not draining, a command in the queue has
\* made the eventfd readable, or its thread is about to.  The eventfd is read
\* before the queue is popped, never after.
NoLostWakeup ==
  loop \in {"check", "wait", "read"} /\ queue # <<>> => counter > 0 \/ Waking

\* No lost stop: a loop blocked in epoll_wait after _running was cleared has
\* its wakeup, or stop() / close() is about to write it.
NoLostStop ==
  loop \in {"wait", "read"} /\ ~running => counter > 0 \/ stopper \in {"clear", "wake"}

\* Commands are handled in the order of their pushes and none of them twice,
\* whichever threads push them and however the pushes meet the drain; until the
\* loop is told to stop none is passed over either.
HandledInOrder ==
  /\ \A i, j \in DOMAIN handled : i < j => handled[i] < handled[j]
  /\ running => \A i \in DOMAIN handled : handled[i] = i

------------------------------------------------------------------------------
(* Liveness                                                                   *)

\* Every command pushed is handled, unless stop() is called or an exception, of
\* this or another command, has left the loop: then what comes later is pushed to
\* a queue that nobody pops, and _running does not show it.
EveryCommandHandled ==
  \A n \in 1 .. MaxPushes :
    pushed >= n ~> (\E i \in DOMAIN handled : handled[i] = n) \/ ~running \/ loop = "exited"

\* stop() and close() end the loop.
StopEndsLoop == ~running ~> loop = "exited"
==============================================================================
