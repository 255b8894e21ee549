----------------------------- MODULE ThreadPool -----------------------------
(* The server's thread pool: workers that wait on a condition variable for    *)
(* tasks, enqueue(), and the destructor, which lets the workers empty the     *)
(* queue and joins them.  What happens under _mutex is one step; notify_one   *)
(* and notify_all are outside it and steps of their own.  Tasks are numbered  *)
(* in the order of their pushes.                                              *)
EXTENDS Naturals, Sequences, FiniteSets

CONSTANTS
  Workers,      \* the worker threads
  Enqueuers,    \* threads that call enqueue(): in the server, the epoll thread
  MaxTasks      \* bound: tasks enqueued

ASSUME WorkersAssumption == Workers # {} /\ IsFiniteSet(Workers)
ASSUME EnqueuersAssumption == IsFiniteSet(Enqueuers)
ASSUME MaxTasksAssumption == MaxTasks \in Nat

VARIABLES
  tasks,        \* _tasks
  stop,         \* _stop
  at,           \* per worker: about to test the predicate, asleep in _cv, running a task, returned
  task,         \* per worker: the task it took last, 0 if none
  enqueuer,     \* per enqueuer: between push and notify_one?
  destructor,   \* where ~ThreadPool is
  enqueued,     \* number of tasks pushed so far
  finished,     \* the tasks that ran to their end
  aborted       \* has a task thrown out of its thread (std::terminate)?

vars == <<tasks, stop, at, task, enqueuer, destructor, enqueued, finished, aborted>>

Init ==
  /\ tasks = <<>> /\ stop = FALSE
  /\ at = [w \in Workers |-> "test"] /\ task = [w \in Workers |-> 0]
  /\ enqueuer = [e \in Enqueuers |-> "idle"] /\ destructor = "idle"
  /\ enqueued = 0 /\ finished = {} /\ aborted = FALSE

------------------------------------------------------------------------------
(* A worker                                                                   *)

\* the predicate of _cv.wait is false: the mutex is released and the thread
\* sleeps, in one step
Sleep(w) ==
  /\ at[w] = "test" /\ ~stop /\ tasks = <<>>
  /\ at' = [at EXCEPT ![w] = "asleep"]
  /\ UNCHANGED <<tasks, stop, task, enqueuer, destructor, enqueued, finished, aborted>>

\* fault: front() without pop()
TakePeek(w) ==
  /\ at[w] = "test" /\ tasks # <<>>
  /\ task' = [task EXCEPT ![w] = Head(tasks)]
  /\ at' = [at EXCEPT ![w] = "running"]
  /\ UNCHANGED <<tasks, stop, enqueuer, destructor, enqueued, finished, aborted>>

Take(w) ==
  /\ at[w] = "test" /\ tasks # <<>>
  /\ task' = [task EXCEPT ![w] = Head(tasks)]
  /\ tasks' = Tail(tasks)
  /\ at' = [at EXCEPT ![w] = "running"]
  /\ UNCHANGED <<stop, enqueuer, destructor, enqueued, finished, aborted>>

\* fault: `if (_stop) return`, whatever is queued
ReturnAtOnce(w) ==
  /\ at[w] = "test" /\ stop
  /\ at' = [at EXCEPT ![w] = "returned"]
  /\ UNCHANGED <<tasks, stop, task, enqueuer, destructor, enqueued, finished, aborted>>

Return(w) ==
  /\ at[w] = "test" /\ stop /\ tasks = <<>>
  /\ at' = [at EXCEPT ![w] = "returned"]
  /\ UNCHANGED <<tasks, stop, task, enqueuer, destructor, enqueued, finished, aborted>>

\* task() returns
Finish(w) ==
  /\ at[w] = "running"
  /\ at' = [at EXCEPT ![w] = "test"]
  /\ finished' = finished \cup {task[w]}
  /\ UNCHANGED <<tasks, stop, task, enqueuer, destructor, enqueued, aborted>>

\* task() throws: nothing in the worker catches it
Throw(w) ==
  /\ at[w] = "running" /\ aborted' = TRUE
  /\ UNCHANGED <<tasks, stop, at, task, enqueuer, destructor, enqueued, finished>>

\* _cv.wait may return without a notification, and tests again
Spurious(w) ==
  /\ at[w] = "asleep"
  /\ at' = [at EXCEPT ![w] = "test"]
  /\ UNCHANGED <<tasks, stop, task, enqueuer, destructor, enqueued, finished, aborted>>

------------------------------------------------------------------------------
(* enqueue                                                                    *)

\* faults: notify_one only when the queue was empty, and no notify_one
EnqueueNotifyIfEmpty(e) ==
  /\ enqueuer[e] = "idle" /\ destructor = "idle" /\ enqueued < MaxTasks
  /\ enqueued' = enqueued + 1
  /\ tasks' = Append(tasks, enqueued')
  /\ enqueuer' = IF tasks = <<>> THEN [enqueuer EXCEPT ![e] = "notify"] ELSE enqueuer
  /\ UNCHANGED <<stop, at, task, destructor, finished, aborted>>

EnqueueSilent(e) ==
  /\ enqueuer[e] = "idle" /\ destructor = "idle" /\ enqueued < MaxTasks
  /\ enqueued' = enqueued + 1
  /\ tasks' = Append(tasks, enqueued')
  /\ UNCHANGED <<stop, at, task, enqueuer, destructor, finished, aborted>>

\* the push, under the mutex; not once the pool is being destroyed
Enqueue(e) ==
  /\ enqueuer[e] = "idle" /\ destructor = "idle" /\ enqueued < MaxTasks
  /\ enqueued' = enqueued + 1
  /\ tasks' = Append(tasks, enqueued')
  /\ enqueuer' = [enqueuer EXCEPT ![e] = "notify"]
  /\ UNCHANGED <<stop, at, task, destructor, finished, aborted>>

\* one sleeping worker is woken, if there is one
NotifyOne(e) ==
  /\ enqueuer[e] = "notify"
  /\ enqueuer' = [enqueuer EXCEPT ![e] = "idle"]
  /\ \/ \A w \in Workers : at[w] # "asleep" /\ at' = at
     \/ \E w \in Workers : at[w] = "asleep" /\ at' = [at EXCEPT ![w] = "test"]
  /\ UNCHANGED <<tasks, stop, task, destructor, enqueued, finished, aborted>>

------------------------------------------------------------------------------
(* ~ThreadPool; no call of enqueue() is under way when it begins              *)

SetStop ==
  /\ destructor = "idle" /\ \A e \in Enqueuers : enqueuer[e] = "idle"
  /\ destructor' = "notify" /\ stop' = TRUE
  /\ UNCHANGED <<tasks, at, task, enqueuer, enqueued, finished, aborted>>

\* fault: notify_one for notify_all
NotifyAllOne ==
  /\ destructor = "notify" /\ destructor' = "join"
  /\ \/ \A w \in Workers : at[w] # "asleep" /\ at' = at
     \/ \E w \in Workers : at[w] = "asleep" /\ at' = [at EXCEPT ![w] = "test"]
  /\ UNCHANGED <<tasks, stop, task, enqueuer, enqueued, finished, aborted>>

NotifyAll ==
  /\ destructor = "notify" /\ destructor' = "join"
  /\ at' = [w \in Workers |-> IF at[w] = "asleep" THEN "test" ELSE at[w]]
  /\ UNCHANGED <<tasks, stop, task, enqueuer, enqueued, finished, aborted>>

\* the last of the joins returns
Join ==
  /\ destructor = "join" /\ \A w \in Workers : at[w] = "returned"
  /\ destructor' = "done"
  /\ UNCHANGED <<tasks, stop, at, task, enqueuer, enqueued, finished, aborted>>

------------------------------------------------------------------------------
Work(w) == Sleep(w) \/ Take(w) \/ Return(w) \/ Finish(w)
Destroy == SetStop \/ NotifyAll \/ Join

Next ==
  /\ ~aborted
  /\ \/ \E w \in Workers : Work(w) \/ Throw(w) \/ Spurious(w)
     \/ \E e \in Enqueuers : Enqueue(e) \/ NotifyOne(e)
     \/ Destroy

Spec == Init /\ [][Next]_vars

\* every thread past its first step goes on: a worker gets the mutex in the end
\* and its task ends, enqueue() notifies, the destructor finishes
FairSpec ==
  /\ Spec
  /\ \A w \in Workers : WF_vars(~aborted /\ Work(w))
  /\ \A e \in Enqueuers : WF_vars(~aborted /\ NotifyOne(e))
  /\ WF_vars(~aborted /\ (NotifyAll \/ Join))

------------------------------------------------------------------------------
\* Every variable has its type.
TypeOK ==
  /\ tasks \in Seq(Nat) /\ stop \in BOOLEAN /\ aborted \in BOOLEAN
  /\ at \in [Workers -> {"test", "asleep", "running", "returned"}]
  /\ task \in [Workers -> Nat]
  /\ enqueuer \in [Enqueuers -> {"idle", "notify"}]
  /\ destructor \in {"idle", "notify", "join", "done"}
  /\ enqueued \in Nat /\ finished \in SUBSET Nat

Testing == {w \in Workers : at[w] = "test"}
Running == {w \in Workers : at[w] = "running"}
Notifying == {e \in Enqueuers : enqueuer[e] = "notify"}

\* No worker sleeps next to a task that nobody is coming for: every task in the
\* queue has a worker on its way to the predicate or a notify_one still to come
\* (enqueue notifies once per push, outside the mutex).
WorkConserving ==
  (\E w \in Workers : at[w] = "asleep") =>
     Len(tasks) <= Cardinality(Testing) + Cardinality(Notifying)

Pool == INSTANCE Executor
        WITH Threads <- Workers, submitted <- enqueued, started <- enqueued - Len(tasks),
             running <- [w \in Workers |-> IF at[w] = "running" THEN task[w] ELSE 0],
             phase <- [idle |-> "open", notify |-> "closing",
                       join |-> "closing", done |-> "closed"][destructor]

\* However the workers meet at the queue, tasks start in the order of enqueue(),
\* each once and none passed over, and ~ThreadPool returns only when all of them
\* have ended: front and pop are one critical section, and _stop is looked at
\* together with the queue.
ImplementsExecutor == Pool!Spec

\* When ~ThreadPool returns, every task ever enqueued has run to its end: the
\* workers leave only when _tasks is empty, and the destructor joins them all.
DestroyedEmpty ==
  destructor = "done" => tasks = <<>> /\ finished = 1 .. enqueued

------------------------------------------------------------------------------
(* Liveness                                                                   *)

\* Every task enqueued runs to its end, unless some task throws.
EveryTaskRuns == \A n \in 1 .. MaxTasks : enqueued >= n ~> n \in finished \/ aborted

\* ~ThreadPool returns: no worker sleeps through notify_all.
DestructorReturns == destructor # "idle" ~> destructor = "done" \/ aborted
==============================================================================
