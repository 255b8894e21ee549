-------------------------- MODULE ThreadPoolProofs --------------------------
(* TLAPS proofs about ThreadPool, for any number of workers, of enqueuers and *)
(* of tasks.                                                                  *)
EXTENDS ThreadPool, FiniteSetTheorems, SequenceTheorems, TLAPS

------------------------------------------------------------------------------
(* The inductive invariant                                                    *)

\* the queue holds the last tasks enqueued, in order; those before them, and
\* only those, are running or finished
QueueInv ==
  LET taken == enqueued - Len(tasks) IN
    /\ taken \in Nat
    /\ \A i \in DOMAIN tasks : tasks[i] = taken + i
    /\ finished \cup {task[w] : w \in Running} = 1 .. taken

\* a worker leaves only a stopped and empty queue, and so nothing behind it; the
\* destructor returns after the last of them
ExitInv ==
  /\ stop <=> destructor # "idle"
  /\ \A w \in Workers : at[w] = "returned" => stop /\ tasks = <<>>
  /\ destructor = "done" => \A w \in Workers : at[w] = "returned"

\* No two workers run the same task, and a task that finished is not run again:
\* front and pop are one critical section.
RunOnce ==
  \A w \in Workers : at[w] = "running" =>
    /\ task[w] \notin finished
    /\ \A v \in Workers \ {w} : at[v] = "running" => task[v] # task[w]

PoolInv == QueueInv /\ ExitInv /\ RunOnce

(* What enqueue does to the queue.                                            *)
LEMMA EnqueueFacts ==
  ASSUME TypeOK, NEW e \in Enqueuers, Enqueue(e)
  PROVE  /\ tasks' \in Seq(Nat) /\ Len(tasks') = Len(tasks) + 1 /\ Len(tasks) \in Nat
         /\ DOMAIN tasks = 1 .. Len(tasks) /\ DOMAIN tasks' = 1 .. (Len(tasks) + 1)
         /\ \A i \in 1 .. Len(tasks) : tasks'[i] = tasks[i]
         /\ tasks'[Len(tasks) + 1] = enqueued + 1
         /\ enqueued' = enqueued + 1 /\ enqueued \in Nat
<1>1. tasks \in Seq(Nat) /\ enqueued + 1 \in Nat /\ enqueued \in Nat
  BY DEF TypeOK
<1>2. tasks' = Append(tasks, enqueued + 1) /\ enqueued' = enqueued + 1
  BY DEF Enqueue
<1> QED BY <1>1, <1>2, AppendProperties, LenProperties

(* What a worker takes from it.                                               *)
LEMMA TakeFacts ==
  ASSUME TypeOK, NEW w \in Workers, Take(w)
  PROVE  /\ task' = [task EXCEPT ![w] = tasks[1]] /\ tasks[1] \in Nat
         /\ tasks' \in Seq(Nat) /\ Len(tasks') = Len(tasks) - 1 /\ Len(tasks) \in Nat \ {0}
         /\ DOMAIN tasks = 1 .. Len(tasks) /\ DOMAIN tasks' = 1 .. (Len(tasks) - 1)
         /\ \A i \in 1 .. (Len(tasks) - 1) : tasks'[i] = tasks[i + 1]
<1>1. /\ tasks \in Seq(Nat) /\ tasks # <<>> /\ tasks' = Tail(tasks)
      /\ task' = [task EXCEPT ![w] = Head(tasks)]
  BY DEF TypeOK, Take
<1>2. /\ Head(tasks) \in Nat /\ Tail(tasks) \in Seq(Nat) /\ Len(Tail(tasks)) = Len(tasks) - 1
      /\ \A i \in 1 .. Len(Tail(tasks)) : Tail(tasks)[i] = tasks[i + 1]
  BY <1>1, HeadTailProperties
<1>3. Head(tasks) = tasks[1]
  BY <1>1
<1>4. Len(tasks) \in Nat \ {0} /\ DOMAIN tasks = 1 .. Len(tasks)
  BY <1>1, EmptySeq, LenProperties
<1>5. DOMAIN Tail(tasks) = 1 .. Len(Tail(tasks))
  BY <1>2, LenProperties
<1> QED BY <1>1, <1>2, <1>3, <1>4, <1>5

(* The types are inductive.                                                   *)
LEMMA TypeStep ==
  ASSUME TypeOK, [Next]_vars
  PROVE  TypeOK'
<1>1. ASSUME NEW e \in Enqueuers, Enqueue(e) PROVE TypeOK'
  <2>1. tasks' \in Seq(Nat) /\ enqueued' \in Nat
    BY <1>1, EnqueueFacts
  <2> QED BY <1>1, <2>1 DEF Enqueue, TypeOK
<1>2. ASSUME NEW w \in Workers, Take(w) PROVE TypeOK'
  <2>1. tasks' \in Seq(Nat) /\ task' \in [Workers -> Nat]
    BY <1>2, TakeFacts DEF TypeOK
  <2> QED BY <1>2, <2>1 DEF Take, TypeOK
<1>3. ASSUME NEW w \in Workers, Sleep(w) \/ Return(w) \/ Spurious(w) PROVE TypeOK'
  BY <1>3 DEF Sleep, Return, Spurious, TypeOK
<1>4. ASSUME NEW w \in Workers, Finish(w) PROVE TypeOK'
  BY <1>4 DEF Finish, TypeOK
<1>5. ASSUME NEW w \in Workers, Throw(w) PROVE TypeOK'
  BY <1>5 DEF Throw, TypeOK
<1>6. ASSUME NEW e \in Enqueuers, NotifyOne(e) PROVE TypeOK'
  <2>1. at' \in [Workers -> {"test", "asleep", "running", "returned"}]
    BY <1>6, WorkersAssumption DEF NotifyOne, TypeOK
  <2>2. enqueuer' \in [Enqueuers -> {"idle", "notify"}]
    BY <1>6 DEF NotifyOne, TypeOK
  <2> QED BY <1>6, <2>1, <2>2 DEF NotifyOne, TypeOK
<1>7. CASE SetStop
  BY <1>7 DEF SetStop, TypeOK
<1>8. CASE NotifyAll
  BY <1>8 DEF NotifyAll, TypeOK
<1>9. CASE Join
  BY <1>9 DEF Join, TypeOK
<1>10. CASE UNCHANGED vars
  BY <1>10 DEF vars, TypeOK
<1> QED BY <1>1, <1>2, <1>3, <1>4, <1>5, <1>6, <1>7, <1>8, <1>9, <1>10 DEF Next, Work, Destroy

(* The types hold in every reachable state.                                   *)
THEOREM PoolTypes == Spec => []TypeOK
<1>1. Init => TypeOK
  <2> SUFFICES ASSUME Init PROVE TypeOK
    OBVIOUS
  <2>1. tasks \in Seq(Nat) /\ stop \in BOOLEAN /\ aborted \in BOOLEAN
    <3>1. tasks = <<>> /\ stop = FALSE /\ aborted = FALSE
      BY DEF Init
    <3>2. tasks \in Seq(Nat)
      BY <3>1
    <3> QED BY <3>1, <3>2
  <2>2. at \in [Workers -> {"test", "asleep", "running", "returned"}] /\ task \in [Workers -> Nat]
    BY DEF Init
  <2>3. enqueuer \in [Enqueuers -> {"idle", "notify"}] /\ finished \subseteq Nat
    BY DEF Init
  <2> QED BY <2>1, <2>2, <2>3 DEF Init, TypeOK
<1>2. TypeOK /\ [Next]_vars => TypeOK'
  BY TypeStep
<1> QED BY <1>1, <1>2, PTL DEF Spec

------------------------------------------------------------------------------
(* Work conservation                                                          *)

LEMMA CountFacts ==
  /\ IsFiniteSet(Testing) /\ IsFiniteSet(Notifying)
  /\ Cardinality(Testing) \in Nat /\ Cardinality(Notifying) \in Nat
BY WorkersAssumption, EnqueuersAssumption, FS_Subset, FS_CardinalityType DEF Testing, Notifying

LEMMA ConservingStep ==
  ASSUME TypeOK, WorkConserving, [Next]_vars
  PROVE  WorkConserving'
<1>0. /\ IsFiniteSet(Testing) /\ IsFiniteSet(Notifying)
      /\ Cardinality(Testing) \in Nat /\ Cardinality(Notifying) \in Nat
      /\ Cardinality(Testing') \in Nat /\ Cardinality(Notifying') \in Nat
  <2>1. Testing' \subseteq Workers /\ Notifying' \subseteq Enqueuers
    BY DEF Testing, Notifying
  <2>2. Cardinality(Testing') \in Nat /\ Cardinality(Notifying') \in Nat
    BY <2>1, WorkersAssumption, EnqueuersAssumption, FS_Subset, FS_CardinalityType
  <2> QED BY <2>2, CountFacts
<1>1. ASSUME NEW e \in Enqueuers, Enqueue(e) PROVE WorkConserving'
  <2>1. Testing' = Testing /\ Notifying' = Notifying \cup {e} /\ e \notin Notifying
    BY <1>1 DEF Enqueue, Testing, Notifying, TypeOK
  <2>2. Cardinality(Notifying') = Cardinality(Notifying) + 1
    BY <1>0, <2>1, FS_AddElement
  <2>3. Len(tasks') = Len(tasks) + 1 /\ Len(tasks) \in Nat
    BY <1>1, EnqueueFacts
  <2>4. UNCHANGED at
    BY <1>1 DEF Enqueue
  <2> QED BY <1>0, <2>1, <2>2, <2>3, <2>4 DEF WorkConserving
<1>2. ASSUME NEW w \in Workers, Take(w) PROVE WorkConserving'
  <2>1. Testing' = Testing \ {w} /\ w \in Testing /\ Notifying' = Notifying
        /\ \A v \in Workers : at'[v] = "asleep" => at[v] = "asleep"
    BY <1>2 DEF Take, Testing, Notifying, TypeOK
  <2>2. Cardinality(Testing') = Cardinality(Testing) - 1
    BY <1>0, <2>1, FS_RemoveElement
  <2>3. Len(tasks') = Len(tasks) - 1 /\ Len(tasks) \in Nat
    BY <1>2, TakeFacts
  <2> QED BY <1>0, <2>1, <2>2, <2>3 DEF WorkConserving
<1>3. ASSUME NEW w \in Workers, Sleep(w) \/ Return(w) PROVE WorkConserving'
  <2>1. tasks' = <<>>
    BY <1>3 DEF Sleep, Return
  <2>2. Len(tasks') = 0
    BY <2>1, EmptySeq
  <2> QED BY <1>0, <2>2 DEF WorkConserving
<1>4. ASSUME NEW w \in Workers, at[w] # "test", at' = [at EXCEPT ![w] = "test"],
             Notifying' = Notifying, UNCHANGED tasks
      PROVE  WorkConserving'
  <2>1. Testing' = Testing \cup {w} /\ w \notin Testing
        /\ \A v \in Workers : at'[v] = "asleep" => at[v] = "asleep"
    BY <1>4 DEF Testing, TypeOK
  <2>2. Cardinality(Testing') = Cardinality(Testing) + 1
    BY <1>0, <2>1, FS_AddElement
  <2>3. Len(tasks) \in Nat
    BY LenProperties DEF TypeOK
  <2> QED BY <1>0, <1>4, <2>1, <2>2, <2>3 DEF WorkConserving
<1>5. ASSUME NEW w \in Workers, Finish(w) \/ Spurious(w) PROVE WorkConserving'
  BY <1>4, <1>5 DEF Finish, Spurious, Notifying
<1>6. ASSUME NEW e \in Enqueuers, NotifyOne(e) PROVE WorkConserving'
  <2>1. Notifying' = Notifying \ {e} /\ e \in Notifying /\ UNCHANGED tasks
    BY <1>6 DEF NotifyOne, Notifying, TypeOK
  <2>2. Cardinality(Notifying') = Cardinality(Notifying) - 1
    BY <1>0, <2>1, FS_RemoveElement
  <2>3. CASE \A w \in Workers : at[w] # "asleep" /\ at' = at
    BY <2>3, WorkersAssumption DEF WorkConserving
  <2>4. CASE \E w \in Workers : at[w] = "asleep" /\ at' = [at EXCEPT ![w] = "test"]
    <3>1. PICK w \in Workers : at[w] = "asleep" /\ at' = [at EXCEPT ![w] = "test"]
      BY <2>4
    <3>2. Testing' = Testing \cup {w} /\ w \notin Testing
      BY <3>1 DEF Testing, TypeOK
    <3>3. Cardinality(Testing') = Cardinality(Testing) + 1
      BY <1>0, <3>2, FS_AddElement
    <3>4. Len(tasks) \in Nat
      BY LenProperties DEF TypeOK
    <3> QED BY <1>0, <2>1, <2>2, <3>1, <3>3, <3>4 DEF WorkConserving
  <2> QED BY <1>6, <2>3, <2>4 DEF NotifyOne
<1>7. CASE NotifyAll
  <2>1. \A w \in Workers : at'[w] # "asleep"
    BY <1>7 DEF NotifyAll
  <2> QED BY <2>1 DEF WorkConserving
<1>8. ASSUME UNCHANGED <<tasks, at, enqueuer>> PROVE WorkConserving'
  BY <1>8 DEF WorkConserving, Testing, Notifying
<1>9. CASE SetStop \/ Join \/ (\E w \in Workers : Throw(w)) \/ UNCHANGED vars
  BY <1>8, <1>9 DEF SetStop, Join, Throw, vars
<1> QED BY <1>1, <1>2, <1>3, <1>5, <1>6, <1>7, <1>9 DEF Next, Work, Destroy

(* No worker sleeps next to a task that nobody is coming for.                 *)
THEOREM PoolConservesWork == Spec => []WorkConserving
<1>1. Init => WorkConserving
  BY DEF Init, WorkConserving
<1>2. TypeOK /\ WorkConserving /\ [Next]_vars => WorkConserving'
  BY ConservingStep
<1> QED BY <1>1, <1>2, PoolTypes, PTL DEF Spec

------------------------------------------------------------------------------
(* Every task once, and all of them before the pool is gone                   *)

(* Taking the first task makes one more task taken.                           *)
LEMMA PoolTake ==
  ASSUME TypeOK, PoolInv, NEW w \in Workers, Take(w)
  PROVE  PoolInv'
<1> DEFINE n == Len(tasks)
           taken == enqueued - n
<1>1. /\ task' = [task EXCEPT ![w] = tasks[1]] /\ tasks[1] \in Nat
      /\ Len(tasks') = n - 1 /\ n \in Nat \ {0}
      /\ DOMAIN tasks = 1 .. n /\ DOMAIN tasks' = 1 .. (n - 1)
      /\ \A i \in 1 .. (n - 1) : tasks'[i] = tasks[i + 1]
  BY TakeFacts
<1>2. /\ at[w] = "test" /\ at' = [at EXCEPT ![w] = "running"] /\ tasks # <<>>
      /\ UNCHANGED <<stop, destructor, enqueued, finished>>
  BY DEF Take
<1>3. /\ at \in [Workers -> {"test", "asleep", "running", "returned"}]
      /\ task \in [Workers -> Nat] /\ enqueued \in Nat
  BY DEF TypeOK
<1>4. /\ taken \in Nat /\ \A i \in 1 .. n : tasks[i] = taken + i
      /\ finished \cup {task[v] : v \in Running} = 1 .. taken
  BY <1>1 DEF PoolInv, QueueInv
<1>5. tasks[1] = taken + 1
  BY <1>1, <1>4
<1>6. enqueued' - Len(tasks') = taken + 1
  BY <1>1, <1>2, <1>3
<1> HIDE DEF n, taken
<1>7. Running' = Running \cup {w} /\ w \notin Running
  BY <1>2, <1>3 DEF Running
<1>8. {task'[v] : v \in Running'} = {task[v] : v \in Running} \cup {taken + 1}
  <2>1. \A v \in Running : v \in Workers /\ task'[v] = task[v]
    BY <1>1, <1>3, <1>7 DEF Running
  <2>2. task'[w] = taken + 1
    BY <1>1, <1>3, <1>5
  <2> QED BY <1>7, <2>1, <2>2
<1>9. 1 .. (taken + 1) = (1 .. taken) \cup {taken + 1}
  BY <1>4
<1>10. QueueInv'
  <2>1. \A i \in 1 .. (n - 1) : tasks'[i] = (taken + 1) + i
    <3> TAKE i \in 1 .. (n - 1)
    <3>1. i + 1 \in 1 .. n /\ tasks'[i] = tasks[i + 1]
      BY <1>1
    <3>2. tasks[i + 1] = taken + (i + 1)
      BY <1>4, <3>1
    <3> QED BY <1>1, <1>4, <3>1, <3>2
  <2>2. finished' \cup {task'[v] : v \in Running'} = 1 .. (taken + 1)
    BY <1>2, <1>4, <1>8, <1>9
  <2>3. taken + 1 \in Nat
    BY <1>4
  <2> QED BY <1>1, <1>6, <2>1, <2>2, <2>3 DEF QueueInv
<1>11. ExitInv'
  BY <1>2, <1>3 DEF PoolInv, ExitInv
<1>12. RunOnce'
  <2>1. /\ taken + 1 \notin finished
        /\ \A v \in Workers : at[v] = "running" => task[v] # taken + 1
    BY <1>4 DEF Running
  <2>2. task'[w] = taken + 1 /\ \A v \in Workers \ {w} : task'[v] = task[v] /\ at'[v] = at[v]
    BY <1>1, <1>2, <1>3, <1>5
  <2> QED BY <1>2, <2>1, <2>2 DEF PoolInv, RunOnce
<1> QED BY <1>10, <1>11, <1>12 DEF PoolInv

(* A task that ends moves from the running ones to the finished ones.         *)
LEMMA PoolFinish ==
  ASSUME TypeOK, PoolInv, NEW w \in Workers, Finish(w)
  PROVE  PoolInv'
<1>1. /\ at[w] = "running" /\ at' = [at EXCEPT ![w] = "test"]
      /\ finished' = finished \cup {task[w]}
      /\ UNCHANGED <<tasks, stop, task, destructor, enqueued>>
  BY DEF Finish
<1>2. at \in [Workers -> {"test", "asleep", "running", "returned"}]
  BY DEF TypeOK
<1>3. Running = Running' \cup {w}
  BY <1>1, <1>2 DEF Running
<1>4. finished' \cup {task'[v] : v \in Running'} = finished \cup {task[v] : v \in Running}
  BY <1>1, <1>3
<1>5. QueueInv'
  BY <1>1, <1>4 DEF PoolInv, QueueInv
<1>6. ExitInv'
  BY <1>1, <1>2 DEF PoolInv, ExitInv
<1>7. RunOnce'
  BY <1>1, <1>2 DEF PoolInv, RunOnce
<1> QED BY <1>5, <1>6, <1>7 DEF PoolInv

(* A push leaves the tasks taken as they are.                                 *)
LEMMA PoolEnqueue ==
  ASSUME TypeOK, PoolInv, NEW e \in Enqueuers, Enqueue(e)
  PROVE  PoolInv'
<1>1. /\ UNCHANGED <<stop, at, task, destructor, finished>> /\ destructor = "idle"
  BY DEF Enqueue
<1>2. /\ Len(tasks') = Len(tasks) + 1 /\ Len(tasks) \in Nat
      /\ DOMAIN tasks = 1 .. Len(tasks) /\ DOMAIN tasks' = 1 .. (Len(tasks) + 1)
      /\ \A i \in 1 .. Len(tasks) : tasks'[i] = tasks[i]
      /\ tasks'[Len(tasks) + 1] = enqueued + 1
      /\ enqueued' = enqueued + 1 /\ enqueued \in Nat
  BY EnqueueFacts
<1>3. enqueued' - Len(tasks') = enqueued - Len(tasks)
  BY <1>2
<1>4. \A i \in 1 .. (Len(tasks) + 1) : tasks'[i] = (enqueued - Len(tasks)) + i
  <2>1. \A i \in 1 .. Len(tasks) : tasks[i] = (enqueued - Len(tasks)) + i
    BY <1>2 DEF PoolInv, QueueInv
  <2> QED BY <1>2, <2>1
<1>5. Running' = Running
  BY <1>1 DEF Running
<1>6. QueueInv'
  BY <1>1, <1>2, <1>3, <1>4, <1>5 DEF PoolInv, QueueInv
<1>7. ExitInv'
  BY <1>1, <1>2 DEF PoolInv, ExitInv
<1>8. RunOnce'
  BY <1>1 DEF PoolInv, RunOnce
<1> QED BY <1>6, <1>7, <1>8 DEF PoolInv

(* Steps that neither take nor end a task keep its place.                     *)
LEMMA PoolQuiet ==
  ASSUME TypeOK, PoolInv, UNCHANGED <<tasks, task, enqueued, finished>>, ExitInv',
         \A w \in Workers : at'[w] = "running" <=> at[w] = "running"
  PROVE  PoolInv'
<1>1. Running' = Running
  BY DEF Running
<1>2. QueueInv'
  BY <1>1 DEF PoolInv, QueueInv
<1>3. RunOnce'
  BY DEF PoolInv, RunOnce
<1> QED BY <1>2, <1>3 DEF PoolInv

LEMMA PoolStep ==
  ASSUME TypeOK, PoolInv, [Next]_vars
  PROVE  PoolInv'
<1>0. /\ at \in [Workers -> {"test", "asleep", "running", "returned"}] /\ ExitInv
      /\ stop \in BOOLEAN
  BY DEF TypeOK, PoolInv
<1>1. ASSUME NEW w \in Workers, Sleep(w) \/ Return(w) \/ Spurious(w) PROVE PoolInv'
  <2>1. ExitInv'
    BY <1>0, <1>1 DEF Sleep, Return, Spurious, ExitInv
  <2> QED BY <1>0, <1>1, <2>1, PoolQuiet DEF Sleep, Return, Spurious
<1>2. ASSUME NEW e \in Enqueuers, NotifyOne(e) PROVE PoolInv'
  <2>1. CASE at' = at
    <3>1. ExitInv'
      BY <1>0, <1>2, <2>1 DEF NotifyOne, ExitInv
    <3> QED BY <1>2, <2>1, <3>1, PoolQuiet DEF NotifyOne
  <2>2. CASE \E w \in Workers : at[w] = "asleep" /\ at' = [at EXCEPT ![w] = "test"]
    <3>1. ExitInv'
      BY <1>0, <1>2, <2>2 DEF NotifyOne, ExitInv
    <3> QED BY <1>0, <1>2, <2>2, <3>1, PoolQuiet DEF NotifyOne
  <2> QED BY <1>2, <2>1, <2>2, WorkersAssumption DEF NotifyOne
<1>3. CASE SetStop \/ NotifyAll \/ Join
  <2>1. ExitInv'
    BY <1>0, <1>3 DEF SetStop, NotifyAll, Join, ExitInv
  <2> QED BY <1>0, <1>3, <2>1, PoolQuiet DEF SetStop, NotifyAll, Join
<1>4. CASE (\E w \in Workers : Throw(w)) \/ UNCHANGED vars
  <2>1. UNCHANGED <<tasks, stop, at, task, destructor, enqueued, finished>>
    BY <1>4 DEF Throw, vars
  <2>2. ExitInv'
    BY <1>0, <2>1 DEF ExitInv
  <2> QED BY <2>1, <2>2, PoolQuiet
<1> QED BY <1>1, <1>2, <1>3, <1>4, PoolTake, PoolFinish, PoolEnqueue DEF Next, Work, Destroy

LEMMA PoolInit == Init => PoolInv
<1> SUFFICES ASSUME Init PROVE PoolInv
  OBVIOUS
<1>1. Running = {} /\ finished = {} /\ enqueued = 0 /\ tasks = <<>>
  BY DEF Init, Running
<1>2. QueueInv
  BY <1>1, EmptySeq DEF QueueInv
<1>3. ExitInv /\ RunOnce
  BY DEF Init, ExitInv, RunOnce
<1> QED BY <1>2, <1>3 DEF PoolInv

(* Where every task is, in every reachable state.                             *)
THEOREM PoolInvariant == Spec => []PoolInv
<1>1. TypeOK /\ PoolInv /\ [Next]_vars => PoolInv'
  BY PoolStep
<1> QED BY <1>1, PoolInit, PoolTypes, PTL DEF Spec

(* No task runs twice, and no two workers run the same one.                   *)
THEOREM TasksRunOnce == Spec => []RunOnce
<1>1. PoolInv => RunOnce
  BY DEF PoolInv
<1> QED BY <1>1, PoolInvariant, PTL

(* When the destructor has returned, every task enqueued has run to its end.  *)
THEOREM DestructorDrains == Spec => []DestroyedEmpty
<1>1. TypeOK /\ PoolInv => DestroyedEmpty
  <2> SUFFICES ASSUME TypeOK, PoolInv, destructor = "done"
               PROVE  tasks = <<>> /\ finished = 1 .. enqueued
    BY DEF DestroyedEmpty
  <2>1. Running = {} /\ tasks = <<>>
    BY WorkersAssumption DEF PoolInv, ExitInv, Running
  <2>2. Len(tasks) = 0 /\ enqueued \in Nat
    BY <2>1, EmptySeq DEF TypeOK
  <2>3. finished = 1 .. (enqueued - Len(tasks))
    BY <2>1 DEF PoolInv, QueueInv
  <2> QED BY <2>1, <2>2, <2>3
<1> QED BY <1>1, PoolTypes, PoolInvariant, PTL

------------------------------------------------------------------------------
(* The pool is an executor                                                    *)

(* What an executor sees of the pool, step by step.                           *)
LEMMA EnqueueSubmits ==
  ASSUME TypeOK, NEW e \in Enqueuers, Enqueue(e)
  PROVE  Pool!Submit
<1>1. /\ destructor = "idle" /\ UNCHANGED <<at, task, destructor>>
  BY DEF Enqueue
<1>2. /\ Len(tasks') = Len(tasks) + 1 /\ Len(tasks) \in Nat
      /\ enqueued' = enqueued + 1 /\ enqueued \in Nat
  BY EnqueueFacts
<1>3. enqueued' - Len(tasks') = enqueued - Len(tasks)
  BY <1>2
<1> QED BY <1>1, <1>2, <1>3 DEF Pool!Submit

LEMMA TakeStarts ==
  ASSUME TypeOK, QueueInv, NEW w \in Workers, Take(w)
  PROVE  Pool!Start(w)
<1>1. /\ at[w] = "test" /\ at' = [at EXCEPT ![w] = "running"]
      /\ UNCHANGED <<destructor, enqueued>>
  BY DEF Take
<1>2. /\ at \in [Workers -> {"test", "asleep", "running", "returned"}]
      /\ task \in [Workers -> Nat] /\ enqueued \in Nat
  BY DEF TypeOK
<1>3. /\ task' = [task EXCEPT ![w] = tasks[1]]
      /\ Len(tasks') = Len(tasks) - 1 /\ Len(tasks) \in Nat \ {0}
      /\ DOMAIN tasks = 1 .. Len(tasks)
  BY TakeFacts
<1>4. tasks[1] = (enqueued - Len(tasks)) + 1
  BY <1>3 DEF QueueInv
<1>5. /\ enqueued - Len(tasks) < enqueued
      /\ enqueued' - Len(tasks') = (enqueued - Len(tasks)) + 1
  BY <1>1, <1>2, <1>3
<1> QED BY <1>1, <1>2, <1>3, <1>4, <1>5 DEF Pool!Start

LEMMA FinishEnds ==
  ASSUME TypeOK, QueueInv, NEW w \in Workers, Finish(w)
  PROVE  Pool!End(w)
<1>1. /\ at[w] = "running" /\ at' = [at EXCEPT ![w] = "test"]
      /\ UNCHANGED <<tasks, task, destructor, enqueued>>
  BY DEF Finish
<1>2. at \in [Workers -> {"test", "asleep", "running", "returned"}]
  BY DEF TypeOK
<1>3. task[w] # 0
  BY <1>1 DEF QueueInv, Running
<1> QED BY <1>1, <1>2, <1>3 DEF Pool!End

LEMMA JoinCloses ==
  ASSUME TypeOK, ExitInv, Join
  PROVE  Pool!Closed
<1>1. /\ destructor = "join" /\ destructor' = "done"
      /\ UNCHANGED <<tasks, at, task, enqueued>>
      /\ \A w \in Workers : at[w] = "returned"
  BY DEF Join
<1>2. tasks = <<>>
  BY <1>1, WorkersAssumption DEF ExitInv
<1>3. Len(tasks) = 0 /\ enqueued \in Nat
  BY <1>2, EmptySeq DEF TypeOK
<1> QED BY <1>1, <1>3 DEF Pool!Closed

(* The other steps are none of an executor's.                                 *)
LEMMA PoolUnseen ==
  ASSUME UNCHANGED <<tasks, task, enqueued>>,
         \A w \in Workers : at'[w] = "running" <=> at[w] = "running",
         \/ UNCHANGED destructor
         \/ destructor = "notify" /\ destructor' = "join"
  PROVE  UNCHANGED Pool!vars
BY DEF Pool!vars

LEMMA ExecutorStep ==
  ASSUME TypeOK, PoolInv, [Next]_vars
  PROVE  [Pool!Next]_(Pool!vars)
<1>0. /\ at \in [Workers -> {"test", "asleep", "running", "returned"}]
      /\ QueueInv /\ ExitInv
  BY DEF TypeOK, PoolInv
<1>1. ASSUME NEW w \in Workers, Sleep(w) \/ Return(w) \/ Spurious(w) PROVE UNCHANGED Pool!vars
  <2>1. \A v \in Workers : at'[v] = "running" <=> at[v] = "running"
    BY <1>0, <1>1 DEF Sleep, Return, Spurious
  <2> QED BY <1>1, <2>1, PoolUnseen DEF Sleep, Return, Spurious
<1>2. ASSUME NEW e \in Enqueuers, NotifyOne(e) PROVE UNCHANGED Pool!vars
  <2>1. \A v \in Workers : at'[v] = "running" <=> at[v] = "running"
    BY <1>0, <1>2, WorkersAssumption DEF NotifyOne
  <2> QED BY <1>2, <2>1, PoolUnseen DEF NotifyOne
<1>3. CASE NotifyAll
  <2>1. \A v \in Workers : at'[v] = "running" <=> at[v] = "running"
    BY <1>0, <1>3 DEF NotifyAll
  <2> QED BY <1>3, <2>1, PoolUnseen DEF NotifyAll
<1>4. CASE (\E w \in Workers : Throw(w)) \/ UNCHANGED vars
  <2>1. \A v \in Workers : at'[v] = "running" <=> at[v] = "running"
    BY <1>4 DEF Throw, vars
  <2> QED BY <1>4, <2>1, PoolUnseen DEF Throw, vars
<1>5. CASE SetStop
  BY <1>5 DEF SetStop, Pool!Close, Pool!Next
<1>6. ASSUME NEW e \in Enqueuers, Enqueue(e) PROVE Pool!Next
  BY <1>6, EnqueueSubmits DEF Pool!Next
<1>7. ASSUME NEW w \in Workers, Take(w) PROVE Pool!Next
  BY <1>0, <1>7, TakeStarts DEF Pool!Next
<1>8. ASSUME NEW w \in Workers, Finish(w) PROVE Pool!Next
  BY <1>0, <1>8, FinishEnds DEF Pool!Next
<1>9. CASE Join
  BY <1>0, <1>9, JoinCloses DEF Pool!Next
<1> QED BY <1>1, <1>2, <1>3, <1>4, <1>5, <1>6, <1>7, <1>8, <1>9 DEF Next, Work, Destroy

(* The pool implements Executor, for every number of workers, of threads that *)
(* enqueue and of tasks: they start in the order of enqueue(), each once, and *)
(* ~ThreadPool returns after the end of the last.                             *)
THEOREM PoolIsExecutor == Spec => ImplementsExecutor
<1>1. Init => Pool!Init
  <2> SUFFICES ASSUME Init PROVE Pool!Init
    OBVIOUS
  <2>1. Len(tasks) = 0 /\ enqueued = 0
    BY EmptySeq DEF Init
  <2>2. enqueued - Len(tasks) = 0
    BY <2>1
  <2> QED BY <2>2 DEF Init, Pool!Init
<1>2. TypeOK /\ PoolInv /\ [Next]_vars => [Pool!Next]_(Pool!vars)
  BY ExecutorStep
<1> QED BY <1>1, <1>2, PoolTypes, PoolInvariant, PTL DEF Spec, ImplementsExecutor, Pool!Spec

------------------------------------------------------------------------------
(* The pool does not get stuck: what there is to say about EveryTaskRuns and  *)
(* DestructorReturns without fairness                                         *)

\* nobody is asleep any more when notify_all has been called, and nobody goes
\* to sleep again
AwakeInv == destructor \in {"join", "done"} => \A w \in Workers : at[w] # "asleep"

\* While a task is queued or ~ThreadPool is on its way, and no task has thrown,
\* some thread has a step to take that needs no other thread: a worker is about
\* to test the predicate or runs a task, an enqueue() or the destructor has its
\* notification to send, or every join can return.  Not everybody waits.
SomeoneGoesOn ==
  tasks # <<>> \/ destructor \notin {"idle", "done"} =>
    \/ \E w \in Workers : at[w] \in {"test", "running"}
    \/ \E e \in Enqueuers : enqueuer[e] = "notify"
    \/ destructor = "notify"
    \/ destructor = "join" /\ \A w \in Workers : at[w] = "returned"

LEMMA AwakeStep ==
  ASSUME TypeOK, ExitInv, AwakeInv, [Next]_vars
  PROVE  AwakeInv'
<1>0. /\ at \in [Workers -> {"test", "asleep", "running", "returned"}]
      /\ stop <=> destructor # "idle"
  BY DEF TypeOK, ExitInv
<1>1. ASSUME NEW w \in Workers, Work(w) \/ Throw(w) \/ Spurious(w) PROVE AwakeInv'
  BY <1>0, <1>1 DEF Work, Sleep, Take, Return, Finish, Throw, Spurious, AwakeInv
<1>2. ASSUME NEW e \in Enqueuers, Enqueue(e) PROVE AwakeInv'
  BY <1>2 DEF Enqueue, AwakeInv
<1>3. ASSUME NEW e \in Enqueuers, NotifyOne(e) PROVE AwakeInv'
  BY <1>0, <1>3, WorkersAssumption DEF NotifyOne, AwakeInv
<1>4. CASE SetStop \/ NotifyAll \/ Join
  BY <1>0, <1>4 DEF SetStop, NotifyAll, Join, AwakeInv
<1>5. CASE UNCHANGED vars
  BY <1>5 DEF vars, AwakeInv
<1> QED BY <1>1, <1>2, <1>3, <1>4, <1>5 DEF Next, Destroy

(* As long as there is something to do, some thread is on its way to do it.   *)
THEOREM PoolNeverStuck == Spec => []SomeoneGoesOn
<1>1. Init => AwakeInv
  BY DEF Init, AwakeInv
<1>2. TypeOK /\ PoolInv /\ AwakeInv /\ [Next]_vars => AwakeInv'
  BY AwakeStep DEF PoolInv
<1>3. TypeOK /\ PoolInv /\ AwakeInv /\ WorkConserving => SomeoneGoesOn
  <2> SUFFICES ASSUME TypeOK, ExitInv, AwakeInv, WorkConserving,
                      \A w \in Workers : at[w] \notin {"test", "running"},
                      \A e \in Enqueuers : enqueuer[e] # "notify",
                      destructor # "notify",
                      tasks # <<>> \/ destructor = "join"
               PROVE  destructor = "join" /\ \A w \in Workers : at[w] = "returned"
    BY DEF TypeOK, PoolInv, SomeoneGoesOn
  <2>1. \A w \in Workers : at[w] \in {"asleep", "returned"}
    BY DEF TypeOK
  <2>2. CASE tasks # <<>>
    <3>1. Len(tasks) \in Nat \ {0}
      BY <2>2, EmptySeq, LenProperties DEF TypeOK
    <3>2. Testing = {} /\ Notifying = {}
      BY DEF Testing, Notifying
    <3>3. Cardinality(Testing) + Cardinality(Notifying) = 0
      BY <3>2, FS_EmptySet
    <3>4. \A w \in Workers : at[w] = "returned"
      BY <2>1, <3>1, <3>3 DEF WorkConserving
    <3> QED BY <2>2, <3>4, WorkersAssumption DEF ExitInv
  <2>3. CASE destructor = "join"
    BY <2>1, <2>3 DEF AwakeInv
  <2> QED BY <2>2, <2>3
<1> QED BY <1>1, <1>2, <1>3, PoolTypes, PoolInvariant, PoolConservesWork, PTL DEF Spec
==============================================================================
