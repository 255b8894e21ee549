---------------------------- MODULE MailboxProofs ----------------------------
(* TLAPS proofs about Mailbox, for any set of producers and any number of     *)
(* commands.                                                                  *)
EXTENDS Mailbox, SequenceTheorems, TLAPS

------------------------------------------------------------------------------
(* The inductive invariant                                                    *)

\* what is popped and what is queued come after what is handled, in order
QueueInv ==
  /\ loop = "handle" => current # 0
  /\ current # 0 => loop \in {"handle", "exited"}
  /\ current <= pushed
  /\ \A i \in DOMAIN queue : current < queue[i] /\ queue[i] <= pushed
  /\ \A j \in DOMAIN handled : handled[j] <= pushed /\ (current # 0 => handled[j] < current)
  /\ \A i, j \in DOMAIN queue : i < j => queue[i] < queue[j]
  /\ \A i \in DOMAIN queue : \A j \in DOMAIN handled : handled[j] < queue[i]

\* until the loop is told to stop they are consecutive numbers
InFlight == Len(handled) + (IF current = 0 THEN 0 ELSE 1)

GapFreeInv ==
  /\ stopper = "clear" => ~running
  /\ running => /\ current \in {0, Len(handled) + 1}
                /\ pushed = InFlight + Len(queue)
                /\ \A i \in DOMAIN queue : queue[i] = InFlight + i

(* What push does to the queue.                                               *)
LEMMA PushFacts ==
  ASSUME TypeOK, NEW p \in Producers, Push(p)
  PROVE  /\ queue' \in Seq(Nat) /\ Len(queue') = Len(queue) + 1 /\ Len(queue) \in Nat
         /\ DOMAIN queue = 1 .. Len(queue) /\ DOMAIN queue' = 1 .. (Len(queue) + 1)
         /\ \A i \in 1 .. Len(queue) : queue'[i] = queue[i]
         /\ queue'[Len(queue) + 1] = pushed + 1 /\ pushed' = pushed + 1 /\ pushed \in Nat
<1>1. queue \in Seq(Nat) /\ pushed + 1 \in Nat /\ pushed \in Nat
  BY DEF TypeOK
<1>2. queue' = Append(queue, pushed + 1) /\ pushed' = pushed + 1
  BY DEF Push
<1> QED BY <1>1, <1>2, AppendProperties, LenProperties

(* What tryPop does to a queue that is not empty.                             *)
LEMMA PopFacts ==
  ASSUME TypeOK, TryPop, queue # <<>>
  PROVE  /\ current' = queue[1] /\ current' \in Nat
         /\ queue' \in Seq(Nat) /\ Len(queue') = Len(queue) - 1 /\ Len(queue) \in Nat \ {0}
         /\ DOMAIN queue = 1 .. Len(queue) /\ DOMAIN queue' = 1 .. (Len(queue) - 1)
         /\ \A i \in 1 .. (Len(queue) - 1) : queue'[i] = queue[i + 1]
<1>1. queue \in Seq(Nat) /\ queue' = Tail(queue) /\ current' = Head(queue)
  BY DEF TypeOK, TryPop
<1>2. /\ Head(queue) \in Nat /\ Tail(queue) \in Seq(Nat) /\ Len(Tail(queue)) = Len(queue) - 1
      /\ \A i \in 1 .. Len(Tail(queue)) : Tail(queue)[i] = queue[i + 1]
  BY <1>1, HeadTailProperties
<1>3. Head(queue) = queue[1]
  BY <1>1
<1>4. Len(queue) \in Nat \ {0} /\ DOMAIN queue = 1 .. Len(queue)
  BY <1>1, EmptySeq, LenProperties
<1>5. DOMAIN Tail(queue) = 1 .. Len(Tail(queue))
  BY <1>2, LenProperties
<1> QED BY <1>1, <1>2, <1>3, <1>4, <1>5

(* What handling a command does to the history.                               *)
LEMMA HandleFacts ==
  ASSUME TypeOK, Handle
  PROVE  /\ handled' \in Seq(Nat) /\ Len(handled') = Len(handled) + 1 /\ Len(handled) \in Nat
         /\ DOMAIN handled = 1 .. Len(handled) /\ DOMAIN handled' = 1 .. (Len(handled) + 1)
         /\ \A i \in 1 .. Len(handled) : handled'[i] = handled[i]
         /\ handled'[Len(handled) + 1] = current /\ current' = 0 /\ current \in Nat
<1>1. handled \in Seq(Nat) /\ current \in Nat
  BY DEF TypeOK
<1>2. handled' = Append(handled, current) /\ current' = 0
  BY DEF Handle
<1> QED BY <1>1, <1>2, AppendProperties, LenProperties

(* The types are inductive.                                                   *)
LEMMA TypeInit == Init => TypeOK
BY DEF Init, TypeOK

LEMMA TypeStep ==
  ASSUME TypeOK, [Next]_vars
  PROVE  TypeOK'
<1>1. CASE \E p \in Producers : Push(p)
  <2>1. PICK p \in Producers : Push(p)
    BY <1>1
  <2>2. queue' \in Seq(Nat) /\ pushed' \in Nat
    BY <2>1, PushFacts
  <2> QED BY <2>1, <2>2 DEF Push, TypeOK
<1>2. CASE \E p \in Producers : Wake(p)
  BY <1>2 DEF Wake, TypeOK
<1>3. CASE StopperStep
  <2>1. CASE StopRunning
    BY <2>1 DEF StopRunning, TypeOK
  <2>2. CASE StopClear
    <3>1. <<>> \in Seq(Nat)
      OBVIOUS
    <3> QED BY <2>2, <3>1 DEF StopClear, TypeOK
  <2>3. CASE StopWake
    BY <2>3 DEF StopWake, TypeOK
  <2> QED BY <1>3, <2>1, <2>2, <2>3 DEF StopperStep
<1>4. CASE Check \/ Awake \/ AwakeElsewhere \/ Read
  BY <1>4 DEF Check, Awake, AwakeElsewhere, Read, TypeOK
<1>5. CASE TryPop
  <2>1. CASE queue = <<>>
    BY <1>5, <2>1 DEF TryPop, TypeOK
  <2>2. CASE queue # <<>>
    <3>1. queue' \in Seq(Nat) /\ current' \in Nat
      BY <1>5, <2>2, PopFacts
    <3> QED BY <1>5, <2>2, <3>1 DEF TryPop, TypeOK
  <2> QED BY <2>1, <2>2
<1>6. CASE Handle
  <2>1. handled' \in Seq(Nat) /\ current' \in Nat
    BY <1>6, HandleFacts
  <2> QED BY <1>6, <2>1 DEF Handle, TypeOK
<1>7. CASE HandleThrows \/ UNCHANGED vars
  BY <1>7 DEF HandleThrows, vars, TypeOK
<1> QED BY <1>1, <1>2, <1>3, <1>4, <1>5, <1>6, <1>7 DEF Next, ProducerStep, LoopStep

(* The types hold in every reachable state.                                   *)
THEOREM MailboxTypes == Spec => []TypeOK
<1>1. TypeOK /\ [Next]_vars => TypeOK'
  BY TypeStep
<1> QED BY <1>1, TypeInit, PTL DEF Spec

------------------------------------------------------------------------------
(* No lost wakeup                                                             *)

LEMMA WakeupStep ==
  ASSUME TypeOK, NoLostWakeup, NoLostStop, [Next]_vars
  PROVE  NoLostWakeup' /\ NoLostStop'
<1> USE DEF NoLostWakeup, NoLostStop, Waking
<1>1. ASSUME NEW p \in Producers, Push(p)
      PROVE  NoLostWakeup' /\ NoLostStop'
  BY <1>1 DEF Push, TypeOK
<1>2. ASSUME NEW p \in Producers, Wake(p)
      PROVE  NoLostWakeup' /\ NoLostStop'
  BY <1>2 DEF Wake, TypeOK
<1>3. CASE StopRunning
  BY <1>3 DEF StopRunning, TypeOK
<1>4. CASE StopClear
  BY <1>4 DEF StopClear, TypeOK
<1>5. CASE StopWake
  BY <1>5 DEF StopWake, TypeOK
<1>6. CASE Check
  BY <1>6 DEF Check, TypeOK
<1>7. CASE Awake \/ AwakeElsewhere
  BY <1>7 DEF Awake, AwakeElsewhere, TypeOK
<1>8. CASE Read \/ TryPop \/ Handle
  BY <1>8 DEF Read, TryPop, Handle, TypeOK
<1>9. CASE HandleThrows \/ UNCHANGED vars
  BY <1>9 DEF HandleThrows, vars
<1> QED BY <1>1, <1>2, <1>3, <1>4, <1>5, <1>6, <1>7, <1>8, <1>9
        DEF Next, ProducerStep, StopperStep, LoopStep

(* No command is left in the queue with the epoll loop asleep and nobody about *)
(* to wake it: push before the eventfd write, eventfd read before the drain.  *)
THEOREM NoWakeupIsLost == Spec => []NoLostWakeup
<1>1. Init => NoLostWakeup /\ NoLostStop
  BY DEF Init, NoLostWakeup, NoLostStop
<1>2. TypeOK /\ NoLostWakeup /\ NoLostStop /\ [Next]_vars => (NoLostWakeup /\ NoLostStop)'
  BY WakeupStep
<1> QED BY <1>1, <1>2, MailboxTypes, PTL DEF Spec

(* No stop() or close() leaves the loop asleep: _running is cleared before the *)
(* eventfd is written, and the loop looks at it after every wakeup.           *)
THEOREM NoStopIsLost == Spec => []NoLostStop
<1>1. Init => NoLostWakeup /\ NoLostStop
  BY DEF Init, NoLostWakeup, NoLostStop
<1>2. TypeOK /\ NoLostWakeup /\ NoLostStop /\ [Next]_vars => (NoLostWakeup /\ NoLostStop)'
  BY WakeupStep
<1> QED BY <1>1, <1>2, MailboxTypes, PTL DEF Spec

------------------------------------------------------------------------------
(* Order                                                                      *)

LEMMA QueueInit == Init => QueueInv /\ GapFreeInv
BY DEF Init, QueueInv, GapFreeInv, InFlight

(* A push appends a number larger than every number there is.                 *)
LEMMA OrderPush ==
  ASSUME TypeOK, QueueInv, GapFreeInv, NEW p \in Producers, Push(p)
  PROVE  QueueInv' /\ GapFreeInv'
<1>1. UNCHANGED <<running, loop, current, handled>>
  BY DEF Push
<1> DEFINE n == Len(queue)
<1>2. /\ n \in Nat /\ DOMAIN queue = 1 .. n /\ DOMAIN queue' = 1 .. (n + 1)
      /\ \A i \in 1 .. n : queue'[i] = queue[i]
      /\ queue'[n + 1] = pushed + 1 /\ pushed' = pushed + 1 /\ pushed \in Nat
      /\ Len(queue') = n + 1
  BY PushFacts
<1>3. queue \in Seq(Nat) /\ handled \in Seq(Nat) /\ current \in Nat
  BY DEF TypeOK
<1>4. /\ \A i \in 1 .. n : queue[i] \in Nat
      /\ \A j \in DOMAIN handled : handled[j] \in Nat
      /\ Len(handled) \in Nat
  BY <1>2, <1>3, ElementOfSeq, LenProperties
<1> HIDE DEF n
<1>5. QueueInv'
  <2>1. \A i \in 1 .. (n + 1) : current < queue'[i] /\ queue'[i] <= pushed + 1
    <3> TAKE i \in 1 .. (n + 1)
    <3>1. CASE i \in 1 .. n
      <4>1. current < queue[i] /\ queue[i] <= pushed
        BY <1>2, <3>1 DEF QueueInv
      <4> QED BY <1>2, <1>4, <3>1, <4>1
    <3>2. CASE i = n + 1
      BY <1>2, <1>3, <3>2 DEF QueueInv
    <3> QED BY <1>2, <3>1, <3>2
  <2>2. \A i, j \in 1 .. (n + 1) : i < j => queue'[i] < queue'[j]
    <3> TAKE i, j \in 1 .. (n + 1)
    <3> HAVE i < j
    <3>1. i \in 1 .. n /\ queue'[i] = queue[i] /\ queue[i] <= pushed /\ queue[i] \in Nat
      BY <1>2, <1>4 DEF QueueInv
    <3>2. CASE j \in 1 .. n
      BY <1>2, <3>1, <3>2 DEF QueueInv
    <3>3. CASE j = n + 1
      BY <1>2, <3>1, <3>3
    <3> QED BY <1>2, <3>2, <3>3
  <2>3. \A i \in 1 .. (n + 1) : \A j \in DOMAIN handled : handled[j] < queue'[i]
    <3> TAKE i \in 1 .. (n + 1)
    <3>1. CASE i \in 1 .. n
      BY <1>2, <3>1 DEF QueueInv
    <3>2. CASE i = n + 1
      BY <1>2, <1>4, <3>2 DEF QueueInv
    <3> QED BY <1>2, <3>1, <3>2
  <2>4. \A j \in DOMAIN handled : handled[j] <= pushed + 1 /\ (current # 0 => handled[j] < current)
    BY <1>2, <1>4 DEF QueueInv
  <2>5. (loop = "handle" => current # 0) /\ (current # 0 => loop \in {"handle", "exited"}) /\ current <= pushed + 1
    BY <1>2, <1>3 DEF QueueInv
  <2> QED BY <1>1, <1>2, <2>1, <2>2, <2>3, <2>4, <2>5 DEF QueueInv
<1>6. GapFreeInv'
  <2>1. SUFFICES ASSUME running PROVE GapFreeInv'
    BY <1>1 DEF GapFreeInv, Push
  <2>2. pushed = InFlight + n /\ current \in {0, Len(handled) + 1}
        /\ \A i \in 1 .. n : queue[i] = InFlight + i
    BY <1>2, <2>1 DEF GapFreeInv, n
  <2>3. InFlight \in Nat /\ InFlight' = InFlight
    BY <1>1, <1>4 DEF InFlight
  <2>4. \A i \in 1 .. (n + 1) : queue'[i] = InFlight + i
    BY <1>2, <2>2, <2>3
  <2> QED BY <1>1, <1>2, <2>1, <2>2, <2>3, <2>4 DEF GapFreeInv, Push
<1> QED BY <1>5, <1>6

(* tryPop takes the smallest number of the queue.                             *)
LEMMA OrderPop ==
  ASSUME TypeOK, QueueInv, GapFreeInv, TryPop
  PROVE  QueueInv' /\ GapFreeInv'
<1>1. UNCHANGED <<running, pushed, handled>> /\ loop = "drain"
  BY DEF TryPop
<1>2. current = 0 /\ handled \in Seq(Nat) /\ queue \in Seq(Nat) /\ pushed \in Nat
  BY <1>1 DEF QueueInv, TypeOK
<1>3. CASE queue = <<>>
  <2>1. loop' = "check" /\ queue' = queue /\ current' = current
    BY <1>3 DEF TryPop
  <2>2. QueueInv'
    BY <1>1, <1>2, <2>1 DEF QueueInv
  <2>3. InFlight' = InFlight /\ stopper' = stopper
    BY <1>1, <2>1 DEF InFlight, TryPop
  <2>4. GapFreeInv'
    BY <1>1, <2>1, <2>3 DEF GapFreeInv
  <2> QED BY <2>2, <2>4
<1>4. CASE queue # <<>>
  <2> DEFINE n == Len(queue)
  <2>1. /\ current' = queue[1] /\ current' \in Nat /\ n \in Nat \ {0}
        /\ DOMAIN queue = 1 .. n /\ DOMAIN queue' = 1 .. (n - 1) /\ Len(queue') = n - 1
        /\ \A i \in 1 .. (n - 1) : queue'[i] = queue[i + 1]
    BY <1>4, PopFacts
  <2>2. loop' = "handle"
    BY <1>4 DEF TryPop
  <2>3. /\ \A i \in 1 .. n : queue[i] \in Nat
        /\ \A j \in DOMAIN handled : handled[j] \in Nat
        /\ Len(handled) \in Nat
    BY <1>2, <2>1, ElementOfSeq, LenProperties
  <2> HIDE DEF n
  <2>4. QueueInv'
    <3>1. 1 \in 1 .. n
      BY <2>1
    <3>2. current' # 0 /\ current' <= pushed
      <4>1. current < queue[1] /\ queue[1] <= pushed
        BY <2>1, <3>1 DEF QueueInv
      <4> QED BY <1>2, <2>1, <2>3, <3>1, <4>1
    <3>3. \A j \in DOMAIN handled : handled[j] <= pushed /\ handled[j] < current'
      BY <2>1, <3>1 DEF QueueInv
    <3>4. \A i \in 1 .. (n - 1) : i + 1 \in 1 .. n /\ 1 < i + 1 /\ queue'[i] = queue[i + 1]
      BY <2>1
    <3>5. \A i \in 1 .. (n - 1) : current' < queue'[i] /\ queue'[i] <= pushed
      BY <2>1, <3>1, <3>4 DEF QueueInv
    <3>6. \A i \in 1 .. (n - 1) : \A j \in DOMAIN handled : handled[j] < queue'[i]
      BY <2>1, <3>4 DEF QueueInv
    <3>7. \A i, j \in 1 .. (n - 1) : i < j => queue'[i] < queue'[j]
      <4> TAKE i, j \in 1 .. (n - 1)
      <4> HAVE i < j
      <4>1. i + 1 < j + 1
        BY <2>1
      <4> QED BY <2>1, <3>4, <4>1 DEF QueueInv
    <3> QED BY <1>1, <2>1, <2>2, <3>2, <3>3, <3>5, <3>6, <3>7 DEF QueueInv
  <2>5. GapFreeInv'
    <3>1. SUFFICES ASSUME running PROVE GapFreeInv'
      BY <1>1 DEF GapFreeInv, TryPop
    <3>a. InFlight = Len(handled)
      BY <1>2, <2>3 DEF InFlight
    <3>b. pushed = InFlight + n /\ \A i \in 1 .. n : queue[i] = InFlight + i
      BY <2>1, <3>1 DEF GapFreeInv, n
    <3>2. InFlight = Len(handled) /\ pushed = InFlight + n
          /\ \A i \in 1 .. n : queue[i] = InFlight + i
      BY <3>a, <3>b
    <3>3. current' = Len(handled) + 1 /\ InFlight' = Len(handled) + 1
      BY <1>1, <2>1, <2>3, <3>2 DEF InFlight
    <3>4. \A i \in 1 .. (n - 1) : queue'[i] = InFlight' + i
      BY <2>1, <2>3, <3>2, <3>3
    <3>5. pushed = InFlight' + (n - 1)
      BY <1>2, <2>1, <2>3, <3>2, <3>3
    <3> QED BY <1>1, <2>1, <3>1, <3>3, <3>4, <3>5 DEF GapFreeInv, TryPop
  <2> QED BY <2>4, <2>5
<1> QED BY <1>3, <1>4

(* Handling moves the popped command to the end of the history.               *)
LEMMA OrderHandle ==
  ASSUME TypeOK, QueueInv, GapFreeInv, HandledInOrder, Handle
  PROVE  QueueInv' /\ GapFreeInv' /\ HandledInOrder'
<1>1. UNCHANGED <<running, pushed, queue>> /\ loop = "handle" /\ loop' = "drain"
  BY DEF Handle
<1>2. current # 0 /\ current \in Nat /\ queue \in Seq(Nat) /\ pushed \in Nat
  BY <1>1 DEF QueueInv, TypeOK
<1> DEFINE n == Len(handled)
<1>3. /\ n \in Nat /\ DOMAIN handled = 1 .. n /\ DOMAIN handled' = 1 .. (n + 1)
      /\ \A i \in 1 .. n : handled'[i] = handled[i]
      /\ handled'[n + 1] = current /\ current' = 0 /\ Len(handled') = n + 1
  BY HandleFacts
<1>4. /\ \A i \in 1 .. n : handled[i] \in Nat
      /\ \A j \in DOMAIN queue : queue[j] \in Nat
      /\ Len(queue) \in Nat
  BY <1>2, <1>3, ElementOfSeq, LenProperties DEF TypeOK
<1> HIDE DEF n
<1>5. QueueInv'
  <2>1. \A j \in 1 .. (n + 1) : handled'[j] <= pushed
    <3>1. (\A j \in 1 .. n : handled[j] <= pushed) /\ current <= pushed
      BY <1>3 DEF QueueInv
    <3> QED BY <1>3, <3>1
  <2>2. \A i \in DOMAIN queue : 0 < queue[i] /\ queue[i] <= pushed
    BY <1>2, <1>4 DEF QueueInv
  <2>3. \A i \in DOMAIN queue : \A j \in 1 .. (n + 1) : handled'[j] < queue[i]
    <3>1. \A i \in DOMAIN queue : current < queue[i] /\ \A j \in 1 .. n : handled[j] < queue[i]
      BY <1>3 DEF QueueInv
    <3> QED BY <1>3, <3>1
  <2> QED BY <1>1, <1>2, <1>3, <2>1, <2>2, <2>3 DEF QueueInv
<1>6. running => current = n + 1
  BY <1>2 DEF GapFreeInv, n
<1>7. GapFreeInv'
  BY <1>1, <1>2, <1>3, <1>4, <1>6 DEF GapFreeInv, InFlight, Handle, n
<1>8. \A i \in 1 .. n : handled[i] < current
  BY <1>2, <1>3 DEF QueueInv
<1>9. HandledInOrder'
  <2>1. \A i, j \in 1 .. (n + 1) : i < j => handled'[i] < handled'[j]
    <3> TAKE i, j \in 1 .. (n + 1)
    <3> HAVE i < j
    <3>1. i \in 1 .. n /\ handled'[i] = handled[i]
      BY <1>3
    <3>2. CASE j \in 1 .. n
      BY <1>3, <3>1, <3>2 DEF HandledInOrder
    <3>3. CASE j = n + 1
      BY <1>3, <1>8, <3>1, <3>3
    <3> QED BY <1>3, <3>2, <3>3
  <2>2. running => \A i \in 1 .. (n + 1) : handled'[i] = i
    BY <1>3, <1>6 DEF HandledInOrder
  <2> QED BY <1>1, <1>3, <2>1, <2>2 DEF HandledInOrder
<1> QED BY <1>5, <1>7, <1>9

LEMMA OrderStep ==
  ASSUME TypeOK, QueueInv, GapFreeInv, HandledInOrder, [Next]_vars
  PROVE  QueueInv' /\ GapFreeInv' /\ HandledInOrder'
<1>1. ASSUME NEW p \in Producers, Push(p)
      PROVE  QueueInv' /\ GapFreeInv' /\ HandledInOrder'
  BY <1>1, OrderPush DEF Push, HandledInOrder
<1>2. CASE TryPop
  BY <1>2, OrderPop DEF TryPop, HandledInOrder
<1>3. CASE Handle
  BY <1>3, OrderHandle
<1>4. CASE StopRunning
  BY <1>4 DEF StopRunning, QueueInv, GapFreeInv, HandledInOrder
<1>5. CASE StopClear
  <2>1. DOMAIN queue' = {} /\ ~running'
    BY <1>5 DEF StopClear, GapFreeInv
  <2>2. UNCHANGED <<running, loop, current, pushed, handled>>
    BY <1>5 DEF StopClear
  <2> QED BY <2>1, <2>2 DEF QueueInv, GapFreeInv, HandledInOrder
<1>6. CASE (\E p \in Producers : Wake(p)) \/ StopWake \/ Check \/ Awake \/ AwakeElsewhere \/ Read
  <2>1. UNCHANGED <<running, queue, current, pushed, handled>>
        /\ (loop' = "handle" <=> loop = "handle") /\ (loop' # loop => loop # "exited") /\ (stopper' = "clear" => stopper = "clear")
    BY <1>6 DEF Wake, StopWake, Check, Awake, AwakeElsewhere, Read
  <2> QED BY <2>1 DEF QueueInv, GapFreeInv, InFlight, HandledInOrder
<1>7. CASE HandleThrows \/ UNCHANGED vars
  BY <1>7 DEF HandleThrows, vars, QueueInv, GapFreeInv, InFlight, HandledInOrder
<1> QED BY <1>1, <1>2, <1>3, <1>4, <1>5, <1>6, <1>7
        DEF Next, ProducerStep, StopperStep, LoopStep

(* What is popped and queued is in order in every reachable state.            *)
LEMMA QueueOrdered == Spec => [](QueueInv /\ HandledInOrder)
<1>1. Init => HandledInOrder
  BY DEF Init, HandledInOrder
<1>2. TypeOK /\ QueueInv /\ GapFreeInv /\ HandledInOrder /\ [Next]_vars
        => (QueueInv /\ GapFreeInv /\ HandledInOrder)'
  BY OrderStep
<1> QED BY <1>1, <1>2, QueueInit, MailboxTypes, PTL DEF Spec

(* Commands are handled in the order of their pushes, none twice, and none is *)
(* passed over until the loop is told to stop.                                *)
THEOREM CommandsInOrder == Spec => []HandledInOrder
BY QueueOrdered, PTL
==============================================================================
