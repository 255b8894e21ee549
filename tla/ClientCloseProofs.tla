-------------------------- MODULE ClientCloseProofs --------------------------
(* TLAPS proofs about ClientClose, for any number of callers and senders: who *)
(* uses, closes, joins and destroys a Connection, and what is left behind.    *)
(* Each lemma of a step has one step per action, or per group of actions that *)
(* disturb its part of the invariant in the same way.                         *)
EXTENDS ClientClose, TLAPS

------------------------------------------------------------------------------
(* The inductive invariant                                                    *)

Stopped == {"wake", "join", "joining"}       \* past _running = false, not yet past the join
Releasing == Descriptors \cup {"forget"}     \* past the join
AllOpen == \A d \in Descriptors : descriptor[d] = "open"
Untouched == AllOpen /\ \A d \in Descriptors : closes[d] = 0

\* the object, its thread, and who is in its functions
LifeInv ==
  /\ object \in {"connecting", "failed"} =>
       /\ loop = "unborn" /\ thread = "none" /\ ~running /\ state = "handshake" /\ notices = 0
       /\ \A d \in Descriptors : closes[d] = 0
  /\ object = "connecting" /\ descriptor["event"] = "open" => descriptor["epoll"] = "open"
  /\ object = "connecting" /\ descriptor["epoll"] = "open" => descriptor["socket"] = "open"
  /\ object = "starting" => thread = "none"
  /\ object \in {"starting", "alive", "dying", "destroyed"} => loop # "unborn"
  /\ object \in {"alive", "dying"} => thread # "none"
  /\ object = "destroyed" => thread = "joined"
  /\ \A t \in Callers \cup Senders : at[t] # "idle" => object = "alive" \/ (object = "dying" /\ t = Owner)
  /\ at[Epoll] # "idle" => loop = "leaving" /\ Epoll \in closers
  /\ thread = "joined" => loop = "exited" /\ ~running

\* a loop that is not over has its descriptors, or will not use them again
LoopInv ==
  /\ \A t \in Threads : at[t] \in Stopped \cup Releasing => ~running
  /\ loop = "leaving" /\ at[Epoll] = "idle" => ~running
  /\ \A t \in Threads \ {Epoll} : at[t] \in Releasing => loop = "exited"
  /\ loop # "unborn" => AllOpen \/ loop = "exited" \/ (~running /\ loop \in {"leaving", "check"})

\* what has been released was closed, and after a join somebody releases all
ReleaseInv ==
  /\ \A d \in Descriptors :
       /\ descriptor[d] = "closed" => closes[d] > 0
       /\ descriptor[d] = "unset" /\ object \notin {"connecting", "failed"} => closes[d] > 0
  /\ \A t \in Threads : /\ at[t] \in {"epoll", "event", "forget"} => descriptor["socket"] # "open"
                        /\ at[t] \in {"event", "forget"} => descriptor["epoll"] # "open"
                        /\ at[t] = "forget" => descriptor["event"] # "open"
  /\ thread = "joined" => (\E t \in Threads : at[t] \in Releasing) \/ (\A d \in Descriptors : descriptor[d] = "unset")

\* a close() that meets no other call goes through its stages alone
AloneInv == ~overlapped =>
  /\ \A t, u \in Threads : t # u => at[t] \in {"idle", "send"} \/ at[u] \in {"idle", "send"}
  /\ \A t \in Threads : at[t] \in {"send", "notify", "mark", "stop"} => running
  /\ running => notices = 0 \/ \E t \in Threads : at[t] \in {"mark", "stop"}
  /\ \A t \in Threads : at[t] = "notify" => notices = 0
  /\ running => Untouched
  /\ \A t \in Threads : at[t] \in Stopped => Untouched /\ thread # "joined"
  /\ \A t \in Threads : /\ at[t] = "socket" => Untouched
                        /\ at[t] \in {"socket", "epoll"} => closes["epoll"] = 0
                        /\ at[t] \in {"socket", "epoll", "event"} => closes["event"] = 0

\* a thread nobody has joined is waited for, unless it closed the connection
CauseInv ==
  /\ object = "starting" /\ Epoll \notin closers => running /\ state # "closed"
  /\ thread = "joinable" /\ (~running \/ state = "closed") /\ ~overlapped /\ Epoll \notin closers =>
       \E t \in Callers : at[t] \in {"stop"} \cup Stopped

Lifecycle == TypeOK /\ LifeInv /\ LoopInv
Inductive ==
  Lifecycle /\ ReleaseInv /\ AloneInv /\ CauseInv /\ OnceUnlessOverlapped /\ TerminationCause

------------------------------------------------------------------------------
(* The life of the object and of its thread                                   *)

(* The types are inductive.                                                   *)
LEMMA TypeStep ==
  ASSUME TypeOK, [Next]_vars
  PROVE  TypeOK'
<1> USE DEF TypeOK, Up, Goto, objectVars, flagVars, fdVars, historyVars
<1>1. ASSUME NEW d \in Descriptors, Opens(d)
      PROVE  TypeOK'
  BY <1>1 DEF Opens
<1>2. CASE ConnectFails
  BY <1>2 DEF ConnectFails
<1>3. CASE StartThread
  BY <1>3 DEF StartThread
<1>4. CASE AssignThread
  BY <1>4 DEF AssignThread
<1>5. CASE Destroy
  BY <1>5 DEF Destroy
<1>6. CASE DestroyMembers
  BY <1>6 DEF DestroyMembers
<1>7. ASSUME NEW t \in Callers \cup {Epoll}, CloseBegin(t)
      PROVE  TypeOK'
  <2>1. at' \in [Threads -> Stages]
    BY <1>7 DEF CloseBegin, Threads, Stages
  <2> QED BY <1>7, <2>1 DEF CloseBegin, Threads
<1>8. ASSUME NEW t \in Callers \cup {Epoll}, Notify(t)
      PROVE  TypeOK'
  <2>1. at' \in [Threads -> Stages]
    BY <1>8 DEF Notify, Threads, Stages
  <2> QED BY <1>8, <2>1 DEF Notify
<1>9. ASSUME NEW t \in Callers \cup {Epoll}, Mark(t)
      PROVE  TypeOK'
  <2>1. at' \in [Threads -> Stages]
    BY <1>9 DEF Mark, Threads, Stages
  <2> QED BY <1>9, <2>1 DEF Mark
<1>10. ASSUME NEW t \in Callers \cup {Epoll}, StopRunning(t)
      PROVE  TypeOK'
  <2>1. at' \in [Threads -> Stages]
    BY <1>10 DEF StopRunning, Threads, Stages
  <2>2. overlapped' \in BOOLEAN /\ running' \in BOOLEAN
    BY <1>10 DEF StopRunning
  <2>3. UNCHANGED <<process, object, thread, state, descriptor, readable, closes, stray, loop, closers, notices, threw>>
    BY <1>10 DEF StopRunning
  <2> QED BY <2>1, <2>2, <2>3
<1>11. ASSUME NEW t \in Callers \cup {Epoll}, Wake(t)
      PROVE  TypeOK'
  <2>1. at' \in [Threads -> Stages]
    BY <1>11 DEF Wake, Threads, Stages
  <2> QED BY <1>11, <2>1 DEF Wake, WriteEvent
<1>12. ASSUME NEW t \in Callers \cup {Epoll}, JoinNothing(t)
      PROVE  TypeOK'
  <2>1. at' \in [Threads -> Stages]
    BY <1>12 DEF JoinNothing, Threads, Stages, Descriptors
  <2> QED BY <1>12, <2>1 DEF JoinNothing
<1>13. ASSUME NEW t \in Callers \cup {Epoll}, JoinBegin(t)
      PROVE  TypeOK'
  <2>1. at' \in [Threads -> Stages]
    BY <1>13 DEF JoinBegin, Threads, Stages
  <2> QED BY <1>13, <2>1 DEF JoinBegin
<1>14. ASSUME NEW t \in Callers \cup {Epoll}, Joined(t)
      PROVE  TypeOK'
  <2>1. at' \in [Threads -> Stages]
    BY <1>14 DEF Joined, Threads, Stages, Descriptors
  <2> QED BY <1>14, <2>1 DEF Joined
<1>15. ASSUME NEW t \in Callers \cup {Epoll}, CloseDescriptor(t)
      PROVE  TypeOK'
  <2>1. at' \in [Threads -> Stages]
    BY <1>15 DEF CloseDescriptor, Threads, Stages, Descriptors
  <2> QED BY <1>15, <2>1 DEF CloseDescriptor, Descriptors
<1>16. ASSUME NEW t \in Callers \cup {Epoll}, Forget(t)
      PROVE  TypeOK'
  <2>1. at' \in [Threads -> Stages]
    BY <1>16 DEF Forget, Threads, Stages
  <2> QED BY <1>16, <2>1 DEF Forget
<1>17. ASSUME NEW t \in Senders, SendBegin(t)
      PROVE  TypeOK'
  BY <1>17 DEF SendBegin, Threads, Stages
<1>18. ASSUME NEW t \in Senders, SendWake(t)
      PROVE  TypeOK'
  BY <1>18 DEF SendWake, WriteEvent, Threads, Stages
<1>19. CASE Hello
  BY <1>19 DEF Hello, Step
<1>20. CASE Check
  BY <1>20 DEF Check, Step
<1>21. CASE EventReady
  BY <1>21 DEF EventReady, Step
<1>22. CASE Drain
  BY <1>22 DEF Drain, Step
<1>23. CASE SocketReady
  BY <1>23 DEF SocketReady, Step
<1>24. CASE ConfirmSeen
  BY <1>24 DEF ConfirmSeen, Step
<1>25. CASE Confirm
  BY <1>25 DEF Confirm, Step
<1>26. CASE SocketDone
  BY <1>26 DEF SocketDone, Step
<1>27. CASE JoinSelf
  BY <1>27 DEF JoinSelf
<1>28. CASE Uncaught
  BY <1>28 DEF Uncaught
<1>29. CASE UNCHANGED vars
  BY <1>29 DEF vars
<1> QED
  BY <1>1, <1>2, <1>3, <1>4, <1>5, <1>6, <1>7, <1>8, <1>9, <1>10, <1>11, <1>12, <1>13, <1>14,
     <1>15, <1>16, <1>17, <1>18, <1>19, <1>20, <1>21, <1>22, <1>23, <1>24, <1>25, <1>26, <1>27,
     <1>28, <1>29
  DEF Next, Construct, CloseRest, LoopStep

(* Threads are in the object only while it lives; a joined one has ended.     *)
LEMMA LifeStep ==
  ASSUME TypeOK, LifeInv, LoopInv, [Next]_vars
  PROVE  LifeInv'
<1> USE ThreadsAssumption
<1> USE DEF TypeOK, LifeInv, LoopInv, Stopped, Releasing
<1> USE DEF Up, Goto, Threads, Descriptors, Stages, objectVars, flagVars, fdVars, historyVars
<1>1. ASSUME NEW d \in Descriptors, Opens(d)
      PROVE  LifeInv'
  BY <1>1 DEF Opens
<1>2. CASE ConnectFails \/ StartThread \/ AssignThread
  BY <1>2 DEF ConnectFails, StartThread, AssignThread
<1>3. CASE Destroy \/ DestroyMembers
  BY <1>3 DEF Destroy, DestroyMembers, NotClosed
<1>4. ASSUME NEW t \in Callers \cup {Epoll}, CloseBegin(t)
      PROVE  LifeInv'
  BY <1>4 DEF CloseBegin, MayClose, NotClosed
<1>5. ASSUME NEW t \in Callers \cup {Epoll}, Notify(t) \/ Mark(t)
      PROVE  LifeInv'
  BY <1>5 DEF Notify, Mark
<1>6. ASSUME NEW t \in Callers \cup {Epoll}, StopRunning(t)
      PROVE  LifeInv'
  BY <1>6 DEF StopRunning
<1>7. ASSUME NEW t \in Callers \cup {Epoll}, Wake(t)
      PROVE  LifeInv'
  BY <1>7 DEF Wake, WriteEvent
<1>8. ASSUME NEW t \in Callers \cup {Epoll}, JoinNothing(t) \/ JoinBegin(t)
      PROVE  LifeInv'
  BY <1>8 DEF JoinNothing, JoinBegin
<1>9. ASSUME NEW t \in Callers \cup {Epoll}, Joined(t)
      PROVE  LifeInv'
  BY <1>9 DEF Joined
<1>10. ASSUME NEW t \in Callers \cup {Epoll}, CloseDescriptor(t)
      PROVE  LifeInv'
  BY <1>10 DEF CloseDescriptor
<1>11. ASSUME NEW t \in Callers \cup {Epoll}, Forget(t)
      PROVE  LifeInv'
  BY <1>11 DEF Forget
<1>12. ASSUME NEW t \in Senders, SendBegin(t) \/ SendWake(t)
      PROVE  LifeInv'
  BY <1>12 DEF SendBegin, SendWake, NotClosed, WriteEvent
<1>13. CASE Hello \/ Check \/ EventReady \/ Drain \/ ConfirmSeen \/ Confirm \/ SocketDone \/ SocketReady
  BY <1>13 DEF Hello, Check, EventReady, Drain, ConfirmSeen, Confirm, SocketDone, SocketReady, Step
<1>14. CASE JoinSelf \/ Uncaught
  BY <1>14 DEF JoinSelf, Uncaught
<1>15. CASE UNCHANGED vars
  BY <1>15 DEF vars
<1> QED
  BY <1>1, <1>2, <1>3, <1>4, <1>5, <1>6, <1>7, <1>8, <1>9, <1>10, <1>11, <1>12, <1>13, <1>14, <1>15
  DEF Next, Construct, CloseRest, LoopStep

(* Whoever releases descriptors has waited for the loop, or is the epoll      *)
(* thread on its way out: _running is false then, and it will not wait again. *)
LEMMA DescriptorsStep ==
  ASSUME TypeOK, LifeInv, LoopInv, [Next]_vars
  PROVE  LoopInv'
<1> USE ThreadsAssumption
<1> USE DEF TypeOK, LifeInv, LoopInv, Stopped, Releasing, AllOpen
<1> USE DEF Up, Goto, Threads, Descriptors, Stages, objectVars, flagVars, fdVars, historyVars
<1>1. ASSUME NEW d \in Descriptors, Opens(d)
      PROVE  LoopInv'
  BY <1>1 DEF Opens
<1>2. CASE ConnectFails \/ StartThread \/ AssignThread
  BY <1>2 DEF ConnectFails, StartThread, AssignThread
<1>3. CASE Destroy \/ DestroyMembers
  BY <1>3 DEF Destroy, DestroyMembers, NotClosed
<1>4. ASSUME NEW t \in Callers \cup {Epoll}, CloseBegin(t)
      PROVE  LoopInv'
  BY <1>4 DEF CloseBegin, MayClose, NotClosed
<1>5. ASSUME NEW t \in Callers \cup {Epoll}, Notify(t) \/ Mark(t)
      PROVE  LoopInv'
  BY <1>5 DEF Notify, Mark
<1>6. ASSUME NEW t \in Callers \cup {Epoll}, StopRunning(t)
      PROVE  LoopInv'
  BY <1>6 DEF StopRunning
<1>7. ASSUME NEW t \in Callers \cup {Epoll}, Wake(t)
      PROVE  LoopInv'
  BY <1>7 DEF Wake, WriteEvent
<1>8. ASSUME NEW t \in Callers \cup {Epoll}, JoinNothing(t) \/ JoinBegin(t)
      PROVE  LoopInv'
  BY <1>8 DEF JoinNothing, JoinBegin
<1>9. ASSUME NEW t \in Callers \cup {Epoll}, Joined(t)
      PROVE  LoopInv'
  BY <1>9 DEF Joined
<1>10. ASSUME NEW t \in Callers \cup {Epoll}, CloseDescriptor(t)
      PROVE  LoopInv'
  BY <1>10 DEF CloseDescriptor
<1>11. ASSUME NEW t \in Callers \cup {Epoll}, Forget(t)
      PROVE  LoopInv'
  BY <1>11 DEF Forget
<1>12. ASSUME NEW t \in Senders, SendBegin(t) \/ SendWake(t)
      PROVE  LoopInv'
  BY <1>12 DEF SendBegin, SendWake, NotClosed, WriteEvent
<1>13. CASE Hello \/ Check \/ EventReady \/ Drain \/ ConfirmSeen \/ Confirm \/ SocketDone \/ SocketReady
  BY <1>13 DEF Hello, Check, EventReady, Drain, ConfirmSeen, Confirm, SocketDone, SocketReady, Step
<1>14. CASE JoinSelf \/ Uncaught
  BY <1>14 DEF JoinSelf, Uncaught
<1>15. CASE UNCHANGED vars
  BY <1>15 DEF vars
<1> QED
  BY <1>1, <1>2, <1>3, <1>4, <1>5, <1>6, <1>7, <1>8, <1>9, <1>10, <1>11, <1>12, <1>13, <1>14, <1>15
  DEF Next, Construct, CloseRest, LoopStep

(* The three descriptors are released in order, and none of them is skipped.  *)
LEMMA ReleaseStep ==
  ASSUME TypeOK, LifeInv, LoopInv, ReleaseInv, [Next]_vars
  PROVE  ReleaseInv'
<1> USE ThreadsAssumption
<1> USE DEF TypeOK, LifeInv, LoopInv, ReleaseInv, Stopped, Releasing, AllOpen
<1> USE DEF Up, Goto, Threads, Descriptors, Stages, objectVars, flagVars, fdVars, historyVars
<1>1. ASSUME NEW d \in Descriptors, Opens(d)
      PROVE  ReleaseInv'
  BY <1>1 DEF Opens
<1>2. CASE ConnectFails \/ StartThread \/ AssignThread
  BY <1>2 DEF ConnectFails, StartThread, AssignThread
<1>3. CASE Destroy \/ DestroyMembers
  BY <1>3 DEF Destroy, DestroyMembers, NotClosed
<1>4. ASSUME NEW t \in Callers \cup {Epoll}, CloseBegin(t)
      PROVE  ReleaseInv'
  BY <1>4 DEF CloseBegin, MayClose, NotClosed
<1>5. ASSUME NEW t \in Callers \cup {Epoll}, Notify(t) \/ Mark(t)
      PROVE  ReleaseInv'
  BY <1>5 DEF Notify, Mark
<1>6. ASSUME NEW t \in Callers \cup {Epoll}, StopRunning(t)
      PROVE  ReleaseInv'
  BY <1>6 DEF StopRunning
<1>7. ASSUME NEW t \in Callers \cup {Epoll}, Wake(t)
      PROVE  ReleaseInv'
  BY <1>7 DEF Wake, WriteEvent
<1>8. ASSUME NEW t \in Callers \cup {Epoll}, JoinNothing(t) \/ JoinBegin(t)
      PROVE  ReleaseInv'
  BY <1>8 DEF JoinNothing, JoinBegin
<1>9. ASSUME NEW t \in Callers \cup {Epoll}, Joined(t)
      PROVE  ReleaseInv'
  BY <1>9 DEF Joined
<1>10. ASSUME NEW t \in Callers \cup {Epoll}, CloseDescriptor(t)
      PROVE  ReleaseInv'
  BY <1>10 DEF CloseDescriptor
<1>11. ASSUME NEW t \in Callers \cup {Epoll}, Forget(t)
      PROVE  ReleaseInv'
  BY <1>11 DEF Forget
<1>12. ASSUME NEW t \in Senders, SendBegin(t) \/ SendWake(t)
      PROVE  ReleaseInv'
  BY <1>12 DEF SendBegin, SendWake, NotClosed, WriteEvent
<1>13. CASE Hello \/ Check \/ EventReady \/ Drain \/ ConfirmSeen \/ Confirm \/ SocketDone \/ SocketReady
  BY <1>13 DEF Hello, Check, EventReady, Drain, ConfirmSeen, Confirm, SocketDone, SocketReady, Step
<1>14. CASE JoinSelf \/ Uncaught
  BY <1>14 DEF JoinSelf, Uncaught
<1>15. CASE UNCHANGED vars
  BY <1>15 DEF vars
<1> QED
  BY <1>1, <1>2, <1>3, <1>4, <1>5, <1>6, <1>7, <1>8, <1>9, <1>10, <1>11, <1>12, <1>13, <1>14, <1>15
  DEF Next, Construct, CloseRest, LoopStep

------------------------------------------------------------------------------
(* What overlapping calls can and cannot do                                   *)

(* Without overlap one thread at a time is past the test of close(), and what *)
(* it has not come to is as it was when _running was set.                     *)
LEMMA AloneStep ==
  ASSUME TypeOK, LifeInv, LoopInv, AloneInv, [Next]_vars
  PROVE  AloneInv'
<1> USE ThreadsAssumption
<1> USE DEF TypeOK, LifeInv, LoopInv, AloneInv, Stopped, Releasing, AllOpen, Untouched
<1> USE DEF Up, Goto, Threads, Descriptors, Stages, objectVars, flagVars, fdVars, historyVars
<1>1. ASSUME NEW d \in Descriptors, Opens(d)
      PROVE  AloneInv'
  BY <1>1 DEF Opens
<1>2. CASE ConnectFails \/ StartThread \/ AssignThread
  BY <1>2 DEF ConnectFails, StartThread, AssignThread
<1>3. CASE Destroy \/ DestroyMembers
  BY <1>3 DEF Destroy, DestroyMembers, NotClosed
<1>4. ASSUME NEW t \in Callers \cup {Epoll}, CloseBegin(t)
      PROVE  AloneInv'
  BY <1>4 DEF CloseBegin, MayClose, NotClosed
<1>5. ASSUME NEW t \in Callers \cup {Epoll}, Notify(t) \/ Mark(t)
      PROVE  AloneInv'
  BY <1>5 DEF Notify, Mark
<1>6. ASSUME NEW t \in Callers \cup {Epoll}, StopRunning(t)
      PROVE  AloneInv'
  BY <1>6 DEF StopRunning
<1>7. ASSUME NEW t \in Callers \cup {Epoll}, Wake(t)
      PROVE  AloneInv'
  BY <1>7 DEF Wake, WriteEvent
<1>8. ASSUME NEW t \in Callers \cup {Epoll}, JoinNothing(t) \/ JoinBegin(t)
      PROVE  AloneInv'
  BY <1>8 DEF JoinNothing, JoinBegin
<1>9. ASSUME NEW t \in Callers \cup {Epoll}, Joined(t)
      PROVE  AloneInv'
  BY <1>9 DEF Joined
<1>10. ASSUME NEW t \in Callers \cup {Epoll}, CloseDescriptor(t)
      PROVE  AloneInv'
  BY <1>10 DEF CloseDescriptor
<1>11. ASSUME NEW t \in Callers \cup {Epoll}, Forget(t)
      PROVE  AloneInv'
  BY <1>11 DEF Forget
<1>12. ASSUME NEW t \in Senders, SendBegin(t) \/ SendWake(t)
      PROVE  AloneInv'
  BY <1>12 DEF SendBegin, SendWake, NotClosed, WriteEvent
<1>13. CASE Hello \/ Check \/ EventReady \/ Drain \/ ConfirmSeen \/ Confirm \/ SocketDone \/ SocketReady
  BY <1>13 DEF Hello, Check, EventReady, Drain, ConfirmSeen, Confirm, SocketDone, SocketReady, Step
<1>14. CASE JoinSelf \/ Uncaught
  BY <1>14 DEF JoinSelf, Uncaught
<1>15. CASE UNCHANGED vars
  BY <1>15 DEF vars
<1> QED
  BY <1>1, <1>2, <1>3, <1>4, <1>5, <1>6, <1>7, <1>8, <1>9, <1>10, <1>11, <1>12, <1>13, <1>14, <1>15
  DEF Next, Construct, CloseRest, LoopStep

(* Hence _onClose, the three ::close and the writes happen as they should.    *)
LEMMA OnceStep ==
  ASSUME TypeOK, LifeInv, AloneInv, OnceUnlessOverlapped, [Next]_vars
  PROVE  OnceUnlessOverlapped'
<1> USE ThreadsAssumption
<1> USE DEF TypeOK, LifeInv, AloneInv, OnceUnlessOverlapped, Stopped, Releasing, AllOpen, Untouched
<1> USE DEF Up, Goto, Threads, Descriptors, Stages, objectVars, flagVars, fdVars, historyVars
<1>1. ASSUME NEW d \in Descriptors, Opens(d)
      PROVE  OnceUnlessOverlapped'
  BY <1>1 DEF Opens
<1>2. CASE ConnectFails \/ StartThread \/ AssignThread
  BY <1>2 DEF ConnectFails, StartThread, AssignThread
<1>3. CASE Destroy \/ DestroyMembers
  BY <1>3 DEF Destroy, DestroyMembers, NotClosed
<1>4. ASSUME NEW t \in Callers \cup {Epoll}, CloseBegin(t)
      PROVE  OnceUnlessOverlapped'
  BY <1>4 DEF CloseBegin, MayClose, NotClosed
<1>5. ASSUME NEW t \in Callers \cup {Epoll}, Notify(t) \/ Mark(t)
      PROVE  OnceUnlessOverlapped'
  BY <1>5 DEF Notify, Mark
<1>6. ASSUME NEW t \in Callers \cup {Epoll}, StopRunning(t)
      PROVE  OnceUnlessOverlapped'
  BY <1>6 DEF StopRunning
<1>7. ASSUME NEW t \in Callers \cup {Epoll}, Wake(t)
      PROVE  OnceUnlessOverlapped'
  BY <1>7 DEF Wake, WriteEvent
<1>8. ASSUME NEW t \in Callers \cup {Epoll}, JoinNothing(t) \/ JoinBegin(t)
      PROVE  OnceUnlessOverlapped'
  BY <1>8 DEF JoinNothing, JoinBegin
<1>9. ASSUME NEW t \in Callers \cup {Epoll}, Joined(t)
      PROVE  OnceUnlessOverlapped'
  BY <1>9 DEF Joined
<1>10. ASSUME NEW t \in Callers \cup {Epoll}, CloseDescriptor(t)
      PROVE  OnceUnlessOverlapped'
  BY <1>10 DEF CloseDescriptor
<1>11. ASSUME NEW t \in Callers \cup {Epoll}, Forget(t)
      PROVE  OnceUnlessOverlapped'
  BY <1>11 DEF Forget
<1>12. ASSUME NEW t \in Senders, SendBegin(t) \/ SendWake(t)
      PROVE  OnceUnlessOverlapped'
  BY <1>12 DEF SendBegin, SendWake, NotClosed, WriteEvent
<1>13. CASE Hello \/ Check \/ EventReady \/ Drain \/ ConfirmSeen \/ Confirm \/ SocketDone \/ SocketReady
  BY <1>13 DEF Hello, Check, EventReady, Drain, ConfirmSeen, Confirm, SocketDone, SocketReady, Step
<1>14. CASE JoinSelf \/ Uncaught
  BY <1>14 DEF JoinSelf, Uncaught
<1>15. CASE UNCHANGED vars
  BY <1>15 DEF vars
<1> QED
  BY <1>1, <1>2, <1>3, <1>4, <1>5, <1>6, <1>7, <1>8, <1>9, <1>10, <1>11, <1>12, <1>13, <1>14, <1>15
  DEF Next, Construct, CloseRest, LoopStep

(* A close() by a caller does not end before the thread is joined.            *)
LEMMA CauseStep ==
  ASSUME TypeOK, LifeInv, LoopInv, CauseInv, [Next]_vars
  PROVE  CauseInv'
<1> USE ThreadsAssumption
<1> USE DEF TypeOK, LifeInv, LoopInv, CauseInv, Stopped, Releasing
<1> USE DEF Up, Goto, Threads, Descriptors, Stages, objectVars, flagVars, fdVars, historyVars
<1>1. ASSUME NEW d \in Descriptors, Opens(d)
      PROVE  CauseInv'
  BY <1>1 DEF Opens
<1>2. CASE ConnectFails \/ StartThread \/ AssignThread
  BY <1>2 DEF ConnectFails, StartThread, AssignThread
<1>3. CASE Destroy \/ DestroyMembers
  BY <1>3 DEF Destroy, DestroyMembers, NotClosed
<1>4. ASSUME NEW t \in Callers \cup {Epoll}, CloseBegin(t)
      PROVE  CauseInv'
  BY <1>4 DEF CloseBegin, MayClose, NotClosed
<1>5. ASSUME NEW t \in Callers \cup {Epoll}, Notify(t) \/ Mark(t)
      PROVE  CauseInv'
  BY <1>5 DEF Notify, Mark
<1>6. ASSUME NEW t \in Callers \cup {Epoll}, StopRunning(t)
      PROVE  CauseInv'
  BY <1>6 DEF StopRunning
<1>7. ASSUME NEW t \in Callers \cup {Epoll}, Wake(t)
      PROVE  CauseInv'
  BY <1>7 DEF Wake, WriteEvent
<1>8. ASSUME NEW t \in Callers \cup {Epoll}, JoinNothing(t) \/ JoinBegin(t)
      PROVE  CauseInv'
  BY <1>8 DEF JoinNothing, JoinBegin
<1>9. ASSUME NEW t \in Callers \cup {Epoll}, Joined(t)
      PROVE  CauseInv'
  BY <1>9 DEF Joined
<1>10. ASSUME NEW t \in Callers \cup {Epoll}, CloseDescriptor(t)
      PROVE  CauseInv'
  BY <1>10 DEF CloseDescriptor
<1>11. ASSUME NEW t \in Callers \cup {Epoll}, Forget(t)
      PROVE  CauseInv'
  BY <1>11 DEF Forget
<1>12. ASSUME NEW t \in Senders, SendBegin(t) \/ SendWake(t)
      PROVE  CauseInv'
  BY <1>12 DEF SendBegin, SendWake, NotClosed, WriteEvent
<1>13. CASE Hello \/ Check \/ EventReady \/ Drain \/ ConfirmSeen \/ Confirm \/ SocketDone \/ SocketReady
  BY <1>13 DEF Hello, Check, EventReady, Drain, ConfirmSeen, Confirm, SocketDone, SocketReady, Step
<1>14. CASE JoinSelf \/ Uncaught
  BY <1>14 DEF JoinSelf, Uncaught
<1>15. CASE UNCHANGED vars
  BY <1>15 DEF vars
<1> QED
  BY <1>1, <1>2, <1>3, <1>4, <1>5, <1>6, <1>7, <1>8, <1>9, <1>10, <1>11, <1>12, <1>13, <1>14, <1>15
  DEF Next, Construct, CloseRest, LoopStep

(* Hence neither ~std::thread nor join() finds a thread it cannot take.       *)
LEMMA TerminationStep ==
  ASSUME TypeOK, LifeInv, LoopInv, AloneInv, CauseInv, TerminationCause, [Next]_vars
  PROVE  TerminationCause'
<1> USE ThreadsAssumption
<1> USE DEF TypeOK, LifeInv, LoopInv, AloneInv, CauseInv, TerminationCause, Stopped, Releasing
<1> USE DEF Up, Goto, Threads, Descriptors, Stages, objectVars, flagVars, fdVars, historyVars
<1>1. ASSUME NEW d \in Descriptors, Opens(d)
      PROVE  TerminationCause'
  BY <1>1 DEF Opens
<1>2. CASE ConnectFails \/ StartThread \/ AssignThread
  BY <1>2 DEF ConnectFails, StartThread, AssignThread
<1>3. CASE Destroy \/ DestroyMembers
  BY <1>3 DEF Destroy, DestroyMembers, NotClosed
<1>4. ASSUME NEW t \in Callers \cup {Epoll}, CloseBegin(t)
      PROVE  TerminationCause'
  BY <1>4 DEF CloseBegin, MayClose, NotClosed
<1>5. ASSUME NEW t \in Callers \cup {Epoll}, Notify(t) \/ Mark(t)
      PROVE  TerminationCause'
  BY <1>5 DEF Notify, Mark
<1>6. ASSUME NEW t \in Callers \cup {Epoll}, StopRunning(t)
      PROVE  TerminationCause'
  BY <1>6 DEF StopRunning
<1>7. ASSUME NEW t \in Callers \cup {Epoll}, Wake(t)
      PROVE  TerminationCause'
  BY <1>7 DEF Wake, WriteEvent
<1>8. ASSUME NEW t \in Callers \cup {Epoll}, JoinNothing(t) \/ JoinBegin(t)
      PROVE  TerminationCause'
  BY <1>8 DEF JoinNothing, JoinBegin
<1>9. ASSUME NEW t \in Callers \cup {Epoll}, Joined(t)
      PROVE  TerminationCause'
  BY <1>9 DEF Joined
<1>10. ASSUME NEW t \in Callers \cup {Epoll}, CloseDescriptor(t)
      PROVE  TerminationCause'
  BY <1>10 DEF CloseDescriptor
<1>11. ASSUME NEW t \in Callers \cup {Epoll}, Forget(t)
      PROVE  TerminationCause'
  BY <1>11 DEF Forget
<1>12. ASSUME NEW t \in Senders, SendBegin(t) \/ SendWake(t)
      PROVE  TerminationCause'
  BY <1>12 DEF SendBegin, SendWake, NotClosed, WriteEvent
<1>13. CASE Hello \/ Check \/ EventReady \/ Drain \/ ConfirmSeen \/ Confirm \/ SocketDone \/ SocketReady
  BY <1>13 DEF Hello, Check, EventReady, Drain, ConfirmSeen, Confirm, SocketDone, SocketReady, Step
<1>14. CASE JoinSelf \/ Uncaught
  BY <1>14 DEF JoinSelf, Uncaught
<1>15. CASE UNCHANGED vars
  BY <1>15 DEF vars
<1> QED
  BY <1>1, <1>2, <1>3, <1>4, <1>5, <1>6, <1>7, <1>8, <1>9, <1>10, <1>11, <1>12, <1>13, <1>14, <1>15
  DEF Next, Construct, CloseRest, LoopStep

------------------------------------------------------------------------------
(* The initial state.                                                         *)
LEMMA InductiveInit == Init => Inductive
<1> HAVE Init
<1> USE DEF Init
<1>1. TypeOK
  BY DEF TypeOK, Stages
<1>2. LifeInv /\ LoopInv /\ ReleaseInv
  BY ThreadsAssumption DEF LifeInv, LoopInv, ReleaseInv, Threads, Descriptors, Stopped, Releasing
<1>3. AloneInv /\ CauseInv /\ OnceUnlessOverlapped /\ TerminationCause
  BY ThreadsAssumption DEF AloneInv, CauseInv, OnceUnlessOverlapped, TerminationCause, Threads, Descriptors, Stopped
<1> QED BY <1>1, <1>2, <1>3 DEF Inductive, Lifecycle

(* The whole invariant is inductive.                                          *)
LEMMA InductiveStep == Inductive /\ [Next]_vars => Inductive'
BY TypeStep, LifeStep, DescriptorsStep, ReleaseStep, AloneStep, OnceStep, CauseStep, TerminationStep
   DEF Inductive, Lifecycle

LEMMA InductiveAlways == Spec => []Inductive
BY InductiveInit, InductiveStep, PTL DEF Spec

------------------------------------------------------------------------------
(* The types hold in every reachable state.                                   *)
THEOREM ClientCloseTypes == Spec => []TypeOK
<1>1. Inductive => TypeOK
  BY DEF Inductive, Lifecycle
<1> QED BY <1>1, InductiveAlways, PTL

(* Whoever closes the descriptors has waited for the end of the loop, or is   *)
(* the epoll thread itself: it never uses one closed under it.                *)
THEOREM LoopKeepsDescriptors == Spec => []DescriptorsOutliveLoop
<1>1. Inductive => DescriptorsOutliveLoop
  BY DEF Inductive, Lifecycle, LoopInv, AllOpen, DescriptorsOutliveLoop
<1> QED BY <1>1, InductiveAlways, PTL

(* Calls of close() and send() that do not overlap take effect once.          *)
THEOREM CloseTakesEffectOnce == Spec => []OnceUnlessOverlapped
<1>1. Inductive => OnceUnlessOverlapped
  BY DEF Inductive
<1> QED BY <1>1, InductiveAlways, PTL

(* The destructor and the constructor that throws leave no thread, and the    *)
(* destructor no descriptor.                                                  *)
THEOREM NothingOutlivesTheObject == Spec => []NobodyLeftBehind
<1>1. Inductive => NobodyLeftBehind
  BY ThreadsAssumption DEF Inductive, Lifecycle, TypeOK, LifeInv, LoopInv, ReleaseInv, NobodyLeftBehind,
     Threads, Descriptors, Releasing
<1> QED BY <1>1, InductiveAlways, PTL

(* Only the epoll thread's own close(), two calls that overlap, or what the   *)
(* epoll thread's own work throws end in std::terminate: for any number of    *)
(* closers and senders that take turns, no join() fails and the destructor    *)
(* meets no joinable thread.                                                  *)
THEOREM TerminationHasCause == Spec => []TerminationCause
<1>1. Inductive => TerminationCause
  BY DEF Inductive
<1> QED BY <1>1, InductiveAlways, PTL

------------------------------------------------------------------------------
(* A join is not in vain: what there is to say about CloseEnds without        *)
(* fairness                                                                   *)

\* past its write to the eventfd, a close() has a loop that is not asleep, or
\* that epoll_wait is about to report the eventfd to
WokenInv == \A t \in Threads : at[t] \in {"join", "joining"} => (loop = "wait" => readable)

\* A close() that waits in join() waits for a loop that leaves: _running is
\* false, and a loop that sleeps in epoll_wait has the eventfd readable, however
\* the epoll thread emptied it meanwhile; the epoll thread itself never waits.
JoinIsHeard ==
  /\ \A t \in Threads : at[t] = "joining" => ~running /\ (loop = "wait" => readable)
  /\ at[Epoll] # "joining"

LEMMA WokenStep ==
  ASSUME TypeOK, LifeInv, LoopInv, WokenInv, at[Epoll] # "joining", [Next]_vars
  PROVE  WokenInv' /\ at'[Epoll] # "joining"
<1> USE ThreadsAssumption
<1> USE DEF TypeOK, WokenInv, Up, Goto, Threads, Stages, objectVars, flagVars, fdVars, historyVars
<1>1. ASSUME NEW d \in Descriptors, Opens(d)
      PROVE  WokenInv' /\ at'[Epoll] # "joining"
  BY <1>1 DEF Opens
<1>2. CASE ConnectFails \/ StartThread \/ AssignThread \/ Destroy \/ DestroyMembers
  BY <1>2 DEF ConnectFails, StartThread, AssignThread, Destroy, DestroyMembers
<1>3. ASSUME NEW t \in Callers \cup {Epoll}, CloseBegin(t)
      PROVE  WokenInv' /\ at'[Epoll] # "joining"
  BY <1>3 DEF CloseBegin
<1>4. ASSUME NEW t \in Callers \cup {Epoll}, Notify(t) \/ Mark(t) \/ StopRunning(t)
      PROVE  WokenInv' /\ at'[Epoll] # "joining"
  BY <1>4 DEF Notify, Mark, StopRunning
<1>5. ASSUME NEW t \in Callers \cup {Epoll}, Wake(t)
      PROVE  WokenInv' /\ at'[Epoll] # "joining"
  <2>1. loop = "wait" => descriptor["event"] = "open"
    BY DEF LoopInv, AllOpen, Descriptors
  <2> QED BY <1>5, <2>1 DEF Wake, WriteEvent
<1>6. ASSUME NEW t \in Callers \cup {Epoll}, JoinNothing(t) \/ JoinBegin(t)
      PROVE  WokenInv' /\ at'[Epoll] # "joining"
  BY <1>6 DEF JoinNothing, JoinBegin
<1>7. ASSUME NEW t \in Callers \cup {Epoll}, Joined(t)
      PROVE  WokenInv' /\ at'[Epoll] # "joining"
  BY <1>7 DEF Joined
<1>8. ASSUME NEW t \in Callers \cup {Epoll}, CloseDescriptor(t) \/ Forget(t)
      PROVE  WokenInv' /\ at'[Epoll] # "joining"
  BY <1>8 DEF CloseDescriptor, Forget, Descriptors
<1>9. ASSUME NEW t \in Senders, SendBegin(t) \/ SendWake(t)
      PROVE  WokenInv' /\ at'[Epoll] # "joining"
  BY <1>9 DEF SendBegin, SendWake, WriteEvent
<1>10. CASE Check
  BY <1>10 DEF Check, Step, LoopInv, Stopped
<1>11. CASE Hello \/ EventReady \/ Drain \/ ConfirmSeen \/ Confirm \/ SocketDone \/ SocketReady
  BY <1>11 DEF Hello, EventReady, Drain, ConfirmSeen, Confirm, SocketDone, SocketReady, Step
<1>12. CASE JoinSelf \/ Uncaught
  BY <1>12 DEF JoinSelf, Uncaught
<1>13. CASE UNCHANGED vars
  BY <1>13 DEF vars
<1> QED
  BY <1>1, <1>2, <1>3, <1>4, <1>5, <1>6, <1>7, <1>8, <1>9, <1>10, <1>11, <1>12, <1>13
  DEF Next, Construct, CloseRest, LoopStep

(* No close() waits for a loop that nothing wakes.                            *)
THEOREM JoinsAreHeard == Spec => []JoinIsHeard
<1> DEFINE I == WokenInv /\ at[Epoll] # "joining"
<1>1. Init => I
  BY DEF Init, WokenInv, Threads
<1>2. Inductive /\ I /\ [Next]_vars => I'
  BY WokenStep DEF Inductive, Lifecycle
<1>3. Inductive /\ I => JoinIsHeard
  BY DEF Inductive, Lifecycle, LoopInv, WokenInv, JoinIsHeard, Stopped
<1> QED BY <1>1, <1>2, <1>3, InductiveAlways, PTL DEF Spec
==============================================================================
