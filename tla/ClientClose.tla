----------------------------- MODULE ClientClose -----------------------------
(* The life of a client Connection: the constructor, which opens the          *)
(* descriptors and starts the epoll thread; send() and close() called by any  *)
(* thread; close() called by the epoll thread itself; and the destructor.     *)
(* What is sent, and in which order, is Session's and Mailbox's matter: here  *)
(* the epoll thread only uses the descriptors.                                *)
EXTENDS Naturals, FiniteSets

CONSTANTS
  Owner,      \* the thread that constructs and destroys the Connection
  Callers,    \* the threads that call close(), the owner among them
  Senders,    \* other threads, that call send()
  Epoll       \* the epoll thread

ASSUME ThreadsAssumption ==
  Owner \in Callers /\ Epoll \notin Callers \cup Senders /\ Callers \cap Senders = {}

VARIABLES
  process,     \* "up", or "terminated" by std::terminate
  object,      \* the Connection: "connecting", "starting", "alive", "dying", "destroyed", "failed"
  descriptor,  \* per descriptor: "unset" (-1), "open", "closed" (the number is still in the member)
  running,     \* _running
  state,       \* _state
  thread,      \* _epollThread: "none", "joinable", "joined"
  loop,        \* where the epoll thread is: "leaving" once it has called close() itself
  readable,    \* is the counter of the eventfd above zero?
  at,          \* per thread: where it is in close() or send(), "idle" outside
  closers,     \* the threads that passed the test of close()
  notices,     \* number of calls of _onClose
  closes,      \* per descriptor: number of ::close of its number
  stray,       \* was the eventfd written after it was closed?
  overlapped,  \* did a close() meet another call that was past its test?
  threw        \* did an exception of its own work leave the epoll thread?

objectVars == <<object, thread>>
flagVars == <<running, state>>
fdVars == <<descriptor, readable, closes, stray>>
historyVars == <<closers, notices, overlapped, threw>>
vars == <<process, objectVars, fdVars, flagVars, loop, at, historyVars>>

Threads == Callers \cup Senders \cup {Epoll}
Descriptors == {"socket", "epoll", "event"}

Init ==
  /\ process = "up" /\ object = "connecting" /\ thread = "none"
  /\ descriptor = [d \in Descriptors |-> "unset"] /\ readable = FALSE
  /\ closes = [d \in Descriptors |-> 0] /\ stray = FALSE
  /\ running = FALSE /\ state = "handshake"
  /\ loop = "unborn" /\ at = [t \in Threads |-> "idle"]
  /\ closers = {} /\ notices = 0 /\ overlapped = FALSE /\ threw = FALSE

Up == process = "up"
Goto(t, stage) == at' = [at EXCEPT ![t] = stage]

\* fault: `_state == CLOSED` alone
NotClosedByState == state # "closed"

\* `!_running || _state == ConnectionState::CLOSED`, the early return
NotClosed == running /\ state # "closed"

------------------------------------------------------------------------------
(* Constructor and destructor                                                 *)

\* socket() and connect(), epoll_create1(), eventfd(), in this order
Opens(d) ==
  /\ Up /\ object = "connecting" /\ descriptor[d] = "unset"
  /\ d = "epoll" => descriptor["socket"] = "open"
  /\ d = "event" => descriptor["epoll"] = "open"
  /\ descriptor' = [descriptor EXCEPT ![d] = "open"]
  /\ UNCHANGED <<process, objectVars, flagVars, readable, closes, stray, loop, at, historyVars>>

\* any of the calls fails: throwErr leaves the constructor, no destructor runs
\* and what is open stays open
ConnectFails ==
  /\ Up /\ object = "connecting"
  /\ object' = "failed"
  /\ UNCHANGED <<process, thread, flagVars, fdVars, loop, at, historyVars>>

\* _running = true; the thread starts before _epollThread is assigned
StartThread ==
  /\ Up /\ object = "connecting" /\ descriptor["event"] = "open"
  /\ object' = "starting" /\ running' = TRUE /\ loop' = "hello"
  /\ UNCHANGED <<process, thread, state, fdVars, at, historyVars>>

AssignThread ==
  /\ Up /\ object = "starting"
  /\ object' = "alive" /\ thread' = "joinable"
  /\ UNCHANGED <<process, flagVars, fdVars, loop, at, historyVars>>

\* ~Connection begins: no application thread is in the object or calls it again
Destroy ==
  /\ Up /\ object = "alive" /\ \A t \in Callers \cup Senders : at[t] = "idle"
  /\ object' = "dying"
  /\ UNCHANGED <<process, thread, flagVars, fdVars, loop, at, historyVars>>

\* close() has returned, the members go: ~std::thread of a joinable thread
\* calls std::terminate
DestroyMembers ==
  /\ Up /\ object = "dying" /\ at[Owner] = "idle" /\ ~NotClosed
  /\ IF thread = "joinable"
       THEN process' = "terminated" /\ UNCHANGED object
       ELSE object' = "destroyed" /\ UNCHANGED process
  /\ UNCHANGED <<thread, flagVars, fdVars, loop, at, historyVars>>

------------------------------------------------------------------------------
(* close(), by a caller, by the destructor or by the epoll thread             *)

\* the threads that may enter close() now: the epoll thread does so for a
\* hang-up, a failing recv, a refused frame, and when onResponse calls close()
MayClose(t) ==
  \/ t \in Callers /\ object = "alive"
  \/ t = Owner /\ object = "dying"
  \/ t = Epoll /\ loop = "socket"

CloseBegin(t) ==
  /\ Up /\ MayClose(t) /\ at[t] = "idle" /\ NotClosed
  /\ Goto(t, "notify")
  /\ closers' = closers \cup {t}
  /\ loop' = IF t = Epoll THEN "leaving" ELSE loop
  /\ overlapped' = (overlapped \/ \E u \in Threads \ {t} : at[u] \notin {"idle", "send"})
  /\ UNCHANGED <<process, objectVars, flagVars, fdVars, notices, threw>>

\* _onClose(), before anything has changed
Notify(t) ==
  /\ Up /\ at[t] = "notify"
  /\ Goto(t, "mark")
  /\ notices' = notices + 1
  /\ UNCHANGED <<process, objectVars, flagVars, fdVars, loop, closers, overlapped, threw>>

\* _state = CLOSED
Mark(t) ==
  /\ Up /\ at[t] = "mark"
  /\ Goto(t, "stop")
  /\ state' = "closed"
  /\ UNCHANGED <<process, objectVars, running, fdVars, loop, historyVars>>

\* _running = false
StopRunning(t) ==
  /\ Up /\ at[t] = "stop"
  /\ Goto(t, "wake")
  /\ running' = FALSE
  /\ overlapped' = (overlapped \/ \E u \in Threads \ {t} : at[u] # "idle")
  /\ UNCHANGED <<process, objectVars, state, fdVars, loop, closers, notices, threw>>

\* a write to the number in _cmdEvFd: of the eventfd, of a descriptor closed
\* meanwhile, or of -1
WriteEvent ==
  /\ readable' = (readable \/ descriptor["event"] = "open")
  /\ stray' = (stray \/ descriptor["event"] = "closed")
  /\ UNCHANGED <<descriptor, closes>>

\* fault: no write after _running = false
WakeSilent(t) ==
  /\ Up /\ at[t] = "wake"
  /\ Goto(t, "join")
  /\ UNCHANGED <<process, objectVars, flagVars, fdVars, loop, historyVars>>

Wake(t) ==
  /\ Up /\ at[t] = "wake"
  /\ Goto(t, "join")
  /\ WriteEvent
  /\ UNCHANGED <<process, objectVars, flagVars, loop, historyVars>>

\* joinable() is false
JoinNothing(t) ==
  /\ Up /\ at[t] = "join" /\ thread # "joinable"
  /\ Goto(t, "socket")
  /\ UNCHANGED <<process, objectVars, flagVars, fdVars, loop, historyVars>>

\* joinable() is true, and join() is called on the thread itself: it throws
\* std::system_error, which nobody catches
JoinSelf ==
  /\ Up /\ at[Epoll] = "join" /\ thread = "joinable"
  /\ process' = "terminated"
  /\ UNCHANGED <<objectVars, flagVars, fdVars, loop, at, historyVars>>

\* fault: no join()
JoinForgotten(t) ==
  /\ Up /\ at[t] = "join" /\ thread = "joinable" /\ t # Epoll
  /\ Goto(t, "socket")
  /\ UNCHANGED <<process, objectVars, flagVars, fdVars, loop, historyVars>>

\* joinable() is true; join() begins
JoinBegin(t) ==
  /\ Up /\ at[t] = "join" /\ thread = "joinable" /\ t # Epoll
  /\ Goto(t, "joining")
  /\ UNCHANGED <<process, objectVars, flagVars, fdVars, loop, historyVars>>

\* fault: detach() for join()
Detached(t) ==
  /\ Up /\ at[t] = "joining"
  /\ thread' = "joined"
  /\ Goto(t, "socket")
  /\ UNCHANGED <<process, object, flagVars, fdVars, loop, historyVars>>

\* the thread has ended; for a second join() of it everything is possible, and
\* an exception or a normal return are what there is
Joined(t) ==
  /\ Up /\ at[t] = "joining" /\ loop = "exited"
  /\ thread' = "joined"
  /\ \/ Goto(t, "socket") /\ UNCHANGED process
     \/ thread = "joined" /\ process' = "terminated" /\ UNCHANGED at
  /\ UNCHANGED <<object, flagVars, fdVars, loop, historyVars>>

\* fault: the eventfd is not closed
CloseTwoDescriptors(t) ==
  /\ Up /\ at[t] \in Descriptors
  /\ Goto(t, IF at[t] = "socket" THEN "epoll" ELSE "forget")
  /\ descriptor' = [descriptor EXCEPT ![at[t]] = "closed"]
  /\ closes' = [closes EXCEPT ![at[t]] = @ + 1]
  /\ UNCHANGED <<process, objectVars, flagVars, readable, stray, loop, historyVars>>

\* `if (_socket != -1) ::close(_socket)`, then the same for the other two
CloseDescriptor(t) ==
  /\ Up /\ at[t] \in Descriptors
  /\ Goto(t, CASE at[t] = "socket" -> "epoll" [] at[t] = "epoll" -> "event" [] OTHER -> "forget")
  /\ IF descriptor[at[t]] = "unset"
       THEN UNCHANGED <<descriptor, closes>>
       ELSE /\ descriptor' = [descriptor EXCEPT ![at[t]] = "closed"]
            /\ closes' = [closes EXCEPT ![at[t]] = @ + 1]
  /\ UNCHANGED <<process, objectVars, flagVars, readable, stray, loop, historyVars>>

\* the members are set to -1, close() returns
Forget(t) ==
  /\ Up /\ at[t] = "forget"
  /\ Goto(t, "idle")
  /\ descriptor' = [d \in Descriptors |-> "unset"]
  /\ UNCHANGED <<process, objectVars, flagVars, readable, closes, stray, loop, historyVars>>

------------------------------------------------------------------------------
(* send()                                                                     *)

SendBegin(t) ==
  /\ Up /\ object = "alive" /\ at[t] = "idle" /\ NotClosed
  /\ Goto(t, "send")
  /\ UNCHANGED <<process, objectVars, flagVars, fdVars, loop, historyVars>>

\* the command is in the queue (Mailbox); the eventfd is written
SendWake(t) ==
  /\ Up /\ at[t] = "send"
  /\ Goto(t, "idle")
  /\ WriteEvent
  /\ UNCHANGED <<process, objectVars, flagVars, loop, historyVars>>

------------------------------------------------------------------------------
(* The epoll thread                                                           *)

Step(from, to) ==
  /\ Up /\ loop = from /\ loop' = to
  /\ UNCHANGED <<process, objectVars, at, historyVars>>

\* _doHandshake makes the key, encrypts it and writes it to the socket
Hello == Step("hello", "check") /\ UNCHANGED <<flagVars, fdVars>>

\* `while (_running)`
Check ==
  \/ running /\ Step("check", "wait") /\ UNCHANGED <<flagVars, fdVars>>
  \/ ~running /\ Step("check", "exited") /\ UNCHANGED <<flagVars, fdVars>>

\* epoll_wait reports the eventfd, which is read to zero
EventReady ==
  /\ readable /\ Step("wait", "drain")
  /\ readable' = FALSE
  /\ UNCHANGED <<flagVars, descriptor, closes, stray>>

\* the commands are popped and written to the socket
Drain == Step("drain", "check") /\ UNCHANGED <<flagVars, fdVars>>

\* epoll_wait reports the socket: data or a hang-up
SocketReady == Step("wait", "socket") /\ UNCHANGED <<flagVars, fdVars>>

\* the confirmation: `_state == HANDSHAKE` is read, and CONNECTED is written
\* later
ConfirmSeen ==
  state = "handshake" /\ Step("socket", "confirm") /\ UNCHANGED <<flagVars, fdVars>>

Confirm ==
  Step("confirm", "socket") /\ state' = "connected" /\ UNCHANGED <<running, fdVars>>

\* an exception leaves the epoll thread: generateAESKey and rsaEncrypt of the
\* hello, aesEncrypt of a command, aesDecrypt and the failed handshake of a frame
\* throw std::runtime_error; _parseFrames catches FMXPException, nobody else
\* anything.  The handler of a response may throw as well
Uncaught ==
  /\ Up /\ loop \in {"hello", "drain", "socket", "leaving"} /\ at[Epoll] = "idle"
  /\ process' = "terminated" /\ threw' = TRUE
  /\ UNCHANGED <<objectVars, flagVars, fdVars, loop, at, closers, notices, overlapped>>

\* the events of the batch are done; a close() of the epoll thread has returned
SocketDone ==
  /\ at[Epoll] = "idle"
  /\ Step("socket", "check") \/ Step("leaving", "check")
  /\ UNCHANGED <<flagVars, fdVars>>

------------------------------------------------------------------------------
Construct == (\E d \in Descriptors : Opens(d)) \/ ConnectFails \/ StartThread \/ AssignThread

CloseRest(t) ==
  \/ Notify(t) \/ Mark(t) \/ StopRunning(t) \/ Wake(t)
  \/ JoinNothing(t) \/ JoinBegin(t) \/ Joined(t) \/ CloseDescriptor(t) \/ Forget(t)

LoopStep ==
  Hello \/ Check \/ EventReady \/ Drain \/ ConfirmSeen \/ Confirm \/ SocketDone \/ JoinSelf

Next ==
  \/ Construct \/ Destroy \/ DestroyMembers
  \/ \E t \in Callers \cup {Epoll} : CloseBegin(t) \/ CloseRest(t)
  \/ \E t \in Senders : SendBegin(t) \/ SendWake(t)
  \/ LoopStep \/ SocketReady \/ Uncaught

Spec == Init /\ [][Next]_vars

\* a thread inside close() or send() goes on, the epoll thread runs, and
\* epoll_wait does not overlook a readable eventfd for ever; nothing need ever
\* arrive at the socket, and nobody need ever call
FairSpec ==
  /\ Spec
  /\ \A t \in Callers \cup {Epoll} : WF_vars(CloseRest(t))
  /\ \A t \in Senders : WF_vars(SendWake(t))
  /\ WF_vars(LoopStep) /\ SF_vars(EventReady)

------------------------------------------------------------------------------
Stages == {"idle", "notify", "mark", "stop", "wake", "join", "joining", "forget", "send"} \cup Descriptors

\* Every variable has its type.
TypeOK ==
  /\ process \in {"up", "terminated"}
  /\ object \in {"connecting", "starting", "alive", "dying", "destroyed", "failed"}
  /\ descriptor \in [Descriptors -> {"unset", "open", "closed"}]
  /\ running \in BOOLEAN /\ state \in {"handshake", "connected", "closed"}
  /\ thread \in {"none", "joinable", "joined"}
  /\ loop \in {"unborn", "hello", "check", "wait", "drain", "socket", "confirm", "leaving", "exited"}
  /\ readable \in BOOLEAN /\ at \in [Threads -> Stages]
  /\ closers \subseteq Threads /\ notices \in Nat /\ closes \in [Descriptors -> Nat]
  /\ stray \in BOOLEAN /\ overlapped \in BOOLEAN /\ threw \in BOOLEAN

\* The epoll thread never uses a descriptor that close() has closed under it:
\* whoever closes them has waited for the end of the loop, or is the epoll
\* thread on its way out.
DescriptorsOutliveLoop ==
  loop \in {"hello", "wait", "drain", "socket", "confirm"} =>
    \A d \in Descriptors : descriptor[d] = "open"

\* Calls of close() and send() that do not overlap take effect once: _onClose
\* is called once, each descriptor is closed once, and none is written to
\* afterwards, although _state may be CONNECTED again after close().
OnceUnlessOverlapped ==
  ~overlapped => notices <= 1 /\ ~stray /\ \A d \in Descriptors : closes[d] <= 1

\* A Connection is gone only after its thread, and with its descriptors
\* released: the destructor leaves neither behind, the constructor that throws
\* leaves no thread.
NobodyLeftBehind ==
  /\ object = "failed" => loop = "unborn"
  /\ object = "destroyed" =>
       loop = "exited" /\ thread = "joined" /\ \A d \in Descriptors : descriptor[d] = "unset" /\ closes[d] > 0

\* std::terminate has three causes: the epoll thread closed the connection itself,
\* two calls overlapped, or an exception that its own work threw left the epoll
\* thread.  Without them closing and destroying by turns is safe: no join() fails
\* and no joinable thread is destroyed, whatever the loop was doing.
TerminationCause == process = "terminated" => Epoll \in closers \/ overlapped \/ threw

\* What the README says of an invalid frame, "Connection closed": the epoll
\* thread's own close() leaves the process running, and the object to its owner.
InvalidFrameCloses ==
  Epoll \in closers /\ object = "alive" /\ ~threw => process # "terminated"

\* A close() that has begun returns, unless the process ends: the loop is woken
\* and leaves, and the thread that waits for it goes on.
CloseEnds ==
  \A t \in Callers : at[t] # "idle" ~> (at[t] = "idle" \/ ~Up)
==============================================================================
