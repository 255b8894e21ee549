----------------------------- MODULE ServerTable -----------------------------
(* The server's epoll loop over several connections: the map _connections     *)
(* from identifiers to connections, the map _fdToId from descriptors to       *)
(* identifiers, the batches of events that epoll_wait returns, the commands   *)
(* of the workers, and peers that connect, send and leave at any moment.      *)
(* Descriptors are reused as soon as they are closed, identifiers never.      *)
(* The handshake is Session's matter: what a peer sends here is a request or  *)
(* something that cannot be read or validated.                                *)
EXTENDS Naturals, Sequences, FiniteSets

CONSTANTS
  Fds,              \* descriptors that accept() can return
  CmdFd, ListenFd,  \* _cmdEvFd and the listening socket
  NoFd,             \* -1
  MaxEvents,        \* events one epoll_wait returns (64 in the code)
  MaxConnections,   \* the backlog handed to ::listen
  ErrHandled,       \* does the handler of setOnError return true?
  MaxPeers,         \* bound: peers that connect
  MaxCommands       \* bound: commands pushed

ASSUME FdsAssumption == CmdFd \notin Fds /\ ListenFd \notin Fds /\ NoFd \notin Fds
ASSUME BoundsAssumption == MaxPeers \in Nat /\ MaxCommands \in Nat
ASSUME HandlerAssumption == ErrHandled \in BOOLEAN

\* peers are numbered in the order in which accept() returns them
Peers == 1 .. MaxPeers
Ids == 1 .. MaxPeers

VARIABLES
  connCount,    \* ClientConnection::_connCount
  connections,  \* the keys of _connections
  connFd,       \* per connection object: _fd, NoFd once it is CLOSED
  fdToId,       \* _fdToId, 0 for a descriptor without an entry
  sockets,      \* per descriptor: the peer whose socket the process has open there, 0 when it is free
  at,           \* where the loop is: "wait", "events", "accept", "drain"; "down" when listen() was left
  batch,        \* the events of this epoll_wait not looked at yet
  batchStart,   \* connCount when they were collected
  cmds,         \* _commandQueue
  dialled,      \* number of peers that have connected, accepted or not
  peerUp,       \* per peer: has it not closed its end?
  inbox,        \* per peer: what its socket holds unread: "none", "good", "bad"
  known,        \* identifiers the handlers have learned, with the peer that asked
  pushed,       \* number of commands pushed so far
  acted         \* the peer a command was meant for and the peer it was carried out on

tableVars == <<connCount, connections, connFd, fdToId, sockets>>
peerVars == <<dialled, peerUp, inbox>>
workVars == <<known, pushed>>
vars == <<tableVars, at, batch, batchStart, cmds, peerVars, workVars, acted>>

Init ==
  /\ connCount = 0 /\ connections = {}
  /\ connFd = [id \in Ids |-> NoFd]
  /\ fdToId = [f \in Fds |-> 0] /\ sockets = [f \in Fds |-> 0]
  /\ at = "wait" /\ batch = {} /\ batchStart = 0 /\ cmds = <<>>
  /\ dialled = 0 /\ peerUp = [p \in Peers |-> TRUE] /\ inbox = [p \in Peers |-> "none"]
  /\ known = {} /\ pushed = 0 /\ acted = {}

\* a connection that is in the table and not CLOSED
Open(id) == id \in connections /\ connFd[id] # NoFd
OpenIds == {id \in connections : connFd[id] # NoFd}
UsedFds == {f \in Fds : sockets[f] # 0}

\* the peer that a call on the connection's _fd reaches, 0 when the call gets EBADF
Socket(id) == IF connFd[id] = NoFd THEN 0 ELSE sockets[connFd[id]]

\* fault: the descriptor is closed, _fd keeps its number
CloseFdKept(id) ==
  /\ sockets' = IF connFd[id] = NoFd THEN sockets ELSE [sockets EXCEPT ![connFd[id]] = 0]
  /\ connFd' = connFd

\* closeConnection: `close(_fd); _fd = -1`, unless it is CLOSED
CloseFd(id) ==
  /\ sockets' = IF connFd[id] = NoFd THEN sockets ELSE [sockets EXCEPT ![connFd[id]] = 0]
  /\ connFd' = [connFd EXCEPT ![id] = NoFd]

------------------------------------------------------------------------------
(* The peers and the kernel                                                   *)

\* a peer connects; the kernel holds the backlog and one more
Dial ==
  /\ dialled < MaxPeers /\ dialled - connCount <= MaxConnections
  /\ dialled' = dialled + 1
  /\ UNCHANGED <<tableVars, at, batch, batchStart, cmds, peerUp, inbox, workVars, acted>>

PeerSends(p) ==
  /\ p <= dialled /\ peerUp[p] /\ inbox[p] = "none"
  /\ \E data \in {"good", "bad"} : inbox' = [inbox EXCEPT ![p] = data]
  /\ UNCHANGED <<tableVars, at, batch, batchStart, cmds, dialled, peerUp, workVars, acted>>

PeerHangs(p) ==
  /\ p <= dialled /\ peerUp[p]
  /\ peerUp' = [peerUp EXCEPT ![p] = FALSE]
  /\ UNCHANGED <<tableVars, at, batch, batchStart, cmds, dialled, inbox, workVars, acted>>

Event(f, hup) == [fd |-> f, hup |-> hup]

\* what epoll has to report: EPOLLRDHUP of a peer that left, EPOLLIN of unread data
ReadyFds == {f \in UsedFds : ~peerUp[sockets[f]] \/ inbox[sockets[f]] # "none"}
Ready ==
  (IF cmds # <<>> THEN {Event(CmdFd, FALSE)} ELSE {})
    \cup (IF dialled > connCount THEN {Event(ListenFd, FALSE)} ELSE {})
    \cup {Event(f, ~peerUp[sockets[f]]) : f \in ReadyFds}

------------------------------------------------------------------------------
(* The epoll loop                                                             *)

\* epoll_wait: everything that is ready, or MaxEvents of it.  The events are
\* handled in any order: that of the ready list is the kernel's
Collect ==
  /\ at = "wait" /\ Ready # {}
  /\ batch' \in {S \in SUBSET Ready : IF Cardinality(Ready) <= MaxEvents THEN S = Ready
                                      ELSE Cardinality(S) = MaxEvents}
  /\ batchStart' = connCount /\ at' = "events"
  /\ UNCHANGED <<tableVars, cmds, peerVars, workVars, acted>>

\* the batch is done; epoll_wait is next
BatchDone ==
  /\ at = "events" /\ batch = {}
  /\ at' = "wait"
  /\ UNCHANGED <<tableVars, batch, batchStart, cmds, peerVars, workVars, acted>>

\* the next event of the batch
Take(e) == at = "events" /\ e \in batch /\ batch' = batch \ {e}

CommandEvent(e) ==
  /\ Take(e) /\ e.fd = CmdFd
  /\ at' = "drain"
  /\ UNCHANGED <<tableVars, batchStart, cmds, peerVars, workVars, acted>>

ListenEvent(e) ==
  /\ Take(e) /\ e.fd = ListenFd
  /\ at' = "accept"
  /\ UNCHANGED <<tableVars, batchStart, cmds, peerVars, workVars, acted>>

\* _connId = ++_connCount
NewId == connCount + 1

\* fault: emplace(), which leaves an entry of _fdToId as it is
RegisterKeeping(f, id) == [fdToId EXCEPT ![f] = IF fdToId[f] = 0 THEN id ELSE fdToId[f]]

\* fault: _connCount as it was before the connection was made
RegisterCountBefore(f, id) == [fdToId EXCEPT ![f] = id - 1]

\* _fdToId[clientFd] = conn->id()
Register(f, id) == [fdToId EXCEPT ![f] = id]

\* accept() returns a descriptor that is free, for the peer that has waited longest
Accept ==
  /\ at = "accept" /\ dialled > connCount
  /\ connCount' = connCount + 1
  /\ \E f \in Fds \ UsedFds :
       /\ connections' = connections \cup {NewId}
       /\ connFd' = [connFd EXCEPT ![NewId] = f]
       /\ sockets' = [sockets EXCEPT ![f] = connCount + 1]
       /\ fdToId' = Register(f, NewId)
  /\ UNCHANGED <<at, batch, batchStart, cmds, peerVars, workVars, acted>>

\* EAGAIN, or EMFILE when every descriptor is taken
AcceptEnds ==
  /\ at = "accept" /\ (dialled = connCount \/ Fds \subseteq UsedFds)
  /\ at' = "events"
  /\ UNCHANGED <<tableVars, batch, batchStart, cmds, peerVars, workVars, acted>>

\* the connection an event of f is taken to be for: none or one
Target(f) == {id \in connections : fdToId[f] = id}

\* `delete conn; _connections.erase(...)`: the destructor closes the descriptor
\* if it is open, _fdToId is left as it is
Delete(id) ==
  /\ connections' = connections \ {id}
  /\ CloseFd(id)
  /\ UNCHANGED <<connCount, fdToId>>

NoTarget(e) ==
  /\ Take(e) /\ e.fd \in Fds /\ Target(e.fd) = {}
  /\ UNCHANGED <<tableVars, at, batchStart, cmds, peerVars, workVars, acted>>

\* EPOLLRDHUP | EPOLLHUP
Hangup(e, id) ==
  /\ Take(e) /\ e.fd \in Fds /\ id \in Target(e.fd) /\ e.hup
  /\ Delete(id)
  /\ UNCHANGED <<at, batchStart, cmds, peerVars, workVars, acted>>

\* a send on a socket that is full, or whose peer has left, fails: sendFrame
\* closes the connection with a reason, closeConnection sends the notice of it on
\* the same socket, and the calls recurse until one gets through or the server ends
AfterSend(sends) == IF sends THEN {at, "down"} ELSE {at}

\* readFd returns false: recv fails on the descriptor of a CLOSED connection,
\* the peer has left meanwhile, or a frame is refused
ReadEnds(id) == ~(Socket(id) # 0 /\ peerUp[Socket(id)] /\ inbox[Socket(id)] # "bad")

\* a frame that is refused is answered with a notice, which may fail as any send
ReadFails(e, id) ==
  /\ Take(e) /\ e.fd \in Fds /\ id \in Target(e.fd) /\ ~e.hup /\ ReadEnds(id)
  /\ Delete(id)
  /\ at' \in AfterSend(Socket(id) # 0 /\ inbox[Socket(id)] = "bad")
  /\ UNCHANGED <<batchStart, cmds, peerVars, workVars, acted>>

\* readFd returns true: the requests that were there go to the handlers, which
\* learn the identifier; there may be nothing there at all
ReadFd(e, id) ==
  /\ Take(e) /\ e.fd \in Fds /\ id \in Target(e.fd) /\ ~e.hup /\ ~ReadEnds(id)
  /\ LET p == Socket(id) IN
       /\ inbox' = [inbox EXCEPT ![p] = "none"]
       /\ known' = IF inbox[p] = "good" THEN known \cup {<<id, p>>} ELSE known
  /\ UNCHANGED <<tableVars, at, batchStart, cmds, dialled, peerUp, pushed, acted>>

------------------------------------------------------------------------------
(* Commands                                                                   *)

\* sendResponse pushes only what is for a connection in the table,
\* closeConnection pushes in any case
PushCommand(k) ==
  /\ pushed < MaxCommands
  /\ \E op \in (IF k[1] \in connections THEN {"send", "close"} ELSE {"close"}) :
       cmds' = Append(cmds, [op |-> op, id |-> k[1], for |-> k[2]])
  /\ pushed' = pushed + 1
  /\ UNCHANGED <<tableVars, at, batch, batchStart, peerVars, known, acted>>

\* tryPop finds a command
Pop == at = "drain" /\ cmds # <<>> /\ cmds' = Tail(cmds)

DrainEnds ==
  /\ at = "drain" /\ cmds = <<>>
  /\ at' = "events"
  /\ UNCHANGED <<tableVars, batch, batchStart, cmds, peerVars, workVars, acted>>

\* "Connection not found": _onErr throws out of listen() unless it is handled
CommandUnknown ==
  /\ Pop /\ Head(cmds).id \notin connections
  /\ at' = IF ErrHandled THEN at ELSE "down"
  /\ UNCHANGED <<tableVars, batch, batchStart, peerVars, workVars, acted>>

\* a CLOSED connection sends nothing and is not closed again
CommandIdle ==
  /\ Pop /\ Head(cmds).id \in connections /\ ~Open(Head(cmds).id)
  /\ UNCHANGED <<tableVars, at, batch, batchStart, peerVars, workVars, acted>>

\* the command's system calls reach the socket that _fd names now
Act == acted' = acted \cup {<<Head(cmds).for, Socket(Head(cmds).id)>>}

\* sendFrame: the response is sent, or all the notices fail with it
CommandSend ==
  /\ Pop /\ Head(cmds).op = "send" /\ Open(Head(cmds).id)
  /\ Act
  /\ at' \in AfterSend(TRUE)
  /\ UNCHANGED <<tableVars, batch, batchStart, peerVars, workVars>>

\* what ends in closeConnection: CLOSE, or a send that fails and whose notice is
\* sent.  The descriptor is closed, the entry stays, the loop goes on
CommandCloses ==
  /\ Pop /\ Open(Head(cmds).id)
  /\ Act
  /\ CloseFd(Head(cmds).id)
  /\ UNCHANGED <<connCount, connections, fdToId, at, batch, batchStart, peerVars, workVars>>

------------------------------------------------------------------------------
EventStep(e) ==
  \/ CommandEvent(e) \/ ListenEvent(e) \/ NoTarget(e)
  \/ \E id \in Ids : Hangup(e, id) \/ ReadFails(e, id) \/ ReadFd(e, id)

LoopStep ==
  \/ Collect \/ BatchDone \/ (\E e \in batch : EventStep(e))
  \/ Accept \/ AcceptEnds
  \/ CommandUnknown \/ CommandIdle \/ CommandSend \/ CommandCloses \/ DrainEnds

PeerStep == Dial \/ \E p \in Peers : PeerSends(p) \/ PeerHangs(p)

Next == LoopStep \/ PeerStep \/ \E k \in known : PushCommand(k)

Spec == Init /\ [][Next]_vars

\* the epoll thread runs
FairSpec == Spec /\ WF_vars(LoopStep)

------------------------------------------------------------------------------
\* Every variable has its type; identifiers in use have been given out.
TypeOK ==
  /\ connCount \in Nat /\ dialled \in 0 .. MaxPeers /\ connCount <= dialled
  /\ connections \subseteq 1 .. connCount
  /\ connFd \in [Ids -> Fds \cup {NoFd}]
  /\ fdToId \in [Fds -> 0 .. MaxPeers] /\ sockets \in [Fds -> 0 .. MaxPeers]
  /\ at \in {"wait", "events", "accept", "drain", "down"}
  /\ batch \subseteq [fd : Fds \cup {CmdFd, ListenFd}, hup : BOOLEAN]
  /\ batchStart \in 0 .. connCount
  /\ cmds \in Seq([op : {"send", "close"}, id : Ids, for : Peers])
  /\ peerUp \in [Peers -> BOOLEAN] /\ inbox \in [Peers -> {"none", "good", "bad"}]
  /\ known \subseteq Ids \X Peers /\ pushed \in Nat /\ acted \subseteq Peers \X (0 .. MaxPeers)

\* An open connection is found through its descriptor: _fdToId, which is never
\* cleaned, names the connection that was given the descriptor last, and that
\* is the open one.
Reachable == \A id \in OpenIds : fdToId[connFd[id]] = id

\* A command is carried out on the socket of the peer whose request it answers, or
\* on none, however late it is handled: the connection may have been closed and
\* kept in the table, its descriptor may be another peer's by then, and _fdToId may
\* still lead from it to the old connection.
OwnConnection == \A a \in acted : a[2] \in {a[1], 0}

\* Why a connection may be deleted: it was CLOSED, its peer left or sent
\* something bad, or it was accepted after the events in hand were collected
\* (its descriptor is the old one of an event of the same batch).
DeletedForCause ==
  [][\A id \in connections \ connections' :
       ReadEnds(id) \/ id > batchStart]_vars

------------------------------------------------------------------------------
(* A claim of the README, and liveness                                        *)

\* The README's maxConnections: "Maximum simultaneous connections".
SimultaneousConnections == Cardinality(OpenIds) <= MaxConnections

\* The socket of a peer that has left is closed, unless the server has ended.
HangupNoticed ==
  \A p \in Peers :
    (~peerUp[p] /\ \E f \in Fds : sockets[f] = p)
      ~> ((\A f \in Fds : sockets[f] # p) \/ at = "down")
==============================================================================
