------------------------------ MODULE ServerStop ------------------------------
(* Who may still use a ClientConnection when it is deleted.  The objects are  *)
(* reached through the map _connections by the epoll loop, by the workers,    *)
(* which look a connection up before they push, and by stop(), which another  *)
(* thread calls; the destructor calls stop() again and destroys the members   *)
(* while workers may still run tasks.  No lock covers any of it.  The command *)
(* queue, the eventfd and _running are Mailbox, which this module extends.    *)
EXTENDS Mailbox

CONSTANTS
  Ids,      \* identifiers of the connections that are accepted
  NoId      \* no connection

ASSUME IdsAssumption == NoId \notin Ids

VARIABLES
  table,    \* the keys of _connections
  heap,     \* per connection: "unborn", "live", "late": live and accepted while stop() was
            \* between its loop and its clear(), or the thread that deleted it
  dest,     \* the connections the pushed commands are for
  held,     \* per worker: the connection its lookup found, not used yet
  grip,     \* the connection the loop's lookup found, not used yet
  erasing,  \* the loop has deleted it and not erased it yet
  owner,    \* the thread that calls stop() and the destructor
  visited,  \* the entries its loop over _connections has passed
  misused   \* uses of a deleted object: who used it and who had deleted it

lifeVars == <<table, heap, misused>>
loopVars == <<grip, erasing>>
ownerVars == <<owner, visited>>
serverVars == <<vars, lifeVars, dest, held, loopVars, ownerVars>>

ServerInit ==
  /\ Init
  /\ table = {} /\ heap = [id \in Ids |-> "unborn"] /\ misused = {}
  /\ dest = <<>> /\ held = [w \in Producers |-> NoId]
  /\ grip = NoId /\ erasing = FALSE
  /\ owner = "serving" /\ visited = {}

Alive(id) == heap[id] \in {"live", "late"}

\* `it->second->...`
Uses(who, id) ==
  misused' = IF Alive(id) THEN misused ELSE misused \cup {<<who, heap[id]>>}

\* `delete it->second`; the destructor closes the socket
Deletes(who, id) ==
  /\ Uses(who, id)
  /\ heap' = [heap EXCEPT ![id] = IF Alive(id) THEN who ELSE @]

------------------------------------------------------------------------------
(* Workers: sendResponse() and closeConnection(), which the Responder calls   *)

MembersGone == owner \in {"gone", "destroyed"}

\* _connections.find finds it
WorkerFind(w, id) ==
  /\ producer[w] = "idle" /\ held[w] = NoId /\ ~MembersGone /\ pushed < MaxPushes
  /\ id \in table
  /\ held' = [held EXCEPT ![w] = id]
  /\ UNCHANGED <<vars, lifeVars, dest, loopVars, ownerVars>>

\* makeRespFrame of what was found, and the push
WorkerSend(w) ==
  /\ held[w] # NoId /\ ~MembersGone
  /\ Uses("worker", held[w])
  /\ Push(w) /\ dest' = Append(dest, held[w])
  /\ held' = [held EXCEPT ![w] = NoId]
  /\ UNCHANGED <<table, heap, loopVars, ownerVars>>

\* closeConnection: no lookup
WorkerClose(w, id) ==
  /\ held[w] = NoId /\ heap[id] # "unborn" /\ ~MembersGone
  /\ Push(w) /\ dest' = Append(dest, id)
  /\ UNCHANGED <<lifeVars, held, loopVars, ownerVars>>

WorkerWake(w) ==
  Wake(w) /\ UNCHANGED <<lifeVars, dest, held, loopVars, ownerVars>>

\* a task that is still run when the members have been destroyed: ~ThreadPool
\* comes after the queue, the responder and the map, and drains its tasks
WorkerLate(w) ==
  /\ owner = "gone" /\ producer[w] = "idle"
  /\ held[w] # NoId \/ <<"worker", "destructor">> \notin misused
  /\ misused' = misused \cup {<<"worker", "destructor">>}
  /\ held' = [held EXCEPT ![w] = NoId]
  /\ UNCHANGED <<vars, table, heap, dest, loopVars, ownerVars>>

------------------------------------------------------------------------------
(* The epoll loop: events and commands                                        *)

InEvents == loop = "wait" /\ grip = NoId

\* fault: the new connection is not entered in _connections
AcceptUnlisted(id) ==
  /\ InEvents /\ heap[id] = "unborn"
  /\ heap' = [heap EXCEPT ![id] = IF owner = "clearing" THEN "late" ELSE "live"]
  /\ UNCHANGED <<vars, table, misused, dest, held, loopVars, ownerVars>>

\* `_connections[conn->id()] = conn`; tested neither here nor later: _running
Accept(id) ==
  /\ InEvents /\ heap[id] = "unborn"
  /\ heap' = [heap EXCEPT ![id] = IF owner = "clearing" THEN "late" ELSE "live"]
  /\ table' = table \cup {id}
  /\ UNCHANGED <<vars, misused, dest, held, loopVars, ownerVars>>

\* the event of a connection: both lookups succeed
EventFor(id) ==
  /\ InEvents /\ id \in table
  /\ grip' = id
  /\ UNCHANGED <<vars, lifeVars, dest, held, erasing, ownerVars>>

\* readFd returns true
ReadFd ==
  /\ loop = "wait" /\ grip # NoId /\ ~erasing
  /\ Uses("loop", grip)
  /\ grip' = NoId
  /\ UNCHANGED <<vars, table, heap, dest, held, erasing, ownerVars>>

\* a hang-up of what the map still holds, or readFd returns false: `delete`
EventDelete ==
  /\ loop = "wait" /\ grip # NoId /\ ~erasing
  /\ Deletes("loop", grip)
  /\ erasing' = TRUE
  /\ UNCHANGED <<vars, table, dest, held, grip, ownerVars>>

\* a hang-up looks it up again and finds nothing
EventGone ==
  /\ loop = "wait" /\ grip # NoId /\ ~erasing /\ grip \notin table
  /\ grip' = NoId
  /\ UNCHANGED <<vars, lifeVars, dest, held, erasing, ownerVars>>

\* fault: deleted and not erased
NotErased ==
  /\ erasing
  /\ erasing' = FALSE /\ grip' = NoId
  /\ UNCHANGED <<vars, lifeVars, dest, held, ownerVars>>

\* `_connections.erase(...)`
EventErase ==
  /\ erasing
  /\ table' = table \ {grip}
  /\ erasing' = FALSE /\ grip' = NoId
  /\ UNCHANGED <<vars, heap, misused, dest, held, ownerVars>>

\* _handleCommand looks the connection up
CommandFind ==
  /\ loop = "handle" /\ grip = NoId /\ dest[current] \in table
  /\ grip' = dest[current]
  /\ UNCHANGED <<vars, lifeVars, dest, held, erasing, ownerVars>>

\* sendFrame or closeConnection, which leaves the object in the map
CommandUse ==
  /\ grip # NoId /\ Handle
  /\ Uses("loop", grip)
  /\ grip' = NoId
  /\ UNCHANGED <<table, heap, dest, held, erasing, ownerVars>>

\* "Connection not found" goes to _onErr, which returns if the callback of
\* setOnError says so.  By default, and if it says no, _defaultErrorHandler throws:
\* the exception passes through the loop and listen() to its caller
CommandUnknown ==
  /\ grip = NoId /\ loop = "handle" /\ dest[current] \notin table
  /\ Handle \/ HandleThrows
  /\ UNCHANGED <<lifeVars, dest, held, loopVars, ownerVars>>

\* the rest of the loop is Mailbox's
MailboxLoop ==
  /\ Check \/ Read \/ TryPop
  /\ UNCHANGED <<lifeVars, dest, held, loopVars, ownerVars>>

LoopAwake ==
  /\ grip = NoId /\ Awake
  /\ UNCHANGED <<lifeVars, dest, held, loopVars, ownerVars>>

\* epoll_wait has returned without the eventfd, be it that its descriptor has
\* been closed, or the batch is done
LoopTurns ==
  /\ grip = NoId /\ AwakeElsewhere
  /\ UNCHANGED <<lifeVars, dest, held, loopVars, ownerVars>>

------------------------------------------------------------------------------
(* stop() on another thread, and the destructor after it                      *)

Stop ==
  /\ owner = "serving" /\ StopRunning /\ stopper' = "clear"
  /\ owner' = "stopping"
  /\ UNCHANGED <<lifeVars, dest, held, loopVars, visited>>

\* fault: a destructor that does not call stop()
DestroyWithoutStop ==
  /\ owner \in {"serving", "stopped"} /\ loop = "exited"
  /\ owner' = "gone"
  /\ UNCHANGED <<vars, lifeVars, dest, held, loopVars, visited>>

\* ~Server, once listen() has returned, calls stop(), again or, when an exception
\* has left listen(), for the first time
Destroy ==
  /\ owner \in {"serving", "stopped"} /\ loop = "exited" /\ StopRunning /\ stopper' = "clear"
  /\ owner' = "destroying"
  /\ UNCHANGED <<lifeVars, dest, held, loopVars, visited>>

\* _commandQueue.clear() and _wakeEpoll()
StopMailbox ==
  /\ StopClear \/ StopWake
  /\ UNCHANGED <<lifeVars, dest, held, loopVars, ownerVars>>

InStop == owner \in {"stopping", "destroying"} /\ stopper = "done"

\* `for (auto& p : _connections) delete p.second`
StopDelete(id) ==
  /\ InStop /\ id \in table \ visited
  /\ Deletes("stop", id)
  /\ visited' = visited \cup {id}
  /\ UNCHANGED <<vars, table, dest, held, loopVars, owner>>

\* the loop has reached the end of the map
StopScanned ==
  /\ InStop /\ table \subseteq visited
  /\ owner' = IF owner = "stopping" THEN "clearing" ELSE "last_clearing"
  /\ UNCHANGED <<vars, lifeVars, dest, held, loopVars, visited>>

\* _connections.clear(); stop() returns, in the destructor the members follow
StopTables ==
  /\ owner \in {"clearing", "last_clearing"}
  /\ table' = {} /\ visited' = {}
  /\ owner' = IF owner = "clearing" THEN "stopped" ELSE "gone"
  /\ UNCHANGED <<vars, heap, misused, dest, held, loopVars>>

\* ~ThreadPool has joined the workers
PoolJoined ==
  /\ owner = "gone" /\ \A w \in Producers : producer[w] = "idle" /\ held[w] = NoId
  /\ owner' = "destroyed"
  /\ UNCHANGED <<vars, lifeVars, dest, held, loopVars, visited>>

------------------------------------------------------------------------------
WorkerGoesOn(w) == WorkerSend(w) \/ WorkerWake(w)

WorkerStep(w) ==
  \/ WorkerGoesOn(w) \/ WorkerLate(w)
  \/ \E id \in Ids : WorkerFind(w, id) \/ WorkerClose(w, id)

LoopGoesOn ==
  \/ MailboxLoop \/ ReadFd \/ EventDelete \/ EventGone \/ EventErase
  \/ CommandFind \/ CommandUse \/ CommandUnknown

LoopTurn ==
  \/ LoopGoesOn \/ LoopAwake \/ LoopTurns
  \/ \E id \in Ids : Accept(id) \/ EventFor(id)

OwnerGoesOn ==
  \/ StopMailbox \/ (\E id \in Ids : StopDelete(id)) \/ StopScanned \/ StopTables

OwnerStep == Stop \/ Destroy \/ OwnerGoesOn \/ PoolJoined

ServerNext == (\E w \in Producers : WorkerStep(w)) \/ LoopTurn \/ OwnerStep

ServerSpec == ServerInit /\ [][ServerNext]_serverVars

\* threads that are on their way go on; epoll_wait reports a readable eventfd
\* in the end.  Nobody need connect, ask, stop or destroy
ServerFairSpec ==
  /\ ServerSpec
  /\ \A w \in Producers : WF_serverVars(WorkerGoesOn(w))
  /\ WF_serverVars(OwnerGoesOn)
  /\ WF_serverVars(LoopGoesOn) /\ SF_serverVars(LoopAwake)

------------------------------------------------------------------------------
\* Every variable has its type.
ServerTypeOK ==
  /\ TypeOK
  /\ table \subseteq Ids /\ heap \in [Ids -> {"unborn", "live", "late", "loop", "stop"}]
  /\ dest \in Seq(Ids) /\ Len(dest) = pushed
  /\ held \in [Producers -> Ids \cup {NoId}] /\ grip \in Ids \cup {NoId} /\ erasing \in BOOLEAN
  /\ owner \in {"serving", "stopping", "clearing", "stopped", "destroying", "last_clearing", "gone", "destroyed"}
  /\ visited \subseteq Ids
  /\ misused \subseteq {"worker", "loop", "stop"} \X {"loop", "stop", "destructor"}

\* A deleted connection is only ever used across threads: neither the loop nor
\* stop() meets one that it has deleted itself, and as long as stop() has not
\* been called the only one that can is a worker between its lookup in
\* _connections and its use of what it found.
MisuseAcrossThreads ==
  \A m \in misused : m[1] # m[2] /\ (owner = "serving" => m = <<"worker", "loop">>)

\* When the server is destroyed no connection is left open, whichever thread
\* was to delete it and however late it was accepted: only one that the loop
\* put into the map between the end of stop()'s iteration and its clear() is.
NothingLeaked == owner = "destroyed" => \A id \in Ids : heap[id] # "live"

\* The loop is over without a stop() only through a command for a connection that
\* the loop itself had deleted by then: a command for a connection that is alive,
\* however it meets hang-ups, deletions and accepts, never ends the server.
LoopEndsForCause ==
  loop = "exited" /\ running => heap[dest[current]] = "loop"
==============================================================================
