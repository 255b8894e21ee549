# FMXP in TLA+

FMXP is a small encrypted request/response protocol over TCP: a client library (`client/`), a server
library (`server/`) and what they share (`core/`). This directory holds TLA+ modules translated from
that source, TLC configurations that check them on small instances, and proofs checked by TLAPS for
every value of the constants.

    tlc -workers 2 -config session.cfg MCSession.tla      (and so on, one cfg per run)
    tlapm SessionProofs.tla                               (and so on, one module per component)

## 1. The system

| Component | State it keeps | Operations |
|---|---|---|
| client `Connection` | `_state`, `_ssid`, `_fid`, `_rid`, `_lastSrvFid`, `_running`, `_commandQueue`, `_frameBuffer`, three descriptors, the epoll thread | constructor, destructor, `send`, `sendReq`, `close`, `_doHandshake`, `_handleCommand`, `_parseFrames`, `_validateFrame`, `_epollLoop` |
| server `ClientConnection` | `_state`, `_ssid`, `_fid`, `_lastCliFid`, `_inFrameBuffer`, `_fd` | `readFd`, `_parseFrames`, `_validateFrame`, `_setAesKey`, `sendFrame`, `makeRespFrame`, `closeConnection` |
| `Server` | `_connections`, `_fdToId`, `_commandQueue`, `_running`, the routes | `listen`, `_epollLoop`, `_handleCommand`, `sendResponse`, `closeConnection`, `stop`, destructor |
| `Responder`, router | routes by path, routes by predicate | `respond`, `serverPush`, `close`, `_router` |
| `ThreadPool` | `_tasks`, `_stop`, the workers | constructor, `enqueue`, destructor |
| `ConcurrentQueue` and eventfd | a queue and a mutex; a counter | `push`, `tryPop`, `clear`; write, read |
| frame codec, `ByteBuffer`, encoders | none | `encodeFrame`, `decodeFrame`, `validateProtocol`, integer conversions |
| AES-GCM, RSA-OAEP, `rand64` | none | calls into OpenSSL |
| clock, errors | none | `getTimestamp`, `FMXPException`, `throwErr` |

**Interaction.** An application thread calls `Connection::send`, which makes a frame and pushes it
to the client's command queue; the client's epoll thread numbers it, encrypts it and writes it to
the socket. The server's epoll thread reads and parses what has arrived, validates each frame and
enqueues the request in the thread pool. A worker runs the handler; what the handler does through
the `Responder` is pushed to the server's command queue, and the server's epoll thread numbers,
encrypts and sends it. The client's epoll thread validates the reply and calls `onResponse`. The
first frame of each direction is the handshake: a plain hello carrying the RSA-encrypted AES key and
a timestamp, and the encrypted confirmation carrying the session id.

**What is hard.** Requests are made on one thread and numbered on another, so the fields of a frame
are read at different moments. Frames arrive in batches, sometimes twice. The counters are 32 bits
wide. A connection can be closed by the owner, by the epoll thread itself, by the peer, by a command
and by a rejected frame, each at any point of the others. Handlers look up connections that the
epoll thread deletes, and `stop()` deletes them on a third thread. A `Connection` owns the thread
that may be the one to close it. Wakeups go through an eventfd and a condition variable. The list
with its lines is under "hazards" in `PROJECT.json`.

**What makes each part correct.**
Session: requests reach handlers in the order sent, once, without gaps; the same for replies;
answers carry the rid of their request; a session is ended only for a reason; a closed connection is
silent; everything sent is handled unless the session ends. Client connection: the loop never loses
its descriptors, calls that do not overlap take effect once, nothing is left behind. Command queue:
no wakeup is lost, order is kept. Thread pool: no task is stranded, lost or run twice; destruction
drains. Server table: an event or command reaches the connection it is for, an object is deleted
once and used by nobody afterwards, or it is known by whom. Codec: decoding inverts encoding, and
any cut of the stream gives the same frames.

## 2. The modules

### Delivery.tla: the promise
Two histories, `submitted` and `received`: what is put on the wire reaches the other application in
order, without gaps and at most once. `Session` is shown to implement it, with the client's
encrypted frames as `submitted` and the frames handed to `_onNewRequest` as `received`.

### Session.tla: one session
The client, the `ClientConnection` of the server, and the two byte streams.

* *Threads.* `CallStep(u)` is a caller: the closed test with the load of `_rid`, its store with the
  load of `_ssid`, and the push with the eventfd write are three steps, since neither field is
  locked. `ClientLoop` and `ServerLoop` are the epoll threads: `cAt` and `sAt` say whether one is in
  `epoll_wait`, draining commands, or in the loop over the frames of one read. `WorkerStep` is one
  responder call of a handler on a pool worker; a handler is a sequence of such calls. `OwnerClose`
  is `Connection::close()` up to the join, `ClientLoopExit` the end of the loop, the join and the
  closing of the socket.
* *Wires.* `c2s` and `s2c` only grow. An entry is an index into the history of frames sent (0 is the
  plain hello, or the beginning of a frame that was cut). `sTaken`, `sParsed`, `sDone` (and `cParsed`, `cDone`) are how far the side has
  received, parsed and handled; `_inFrameBuffer` is what lies between `sDone` and `sTaken`.
  `RepeatRequest` and `RepeatReply` append an entry that is already there.
* *Full sockets.* A socket can refuse a send while there is something on it that the other side has
  not taken. The client does not look at the result (`TransmitFails`): the number is used up, and
  either nothing is on the wire or the beginning of the frame is, an entry 0 whose position is in
  `cut`. A cut frame that has something behind it does not decrypt (`Unreadable`), one that has
  nothing behind it stays in the buffer. The server closes the connection and sends a notice on the
  same socket (`SendRefused`): it is sent, or it is refused in its turn, and either one refusal ends
  in a closed connection (`ServerSendRefused`) or the calls recurse to the end of the process
  (`ServerSendFails`).
* *Frames.* Only `rid`, `fid` and `ssid` matter to the code that is modelled; a reply also says what
  it is and which request it is for. `Succ` is `++` on a `uint32_t`, and `WireFid` the rule of
  `encodeFrame` by which a replacement of 0 leaves the captured fid on the wire.
* *Handshake.* `Fresh` is the subtraction the code makes, with its wrap. A failing handshake calls
  `closeConnection` with a reason other than NATURAL before there is a key: sending the notice
  throws, which closes, which sends: `ServerHandshakeFails` ends the server.
* *Ends.* `cAt = "gone"` is the end of the client process, by its own will or because `close()` on
  the epoll thread joins that thread (`std::system_error`, uncaught). `sAt = "down"` is the end of
  the server: the recursion of the handshake, a failing send to a peer that has gone or does not
  read (`ServerSendFails`), or the default error handler that throws out of `listen()`
  (`ServerUnknown` with `ErrHandled = FALSE`).

Definitions after a comment `fault:` are not used by the specification. Each is the definition that
follows it with one plausible mistake; replacing the definition by the fault makes the property
named for it in `PROJECT.json` fail, so each property is known to depend on the code.

The modules hold what a run checks. What only a proof needs, the inductive invariants and the
properties derived from them, stands at the head of the proof module.

### Mailbox.tla: the command queue
`ConcurrentQueue` and the eventfd, as both sides use them: push, then write; the loop wakes, reads
the counter to zero, pops until the queue is empty, and tests `_running` again. `Server::stop`
clears `_running`, then the queue, then writes, and may be called again (the destructor does);
`Connection::close` does not clear the queue. `Session` takes a queued command to be visible to the
loop until it is popped: that is what this module shows. An exception of `_handleCommand` leaves the
loop with `_running` still set (`HandleThrows`); on the client one ends the process and is in
`ClientClose`. The module is checked and proved through `ServerStop`, which is built on it.

### ServerStop.tla: objects, stop() and the destructor
`ServerStop` extends `Mailbox` with the map `_connections`, the objects in it and everyone who uses
them. `heap` says of each `ClientConnection` whether it is live or which thread deleted it, `held`
what a worker's lookup in `sendResponse` has found and not used yet, `grip` the same for the loop,
in an event or in `_handleCommand`. `Uses` records in `misused` a use of a deleted object, as the
pair of who used it and who had deleted it. A command for a connection that is gone goes to
`_onErr`, and `CommandUnknown` has both outcomes: a callback of `setOnError` that returns, and the
default handler, whose exception ends the loop and `listen()`. What is pushed after that stays in
the queue, until somebody calls `stop()`. `owner` goes through `stop()` (`Stop`, then `Mailbox`'s
clear and write, `StopDelete` for each entry, `StopScanned` at the end of the map, `StopTables` for
the `clear()`), and through the destructor, which is the same again (`Destroy`) and then the members
in the reverse order of their declaration: the map, the responder and the queue are gone while
`~ThreadPool` still runs tasks (`WorkerLate`). The loop may accept at any moment until it tests
`_running`: an object accepted between `StopScanned` and `StopTables` is `late`. The iteration of
`stop()` is over the entries that are there, in any order; what the standard leaves undefined for a
map that changes under it is the choice of any of them. `_connections` and the descriptors of
`ServerTable` are the same map seen from the other side: there one thread and many events, here many
threads.

### ClientClose.tla: the life of a client connection
The constructor up to `std::thread` and its assignment to `_epollThread` (two steps, `StartThread`
and `AssignThread`: the new thread runs in between), `close()` in one step per statement, by the
owner, by other callers and by the epoll thread, a sender in `send()`, and the destructor. `at[t]`
is the statement a thread is at. `descriptor` has the three numbers: -1, open, or closed and still
in the member; `closes` counts `::close` calls, `stray` records a write to the eventfd's number
after it was closed. `JoinSelf` is `join()` by the thread itself, which throws; a second `join()` of
a thread that another caller has joined may return or throw (`Joined`). `Confirm` overwrites
`_state`, whatever a `close()` has put there since it was read. `closers`, `overlapped` and `threw`
are history: who passed the test of `close()`, whether a call met another one that was past its
test, and whether an exception left the epoll thread's function (`Uncaught`): the encryption of the
hello and of a command, the decryption of a frame, the failed handshake and the handler of a
response may throw one, and it ends the process before any `close()`. An application thread is not
in the object when it is destroyed, as for any C++ object.

### Executor.tla: the promise of a pool
Four variables: how many tasks were submitted and how many started, which task each thread is
running, and whether the pool is open, closing or closed. Tasks start in the order of submission,
each once, on a thread that runs no other one, and the pool is closed only when all of them have
ended. `ThreadPool` is shown to implement it, with the length of `_tasks` as what has been submitted
and not started.

### ThreadPool.tla
Workers, `enqueue` and the destructor. What is done under `_mutex` is one step, and releasing the
mutex and falling asleep in `_cv.wait` is one step, as the standard says; `notify_one` and
`notify_all` are outside the mutex and steps of their own. Workers may wake spuriously; a task may
throw, which ends the process. `Session` takes the pool as a set of requests any of which may be
next: tasks start in order, but with several workers nothing is promised of what they do then.

### ServerTable.tla: several connections
`listen`'s loop over the map `_connections`, the map `_fdToId`, and what `epoll_wait` reports.
`connections` is the set of keys, `connFd` is the `_fd` of a connection object, and `sockets`, the
kernel's side, says for each descriptor which peer a system call on it reaches now. What a
connection does, it does to `Socket(id)`, the peer behind its `_fd`. A descriptor is free again when
it is closed and `accept` may return any free one, so `Accept` may reuse one whose event is still in
`batch`; `_fdToId` is overwritten by `Register` and never cleaned, as in the code. `Collect` is
`epoll_wait`: everything that is ready, or `MaxEvents` of it, with the hang-up flag as it is then;
the events are then handled one by one (`CommandEvent`, `ListenEvent`, `Hangup`, `ReadFd`,
`ReadFails`, `NoTarget`) in any order, while peers go on connecting, sending and leaving and workers
push commands. `CommandCloses` closes the descriptor and leaves the entry in the table, `Delete` is
the `delete` and the `erase`. A send on a socket that is full, or whose peer has left, fails and
closes the connection: if the notice of it gets through the server goes on (`CommandCloses` again),
if not, the calls may recurse until it ends (`AfterSend`). A handler is known here only by the
identifier it has learned: it may use it at any later time (`PushCommand`). What a peer sends is
good or bad; the handshake is `Session`'s.

### FrameStream.tla: frames over a stream
The client's single `::send` on a non-blocking socket, the socket, the `recv` loop, `_inFrameBuffer`
and `_parseFrames`. A unit of the stream stands for a few bytes and is known by its frame and its
place in it, so that the model can say what the parser reads when it is no longer at the start of a
frame: the size field of a displaced header is any of `Junk`, and a body put together from two
frames does not authenticate. `Send` writes what the socket has room for and forgets the rest, as
`_handleCommand` does; `Recv` takes at most `RecvSize` units; `ParseWait`, `ParseRefuse`,
`ParseFrame` and `ParseFails` are the ways through one turn of `_parseFrames`. A frame of which
nothing was written (`Unsent`) leaves no trace: the frames after it are accepted, since
`_validateFrame` only asks for a larger number. `SoundInOrder` says exactly this much.
`MCFrameStream` chooses the frames.

## 3. The runs

| Run | What it checks | Bounds |
|---|---|---|
| `session` | `TypeOK`, `RejectionCause`, `RepliesInOrder`, `AnswersMatch`, `RidsIdentify`, the refinement `RequestsDelivered`, the action property `SilentOnceClosed` | 1 caller, 3 calls, one repeated frame, 2 refused sends of the client, `Word = 3` |
| `session_live` | `RepliesNumbered`, the action property `ServerEndsForCause`; `HandshakeEnds`, `RequestsHandled`, `AnswersArrive`, `CloseReturns` under fairness, with the error handler that throws | 2 callers, 2 calls, one refused send of the client, no repetition, `Word = 4` |
| `early_frame` | the README's claim that only an attack ends a session as a replay: violated | 1 call, no repetition |
| `young_hello` | the README's claim about hellos younger than 60 seconds: violated | age 1, `Window = 60` |
| `repeated_confirmation` | the README's claim that an fid is always greater than the one before: violated | 1 repeated frame |
| `server_stop` | `NoLostWakeup`, `NoLostStop`, `HandledInOrder`, `MisuseAcrossThreads`, `NothingLeaked`, `LoopEndsForCause`; `EveryCommandHandled`, `StopEndsLoop` under fairness | 2 workers, 3 commands, 1 connection |
| `threadpool` | `WorkConserving`, `DestroyedEmpty`, the refinement `ImplementsExecutor`; `EveryTaskRuns`, `DestructorReturns` | 3 workers, 2 enqueuers, 3 tasks |
| `server_table` | `Reachable`, `OwnConnection`, the action property `DeletedForCause`; `HangupNoticed` under fairness, with an error handler that returns | 2 peers, 2 descriptors, 3 events at a time, 2 commands |
| `connection_limit` | the README's claim about `maxConnections`: violated | backlog 1, 2 descriptors |
| `client_close` | `DescriptorsOutliveLoop`, `OnceUnlessOverlapped`, `NobodyLeftBehind`, `TerminationCause`; `CloseEnds` under fairness | the owner and one more closer, 1 sender |
| `invalid_frame` | the README's claim that an invalid frame closes the connection: violated | the owner alone |
| `frame_stream` | `SoundInOrder`, `BufferBounded`, `ClosedForCause`; `SoundHandled` under fairness | 3 frames of 6 shapes, a socket of 8 units, `recv` of 3, a limit of 7 |

*Why the bounds are enough to see the hard cases.* With `Word = 3` the client's third frame is
numbered 0, so the runs include the wrap and the stale fid of `WireFid`. Three calls allow one frame
dropped in the handshake, one made too early and one good one, and batches of two. One repetition is
enough to have any frame twice, at once or later. Two refused sends (`MaxRefused`; the server's are
bounded by themselves, since each ends the connection) are one frame lost and one cut, before,
between and behind frames that get through. The handlers of `session_live` are one that answers and
one that pushes and then closes, so that a command can follow the close, and its two callers race on
`_rid`. In `session` a handler makes one call, of any kind, so that three requests and their refused
frames stay within minutes; a handler that goes on after a close is `session_live`'s. In
`threadpool`, three workers and three tasks have a worker asleep, one running and one on its way
while a task waits, and `notify_all` has more than one sleeper to wake. In `server_stop` one
connection suffices for every pair of threads to meet on it, since what is undefined between two of
them concerns one object; two workers and three commands have one push in the drain of another and
one left in the queue that `stop()` clears. In `server_table` the second peer may get the descriptor
of the first while an old event or a command for the old connection is pending, and three events are
a hang-up, a new connection and a command in one batch. In `client_close` two closers and the epoll
thread are three that may be past the test of `close()` at once, with a `send()` between its test
and its write. In `frame_stream` the shapes lie on both sides of each limit (the smallest frame, one
of exactly `MaxFrameSize`, one larger by one, a path that does not fit its field, a frame that does
not decrypt, another protocol), the socket is too small for two large frames, and a chunk of 3 units
never ends where a large frame does.

*No deadlock check.* Every system here may stop: a session that has ended, a loop that has returned,
a pool that is destroyed. That they do not stop early is what the liveness properties say.

*Fairness.* Weak fairness for each thread: the scheduler runs a thread that can go on, epoll is
level-triggered and reports a readable descriptor until it is read, handlers return, a mutex nobody
keeps is obtained. In `ServerStop` and `ClientClose` the choice between an event of the eventfd and
one of a socket is strongly fair: `epoll_wait` reports up to 32 or 64 descriptors at once and does
not leave out a ready one for ever. A thread inside `stop()`, `close()` or `send()` goes on; nobody
need call them. Nothing is assumed of the owner's `close()` or destructor, of the end of the client
process, of traffic on other sockets, of the clock, of repetitions, of peers that connect, send or
leave, of the client of `FrameStream`, of spurious wakeups or of the calls the application makes.

*What the violated claims show.*
`early_frame`: `_makeReqFrame` copies `_ssid` when `send()` is called. If the confirmation arrives
between that and the transmission, the frame goes out with session id 0 and the server closes the
session. `young_hello`: `timestamp - getTimestamp() > 60` is an unsigned subtraction, so a hello
that is one second old counts as 4294967295 seconds, and the refusal recurses until the server ends.
`repeated_confirmation`: the confirmation is consumed without recording its fid, so a second copy of
it passes validation and reaches `onResponse`. `connection_limit`: `_maxConnections` is the backlog
of `::listen` and bounds only the connections not yet accepted. `invalid_frame`: the epoll thread
that refuses a frame calls `close()`, whose `_epollThread.join()` is then a join of the thread
itself; it throws `std::system_error`, which leaves the thread's function and ends the process. The
same holds for every other `close()` of the epoll thread, a hang-up of the server included. A frame
that does not decrypt ends the process too, by another way (`Uncaught`): `aesDecrypt` throws a
`std::runtime_error`, and `_parseFrames` catches `FMXPException`. The claim is about refused frames,
so it is stated of runs without such an exception.

*What the runs say of the overlaps.* The misuses themselves are reachable, and undefined behaviour
in the code: `MisuseAcrossThreads` says which they are. Before `stop()` it is only a worker that has
looked a connection up and uses it after the loop has deleted it. `LoopEndsForCause` says when the
loop is over with `_running` still set: only through a command for a connection that the loop had
deleted before, never for one that is alive. With `stop()`, also the loop and `stop()` may each meet
what the other deleted, and a late task the destroyed members. `NothingLeaked` leaves one object to
be forgotten: one that is accepted between the end of `stop()`'s iteration and its `clear()`. In
`client_close`, two overlapping `close()` calls may notify twice, close a number twice, or end the
process in the second `join()`.

## 4. The proofs

All theorems hold for any sets of threads, any number of calls, repetitions, commands and tasks, any
word size above 2, any clock skew and any handlers (with two exceptions below). The assumptions are
the named ASSUMEs of the modules: types of the constants, and for the pool that workers and
enqueuers are finitely many and there is a worker.

**SessionProofs.** `TypeCorrect` proves `TypeOK`, which includes that positions never overtake each
other. `DeliveryInvariant` proves `DeliveryInv`; `DeliversRequests` derives the refinement of
`Delivery`, and `SilentClose` the action property. That the accepted frames are a prefix of the
frames sent is not inductive: `_validateFrame` only compares a number with the last one. The
strengthening says why this is enough. `FidInv`: until the counter wraps, numbers increase along
`sent`, and only refused sends leave gaps. `StreamInv`: frame *i* appears on the wire only after
frame *i - 1*. `BatchInv`: what is parsed and not handled are encrypted frames of an open
connection. `AcceptInv`: whatever the server has handled is one of the accepted frames, these are a
prefix of the frames sent, and `_lastCliFid` is their number. Then the next frame handled is an
earlier one, whose number is too small, or the successor (lemma `AcceptsSuccessor`), or the frame at
the wrap, whose number 0 is never accepted, so the prefix stays shorter than a turn of the counter.

The other properties of the session add to this. `RejectionsHaveCause`: `CauseInv` says that the
handshake comes first and that each accepted frame is at a position already handled, so a number
that is too small is that of a repetition; a frame that does not decrypt has been cut.
`RepliesAreNumbered`: by `ReplyFidInv` the server's frame *i* carries number *i* until the wrap (the
notice after a refused send one more, and nothing follows it), and nothing is queued before the
handshake. `RepliesArriveInOrder`: `ReplyStreamInv` is `StreamInv` for the other wire, and `GotInv`
says that nothing the client has handled is beyond what it has handed on, so the next reply that
`_validateFrame` lets through is the successor; one at the wrap carries 0 and ends the session.
While the owner closes, the rest of a batch is skipped and only the order remains, up to the wrap.
`AnswersAreMatched` is one exception: it assumes `RespondOnce`, that no handler gives the
`Responder` two responses, which the code does not enforce. `AnswerInv` then says that a request's
answer is still due in the pool, or queued once, or sent once, and never two of these; `GotOnceInv`
that `_lastSrvFid` is the largest number handed on, so no reply is handed on twice.

`EndsHaveCause`: what can end the server from within one session, as a property of the step that
ends it. `EndInv` says that a connection gone from the table belongs to a client that left or was
refused, and that the first frame on the wire is the hello unless the client closed before it; so at
the step at which the server ends, the client has left or has something on its socket that it has
not read, or it is one of these, or a hello that is not fresh. A handler that closes a session and
goes on answering is not among the causes, since CLOSE leaves the object in `_connections`; nor is a
refused send whose notice got through, or a command that is handled after it.

`RidsNameRequests` is about the frames in the order they are made: sent, queued, or in the hands of
the caller. By `EarlyInv` those made before the session id is known carry none, and only such are
dropped, in the handshake. A frame that the socket refuses leaves a gap in the `rid`s of the frames
that arrive, so these need not be consecutive; but its `fid` is used up as well, and the difference
of the two, the lead, is the same for all. `LeadInv` states this of every frame from the first that
carries the session id on: the lead it was sent with, or will have when those before it have gone
out or been refused, is that of the next frame to be made. The accepted frames carry the session id,
and by `AcceptInv` their `fid`s increase, hence differ, and so do their `rid`s. The hypothesis is
the single calling thread: two of them race on `_rid` and do make two requests with one `rid`.
`HellosAreNotPast` says what the age test does do. It is the other exception: it assumes that the
clocks differ by less than a turn of the 32-bit timestamp, and that a hello does not come almost a
turn of it late: then whatever was accepted carries a timestamp of the present or the future of the
server's clock. The bound of 60 seconds is on how far ahead the client's clock is; the run
`young_hello` shows the other side, a hello that should have been accepted.

**MailboxProofs.** `NoWakeupIsLost` and `NoStopIsLost` are inductive together with the types.
`CommandsInOrder` needs `QueueInv` (handled, popped and queued numbers increase in this order) and
`GapFreeInv` (until the stop they are consecutive, and the queue is only cleared after it).

**ServerStopProofs.** `ServerStop` is built from the actions of `Mailbox`, so every step is a step
of `Mailbox` or leaves its variables alone; the lemma `ServerIsMailbox` says so, and through it the
three theorems of `MailboxProofs` hold of the server. `MisuseAcrossThreads` and `NothingLeaked` need
to know what lookups and the map can hold: `LookupInv` (what the loop has deleted is in the map only
until it erases it, before its next lookup), `VisitInv` (what `stop()` has deleted and not cleared
it has passed) and `LeakInv` (what is live is in the map; after the end of an iteration nothing is,
except what is accepted then; the destructor comes after the loop). `LoopEndHasCause` adds to them
that before `stop()` only the loop deletes, that what it has not deleted is in the map, and that a
worker pushes only for a connection that has been accepted: then a lookup that fails, the only thing
that throws, is for a connection the loop deleted.

**ClientCloseProofs.** The theorems hold for any number of closers and senders. `LifeInv` and
`LoopInv` say who may be in the object, and that whoever is past the join has waited for the loop or
is the epoll thread with `_running` false, which gives `LoopKeepsDescriptors`. `ReleaseInv` (a
number that is gone was closed; after a join somebody is on the way to release them all) gives
`NothingOutlivesTheObject`. `AloneInv` says that without overlap one thread is past the test, and
what it has not come to is untouched; `CauseInv` that a joinable thread of a stopped connection is
being waited for. With them `CloseTakesEffectOnce` and `TerminationHasCause` are inductive.
`JoinsAreHeard` is the part of `CloseEnds` that needs no fairness: a `close()` that waits in
`join()` waits for a loop that has been told to leave, and if this sleeps in `epoll_wait` the
eventfd is readable (`WokenInv`): nobody empties it and goes back to sleep, as the loop tests
`_running` in between.

**ThreadPoolProofs.** `PoolConservesWork` counts: each push adds a task and a notification, each
notification turns into a worker on its way to the predicate unless nobody sleeps, and each such
worker takes a task or finds none; this uses the theorems on finite cardinalities. `PoolInvariant`
(`QueueInv`, `ExitInv`, `RunOnce`) says where every task is, and gives `TasksRunOnce` and
`DestructorDrains`. `PoolIsExecutor` maps each step to one of `Executor`: `Enqueue`, `Take`,
`Finish`, `SetStop` and `Join` are its five, every other step leaves its variables alone. By
`QueueInv` the task taken is the one after those that have started, and by `ExitInv` the last join
finds nothing queued and nobody running. `PoolNeverStuck` is the part of `EveryTaskRuns` and
`DestructorReturns` that needs no fairness: while there is something to do, some thread has a step
to take that waits for no other. It follows from `WorkConserving`, `ExitInv` and `AwakeInv` (after
`notify_all` nobody sleeps).

**ServerTableProofs.** `Reachable` alone is not inductive: overwriting an entry of `_fdToId` could
hide another open connection. `TableInv` adds the other direction: the entry of a descriptor names
at most one open connection, and that one has this descriptor, so two open connections never share
one. With it, `DeletionsHaveCause` needs `EventInv`: a hang-up in hand is that of the open
connection with its descriptor, unless this was accepted after the events were collected.
`CommandsActOnTheirOwn` looks at the descriptor a command is carried out on. By `SocketInv`, part of
`TableInv`, the `_fd` of an open connection names the socket that was accepted for it, and no socket
is open that no open connection has; it holds because closing the descriptor and forgetting its
number go together (`CloseFd`). By `PeerInv` what a handler knows or has queued names the connection
of the peer whose request it had.

**FrameStreamProofs.** `StreamInvariant` says that every unit in the socket and in the buffer is of
a frame that was sent, that whatever was put together is the decoding of one, and that less than a
frame is left when the parser stops (`RestInv`). `BufferStaysBounded` follows, for any sizes and any
limit.

**FrameOrderProofs.** The stream is cut and moved at will, so an induction over its length seems
needed and is not: `PieceInv` says of each unit in the buffer or the socket (`Wire`) that the whole
of what went out of its frame lies around it, `OrderInv` that any two units stand as they were sent,
and `AheadInv` that what was put together came before all of it and nothing between is missing.
`recv` leaves `Wire` as it is, `::send` adds one piece at the end, and a frame that authenticates is
exactly the first piece, whole, so what is left consists of whole pieces again. `SoundFramesInOrder`
follows for every cut, and `ClosedOnlyForCause`: a sound frame in front, with all of it received,
passes every test of the parser. Both hold for any sizes, limit, shapes and number of frames.

**Only model-checked.** All liveness. Liveness and ENABLED stay with TLC, as do recursive operators
and what they compute for every input: the installed provers do not handle them. Every invariant and
action property of the passing runs is proved; of the liveness properties of the pool, the queue and
`close()` the proofs have the safety part, that nobody waits for a wakeup that does not come
(`PoolNeverStuck`, `NoWakeupIsLost`, `NoStopIsLost`, `JoinsAreHeard`).

## 5. What is not modelled, and the plan

* *`stop()` before `listen()` has set `_running`* is undone, and writes to a `_cmdEvFd` that is not
  set yet. The models begin with the loop running. The calls of `listen()` that fail only throw, and
  a second `listen()` after the error handler has thrown out of the first is not modelled: what is
  left then of the first is `LoopEndsForCause` and the queue as it was.
* *Descriptors of the server.* `stop()` closes the listening socket and the epoll descriptor and
  keeps their numbers, so the destructor closes the numbers again. `ServerStop` has no descriptors;
  a loop whose epoll descriptor is closed sees `epoll_wait` return (`LoopTurns`).
* *The router.* Exact routes before predicates, the first predicate that holds, not found: one
  lookup in tables that are filled before `listen()`. Calls of `route()` and `setOnError()` while
  handlers run are data races on these tables, and as little modelled as `setOnResponse` and
  `setOnClose` of the client.
* *A `_onClose` that calls `close()`* recurses, because it runs before `_state` and `_running`
  change.
* *The server's `onClose`.* `_onDisconn` has no setter, so no connection ever has one.

Next in the plan are the router's tables with calls of `route()` while handlers run, the descriptors
of `ServerStop`, and the start of `listen()`.

Left out for good: the cryptography (a frame decrypts on the other side of the session it was
encrypted for and nowhere else), memory management of `ByteBuffer`, wording of errors and logging.
In `Session` a send is one step, and the room in a socket is not counted (`FrameStream` counts it):
a socket with something unread on it may be full whenever a send is made, one without is not, so the
hello and the confirmation go out unless the peer has left. The notices that fail before one gets
through are one step and two numbers of the counter, of which nothing is sent after them. What an
unreadable reply, the beginning of a refused one, does to the client is in `ClientExit`,
`ClientClose` and `FrameStream`. A send to a peer that has closed, of which the code sees success at
first and `SIGPIPE` later, is either of them (`ServerSend`, `ServerSendFails`). Bytes are not lost
or reordered within a connection, as TCP has it. Lookups in `_connections` by workers are one step
in `Session` and `ServerTable`, and lookup and use are two in `ServerStop`; a lookup that is torn by
a change of the map is not modelled. The increment of `_rid` is split in a load and a store; reads
of the 32- and 64-bit counters are not torn.
