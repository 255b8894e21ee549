------------------------------- MODULE Session -------------------------------
(* One FMXP session: a client `Connection`, the `ClientConnection` the server *)
(* keeps for it, and the two ordered byte streams between them.               *)
(*                                                                            *)
(* Threads: the client's callers (send / sendReq, one step per access to the  *)
(* unsynchronised counters), the client's epoll thread, the server's epoll    *)
(* thread and the server's pool workers.  cAt and sAt say where an epoll      *)
(* thread is: blocked in epoll_wait, draining its command queue, or handing   *)
(* over the frames of one read.                                               *)
(*                                                                            *)
(* Wires are append-only.  c2s holds i for the encrypted frame sent[i] and 0  *)
(* for what is none: the plain hello, or the part of a frame that a full      *)
(* socket took (`cut`); s2c holds k for replies[k].  Positions into them say  *)
(* how far a side has received, parsed and handled the stream, so a batch of  *)
(* frames read at once is a pair of positions.                                *)
EXTENDS Integers, Sequences, FiniteSets

CONSTANTS
  Callers,      \* application threads that call send / sendReq
  Handlers,     \* what a route handler may do: sequences of responder calls
  SessionId,    \* the value rand64() gives _ssid
  Word,         \* 2^32 in the code: fid, rid and timestamps are uint32_t
  Window,       \* 60 in the code: the seconds a hello is accepted for
  Skew,         \* client clock minus server clock, in seconds
  ErrHandled,   \* does the callback given to setOnError return true?
  MaxCalls,     \* bound: calls to send / sendReq
  MaxAge,       \* bound: seconds between making a hello and reading it
  MaxRepeats,   \* bound: frames the network delivers a second time
  MaxRefused    \* bound: frames of the client its socket does not take whole

ResponderCall == {"respond", "push", "close"}

ASSUME HandlersAssumption == Handlers \subseteq Seq(ResponderCall)
ASSUME SessionIdAssumption == SessionId \in Nat \ {0}
ASSUME WordAssumption == Word \in Nat /\ Word > 2
ASSUME WindowAssumption == Window \in Nat /\ Skew \in Int
ASSUME ErrHandledAssumption == ErrHandled \in BOOLEAN
ASSUME BoundsAssumption ==
  MaxCalls \in Nat /\ MaxAge \in Nat /\ MaxRepeats \in Nat /\ MaxRefused \in Nat

VARIABLES
  \* client
  cAt,          \* where the epoll thread is; "exited": joined by close(),
                \* "gone": the whole process has ended
  cState,       \* _state
  cSsid,        \* _ssid
  cFid,         \* _fid
  cRid,         \* _rid
  lastSrvFid,   \* _lastSrvFid
  cmds,         \* _commandQueue
  call,         \* per caller: where it is inside send()
  calls,        \* calls begun so far
  \* server
  sAt,          \* where the epoll thread is; "down": the server has ended
  sState,       \* _state of the ClientConnection
  sSsid,        \* _ssid
  sFid,         \* _fid
  lastCliFid,   \* _lastCliFid
  inTable,      \* is the ClientConnection in Server::_connections?
  sCmds,        \* Server::_commandQueue
  work,         \* requests in the thread pool: what is left of each handler
  \* wires
  c2s, s2c,
  sTaken,       \* frames of c2s in the server's _inFrameBuffer or past it
  sParsed,      \* frames of c2s parsed by the server
  sDone,        \* frames of c2s handled by the server
  cParsed,      \* frames of s2c parsed by the client
  cDone,        \* frames of s2c handled by the client
  \* histories
  sent,         \* encrypted frames the client's socket took
  accepted,     \* frames the server handed to _onNewRequest
  replies,      \* frames the server sent
  got,          \* indices of the replies handed to _onResponse
  badPos,       \* position of c2s the server rejected, 0 if none
  \* network and clock
  age,          \* seconds since the hello was made
  repeats,      \* frames delivered a second time so far
  refused,      \* frames the client numbered that did not go out whole
  cut           \* positions of c2s that hold the beginning of such a frame

cliVars == <<cAt, cState, cSsid, cFid, cRid, lastSrvFid, cmds, call, calls>>
srvVars == <<sAt, sState, sSsid, sFid, lastCliFid, inTable, sCmds, work>>
sPos == <<sTaken, sParsed, sDone>>
cPos == <<cParsed, cDone>>
posVars == <<sPos, cPos>>
envVars == <<age, repeats, refused, cut>>
vars == <<cliVars, srvVars, c2s, s2c, posVars,
          sent, accepted, replies, got, badPos, envVars>>

ClientClosed == cAt \in {"exited", "gone"}       \* the client's socket is closed
ServerClosed == sAt = "down" \/ sState = "CLOSED" \* the server's socket is closed

\* fault: a counter wider than the field it is sent in
SuccWide(n) == n + 1

Succ(n) == (n + 1) % Word                         \* ++ on a uint32_t

------------------------------------------------------------------------------
U32 == 0 .. (Word - 1)
Ssids == {0, SessionId}
Frames == [rid : U32, ssid : Ssids]
SentFrames == [rid : U32, ssid : Ssids, fid : U32]
Kinds == {"secured", "response", "push", "notice"}
ReplyFrames == [kind : Kinds, for : Nat, rid : U32, ssid : Ssids, fid : U32]
Commands == [op : {"send"}, frame : ReplyFrames] \cup [op : {"close"}]

NoFrame == [rid |-> 0, ssid |-> 0]

Init ==
  /\ cAt = "start" /\ cState = "HANDSHAKE"
  /\ cSsid = 0 /\ cFid = 0 /\ cRid = 0 /\ lastSrvFid = 0
  /\ cmds = <<>> /\ calls = 0
  /\ call = [u \in Callers |-> [pc |-> "idle", frame |-> NoFrame]]
  /\ sAt = "wait" /\ sState = "HANDSHAKE"
  /\ sSsid = 0 /\ sFid = 0 /\ lastCliFid = 0
  /\ inTable = TRUE /\ sCmds = <<>> /\ work = {}
  /\ c2s = <<>> /\ s2c = <<>>
  /\ sTaken = 0 /\ sParsed = 0 /\ sDone = 0 /\ cParsed = 0 /\ cDone = 0
  /\ sent = <<>> /\ accepted = <<>> /\ replies = <<>> /\ got = <<>>
  /\ badPos = 0 /\ age = 0 /\ repeats = 0 /\ refused = 0 /\ cut = {}

------------------------------------------------------------------------------
(* Client: the calling threads                                                *)

\* send(), sendReq(): the check for a closed connection, and the load of `++_rid`
SendBegin(u) ==
  /\ call[u].pc = "idle" /\ calls < MaxCalls
  /\ cAt # "gone" /\ cState # "CLOSED"
  /\ calls' = calls + 1
  /\ call' = [call EXCEPT ![u] = [pc |-> "loaded", frame |-> [rid |-> cRid, ssid |-> 0]]]
  /\ UNCHANGED <<cAt, cState, cSsid, cFid, cRid, lastSrvFid, cmds>>

\* fault: `_rid + 1` for `++_rid`
SendMakeUnstored(u) ==
  /\ call[u].pc = "loaded" /\ cAt # "gone"
  /\ call' = [call EXCEPT ![u] =
       [pc |-> "made", frame |-> [rid |-> Succ(call[u].frame.rid), ssid |-> cSsid]]]
  /\ UNCHANGED <<cAt, cState, cSsid, cFid, cRid, lastSrvFid, cmds, calls>>

\* _makeReqFrame: the store of `++_rid`, and _ssid as it is now
SendMake(u) ==
  /\ call[u].pc = "loaded" /\ cAt # "gone"
  /\ LET rid == Succ(call[u].frame.rid) IN
       /\ cRid' = rid
       /\ call' = [call EXCEPT ![u] = [pc |-> "made", frame |-> [rid |-> rid, ssid |-> cSsid]]]
  /\ UNCHANGED <<cAt, cState, cSsid, cFid, lastSrvFid, cmds, calls>>

\* _commandQueue.push and the write to the eventfd; send() returns true
SendPush(u) ==
  /\ call[u].pc = "made" /\ cAt # "gone"
  /\ cmds' = Append(cmds, call[u].frame)
  /\ call' = [call EXCEPT ![u] = [pc |-> "idle", frame |-> NoFrame]]
  /\ UNCHANGED <<cAt, cState, cSsid, cFid, cRid, lastSrvFid, calls>>

CallStep(u) ==
  /\ SendBegin(u) \/ SendMake(u) \/ SendPush(u)
  /\ UNCHANGED <<srvVars, c2s, s2c, posVars, sent, accepted, replies, got, badPos, envVars>>

\* Connection::close() by the owner's thread, up to the join
OwnerClose ==
  /\ ~ClientClosed /\ cState # "CLOSED"
  /\ cState' = "CLOSED"
  /\ UNCHANGED <<cAt, cSsid, cFid, cRid, lastSrvFid, cmds, call, calls, srvVars, c2s,
                 s2c, posVars, sent, accepted, replies, got, badPos, envVars>>

------------------------------------------------------------------------------
(* Client: the epoll thread                                                   *)

\* fault: _fid++ for ++_fid, the first frame goes out as 0
TransmitPostIncrement(frame) ==
  /\ cFid' = Succ(cFid)
  /\ sent' = Append(sent, [rid |-> frame.rid, ssid |-> frame.ssid, fid |-> cFid])
  /\ c2s' = Append(c2s, Len(sent'))

\* the end of _handleCommand: fid assigned at the sending stage, then ::send
Transmit(frame) ==
  /\ cFid' = Succ(cFid)
  /\ sent' = Append(sent, [rid |-> frame.rid, ssid |-> frame.ssid, fid |-> cFid'])
  /\ c2s' = Append(c2s, Len(sent'))

\* the result of ::send is not looked at: when the socket is full the number is used
\* up, and the frame is gone or its beginning is on the wire
TransmitFails ==
  /\ refused < MaxRefused /\ sTaken < Len(c2s)
  /\ refused' = refused + 1
  /\ cFid' = Succ(cFid)
  /\ \/ UNCHANGED <<c2s, cut>>
     \/ c2s' = Append(c2s, 0) /\ cut' = cut \cup {Len(c2s')}
  /\ UNCHANGED sent

\* fault: _handshakeSent is set before it is tested, so the hello is dropped
ClientHandshakeDropped ==
  /\ cAt = "start" /\ cAt' = "wait"
  /\ cRid' = Succ(cRid)
  /\ UNCHANGED <<cState, cSsid, cFid, lastSrvFid, cmds, c2s, cPos, sent, got>>

\* _doHandshake: the hello goes out plain, unless the connection was closed first
ClientHandshake ==
  /\ cAt = "start" /\ cAt' = "wait"
  /\ cRid' = Succ(cRid)
  /\ IF cState = "HANDSHAKE"
       THEN c2s' = Append(c2s, 0) /\ UNCHANGED <<cFid, sent>>
       ELSE Transmit([rid |-> cRid', ssid |-> cSsid])
  /\ UNCHANGED <<cState, cSsid, lastSrvFid, cmds, cPos, got>>

ClientWake ==
  /\ cAt = "wait" /\ cmds # <<>> /\ cAt' = "drain"
  /\ UNCHANGED <<cState, cSsid, cFid, cRid, lastSrvFid, cmds, c2s, cPos, sent, got>>

\* _handleCommand: a frame that comes up during the handshake is dropped
ClientCommand ==
  /\ cAt = "drain" /\ cmds # <<>>
  /\ cmds' = Tail(cmds)
  /\ IF cState = "HANDSHAKE"
       THEN UNCHANGED <<cFid, sent, c2s, refused, cut>>
       ELSE \/ Transmit(Head(cmds)) /\ UNCHANGED <<refused, cut>>
            \/ TransmitFails
  /\ UNCHANGED <<cAt, cState, cSsid, cRid, lastSrvFid, cPos, got>>

ClientDrained ==
  /\ cAt = "drain" /\ cmds = <<>> /\ cAt' = "wait"
  /\ UNCHANGED <<cState, cSsid, cFid, cRid, lastSrvFid, cmds, c2s, cPos, sent, got>>

\* fault: `if` for the loop over the parsed frames, one frame is handled per read
AfterFirst(done, parsed) == "wait"

After(done, parsed) == IF done = parsed THEN "wait" ELSE "deliver"

\* recv until EAGAIN, then _parseFrames: the first frame of a handshake is the
\* server's confirmation, which is consumed here and never validated
ClientRead ==
  /\ cAt = "wait"
  /\ \E n \in (cParsed + 1) .. Len(s2c) :
       LET first == replies[s2c[cParsed + 1]]
           confirmed == IF cState = "HANDSHAKE" THEN 1 ELSE 0 IN
         /\ cParsed' = n
         /\ IF cState = "HANDSHAKE"
              THEN cState' = "CONNECTED" /\ cSsid' = first.ssid
              ELSE UNCHANGED <<cState, cSsid>>
         /\ cDone' = cDone + confirmed
         /\ cAt' = After(cDone', n)
  /\ UNCHANGED <<cFid, cRid, lastSrvFid, cmds, c2s, sent, got>>

\* fault: < for <=
ReplyValidOrEqual(f) == f.fid >= lastSrvFid /\ f.ssid = cSsid

ReplyValid(f) == f.fid > lastSrvFid /\ f.ssid = cSsid

\* one turn of the loop over the parsed frames: _validateFrame, _onResponse
ClientDeliver ==
  /\ cAt = "deliver"
  /\ LET k == s2c[cDone + 1] IN
       /\ ReplyValid(replies[k])
       /\ lastSrvFid' = replies[k].fid
       /\ got' = Append(got, k)
  /\ cDone' = cDone + 1
  /\ cAt' = After(cDone', cParsed)
  /\ UNCHANGED <<cState, cSsid, cFid, cRid, cmds, c2s, cParsed, sent>>

\* _validateFrame fails: close() on the epoll thread joins the epoll thread
\* itself, which throws and ends the process; once the owner has begun closing
\* it does nothing, and the rest of the batch is skipped
ClientReject ==
  /\ cAt = "deliver"
  /\ ~ReplyValid(replies[s2c[cDone + 1]])
  /\ IF cState = "CLOSED"
       THEN cAt' = "wait" /\ cDone' = cParsed
       ELSE cAt' = "gone" /\ UNCHANGED cDone
  /\ UNCHANGED <<cState, cSsid, cFid, cRid, lastSrvFid, cmds, c2s, cParsed, sent, got>>

\* EPOLLRDHUP, looked at before EPOLLIN: close() on the epoll thread again
ClientHangup ==
  /\ cAt = "wait" /\ ServerClosed /\ cState # "CLOSED"
  /\ cAt' = "gone"
  /\ UNCHANGED <<cState, cSsid, cFid, cRid, lastSrvFid, cmds, c2s, cPos, sent, got>>

\* fault: close() does not write to the eventfd, so only other events end the loop
ClientLoopExitUnwoken ==
  /\ cAt = "wait" /\ cState = "CLOSED" /\ (cmds # <<>> \/ cParsed < Len(s2c))
  /\ cAt' = "exited"
  /\ UNCHANGED <<cState, cSsid, cFid, cRid, lastSrvFid, cmds, c2s, cPos, sent, got>>

\* `while (_running)` ends, the owner's join returns, the socket is closed
ClientLoopExit ==
  /\ cAt = "wait" /\ cState = "CLOSED"
  /\ cAt' = "exited"
  /\ UNCHANGED <<cState, cSsid, cFid, cRid, lastSrvFid, cmds, c2s, cPos, sent, got>>

ClientLoop ==
  /\ \/ ClientCommand
     \/ /\ \/ ClientHandshake \/ ClientWake \/ ClientDrained \/ ClientRead
           \/ ClientDeliver \/ ClientReject \/ ClientHangup \/ ClientLoopExit
        /\ UNCHANGED <<refused, cut>>
  /\ UNCHANGED <<call, calls, srvVars, s2c, sPos, accepted, replies, badPos, age, repeats>>

\* the process that owns the connection ends
ClientExit ==
  /\ ~ClientClosed /\ cAt' = "gone"
  /\ UNCHANGED <<cState, cSsid, cFid, cRid, lastSrvFid, cmds, call, calls, srvVars, c2s,
                 s2c, posVars, sent, accepted, replies, got, badPos, envVars>>

------------------------------------------------------------------------------
(* Server: the ClientConnection, on the epoll thread                          *)

\* fault: the response does not carry the rid of its request
MakeRespUnmatched(kind, for, rid) ==
  [kind |-> kind, for |-> for, rid |-> 0, ssid |-> sSsid, fid |-> sFid]

\* makeRespFrame: _fid and _ssid are captured here
MakeResp(kind, for, rid) ==
  [kind |-> kind, for |-> for, rid |-> rid, ssid |-> sSsid, fid |-> sFid]

\* fault: the captured fid goes on the wire
WireFidCaptured(captured, replacement) == captured

\* encodeFrame: a replacement for the captured fid, where 0 means "none given"
WireFid(captured, replacement) == IF replacement = 0 THEN captured ELSE replacement

\* sendFrame on an open socket: ++_fid goes to encodeFrame as the replacement
SendFrame(frame) ==
  /\ sFid' = Succ(sFid)
  /\ replies' = Append(replies, [frame EXCEPT !.fid = WireFid(@, sFid')])
  /\ s2c' = Append(s2c, Len(replies'))

\* sendFrame on the full socket of a client that is there: closeConnection sends a
\* notice on it, before anything is closed.  When that goes out the connection is
\* closed; behind the beginning of the frame that was refused nobody can read it
SendRefused ==
  /\ cParsed < Len(s2c)
  /\ sFid' = Succ(Succ(sFid))
  /\ \/ /\ replies' = Append(replies, [MakeResp("notice", 0, 0) EXCEPT
                                        !.fid = WireFid(Succ(sFid), sFid')])
        /\ s2c' = Append(s2c, Len(replies'))
     \/ UNCHANGED <<replies, s2c>>

\* `timestamp - getTimestamp() > 60`, both of them uint32_t
Fresh == (Skew - age) % Word <= Window

\* readFd while the handshake is on: one frame is parsed, whatever else came
\* with it stays in _inFrameBuffer; the key is stored and confirmed
ServerHandshake ==
  /\ sAt = "wait" /\ sState = "HANDSHAKE" /\ sTaken < Len(c2s)
  /\ c2s[1] = 0 /\ Fresh
  /\ sTaken' \in (sTaken + 1) .. Len(c2s)
  /\ sParsed' = 1 /\ sDone' = 1
  /\ sSsid' = SessionId
  /\ SendFrame([MakeResp("secured", 0, 0) EXCEPT !.ssid = sSsid'])
  /\ sState' = "ACTIVE"
  /\ UNCHANGED <<sAt, lastCliFid, inTable, sCmds, work, accepted, badPos>>

\* the hello is too old or unreadable: closeConnection sends a notice, which
\* cannot be encrypted without a key, which closes the connection, which sends
\* a notice: the recursion ends when the stack does
ServerHandshakeFails ==
  /\ sAt = "wait" /\ sState = "HANDSHAKE" /\ sTaken < Len(c2s)
  /\ ~(c2s[1] = 0 /\ Fresh)
  /\ sAt' = "down"
  /\ UNCHANGED <<sState, sSsid, sFid, lastCliFid, inTable, sCmds, work, s2c, sPos,
                 accepted, replies, badPos>>

\* closeConnection(INVALID_REQUEST), and the epoll loop deletes the connection
Reject(pos) ==
  /\ SendFrame(MakeResp("notice", 0, 0)) \/ SendRefused
  /\ sState' = "CLOSED" /\ inTable' = FALSE /\ sAt' = "wait"
  /\ badPos' = pos

\* readFd, _parseFrames: every frame received so far, up to one that is not all there
ServerRead ==
  /\ sAt = "wait" /\ sState = "ACTIVE" /\ inTable
  /\ \E n \in (sTaken + 1) .. Len(c2s) : \E p \in sParsed .. n :
       /\ \A q \in (sParsed + 1) .. p : c2s[q] # 0
       /\ p = n \/ p + 1 \in cut
       /\ sTaken' = n /\ sParsed' = p
  /\ sAt' = IF sDone < sParsed' THEN "deliver" ELSE "wait"
  /\ UNCHANGED <<sState, sSsid, sFid, lastCliFid, inTable, sCmds, work, s2c, sDone,
                 accepted, replies, badPos>>

\* what stands at p does not decrypt when n frames are in: a plain hello inside the
\* encrypted stream, or the beginning of a frame made up with what follows it
Unreadable(p, n) == c2s[p] = 0 /\ (p \in cut => p < n)

\* the connection is closed, and the frames parsed before it are dropped
ServerReadFails ==
  /\ sAt = "wait" /\ sState = "ACTIVE" /\ inTable
  /\ \E n \in (sTaken + 1) .. Len(c2s) : \E p \in (sParsed + 1) .. n :
       /\ Unreadable(p, n) /\ \A q \in (sParsed + 1) .. (p - 1) : c2s[q] # 0
       /\ sTaken' = n /\ sParsed' = p
       /\ Reject(p)
  /\ UNCHANGED <<sSsid, lastCliFid, sCmds, work, sDone, accepted>>

\* fault: >= for >
RequestValidOrEqual(f) == f.ssid = sSsid /\ f.fid >= lastCliFid

RequestValid(f) == f.ssid = sSsid /\ f.fid > lastCliFid

\* one turn of the loop over the parsed frames: _validateFrame, _onNewRequest,
\* which puts the request into the thread pool
ServerAccept ==
  /\ sAt = "deliver"
  /\ LET f == sent[c2s[sDone + 1]] IN
       /\ RequestValid(f)
       /\ lastCliFid' = f.fid
       /\ accepted' = Append(accepted, f)
  /\ \E h \in Handlers :
       work' = IF h = <<>> THEN work ELSE work \cup {[req |-> Len(accepted'), todo |-> h]}
  /\ sDone' = sDone + 1
  /\ sAt' = After(sDone', sParsed)
  /\ UNCHANGED <<sState, sSsid, sFid, inTable, sCmds, s2c, sTaken, sParsed, replies,
                 badPos>>

ServerReject ==
  /\ sAt = "deliver"
  /\ ~RequestValid(sent[c2s[sDone + 1]])
  /\ Reject(sDone + 1)
  /\ UNCHANGED <<sSsid, lastCliFid, sCmds, work, sPos, accepted>>

\* EPOLLRDHUP, or recv = 0: deleted, and whatever is unread with it
ServerHangup ==
  /\ sAt = "wait" /\ inTable /\ sState # "CLOSED" /\ ClientClosed
  /\ sState' = "CLOSED" /\ inTable' = FALSE
  /\ UNCHANGED <<sAt, sSsid, sFid, lastCliFid, sCmds, work, s2c, sPos, accepted, replies,
                 badPos>>

------------------------------------------------------------------------------
(* Server: the command queue                                                  *)

ServerWake ==
  /\ sAt = "wait" /\ sCmds # <<>> /\ sAt' = "drain"
  /\ UNCHANGED <<sState, sSsid, sFid, lastCliFid, inTable, sCmds, work, s2c, sPos,
                 accepted, replies, badPos>>

\* fault: the closed connection's file descriptor is still written to
ServerSendUnchecked ==
  /\ sAt = "drain" /\ sCmds # <<>> /\ inTable /\ Head(sCmds).op = "send"
  /\ sCmds' = Tail(sCmds)
  /\ SendFrame(Head(sCmds).frame)
  /\ UNCHANGED <<sAt, sState, sSsid, lastCliFid, inTable, work, sPos, accepted, badPos>>

\* SEND; a connection closed by command has fd -1: ++_fid, and nothing is sent
ServerSend ==
  /\ sAt = "drain" /\ sCmds # <<>> /\ inTable /\ Head(sCmds).op = "send"
  /\ sCmds' = Tail(sCmds)
  /\ IF sState = "ACTIVE"
       THEN SendFrame(Head(sCmds).frame)
       ELSE sFid' = Succ(sFid) /\ UNCHANGED <<replies, s2c>>
  /\ UNCHANGED <<sAt, sState, sSsid, lastCliFid, inTable, work, sPos, accepted, badPos>>

\* a send may be refused when the client does not keep up; for the connection see
\* SendRefused, and it stays in _connections
ServerSendRefused ==
  /\ sAt = "drain" /\ sCmds # <<>> /\ inTable /\ Head(sCmds).op = "send"
  /\ sState = "ACTIVE"
  /\ sCmds' = Tail(sCmds)
  /\ SendRefused
  /\ sState' = "CLOSED"
  /\ UNCHANGED <<sAt, sSsid, lastCliFid, inTable, work, sPos, accepted, badPos>>

\* any send to a peer that is gone, or whose socket is full and stays full, may
\* fail: closeConnection(SOCKET_ERROR) sends a notice on the same socket, and
\* SIGPIPE or the recursion ends the process
ServerSendFails ==
  /\ ClientClosed \/ cParsed < Len(s2c)
  /\ sAt' = "down"
  /\ \/ sAt = "drain" /\ sCmds # <<>> /\ inTable /\ Head(sCmds).op = "send" /\ sState = "ACTIVE"
     \/ sAt = "deliver" /\ ~RequestValid(sent[c2s[sDone + 1]])
     \/ /\ sAt = "wait" /\ sTaken < Len(c2s)
        /\ \/ sState = "HANDSHAKE" /\ c2s[1] = 0 /\ Fresh
           \/ /\ sState = "ACTIVE" /\ inTable
              /\ \E p \in (sParsed + 1) .. Len(c2s) : Unreadable(p, Len(c2s))
  /\ UNCHANGED <<sState, sSsid, sFid, lastCliFid, inTable, sCmds, work, s2c, sPos,
                 accepted, replies, badPos>>

\* fault: the connection is deleted as well, whatever is queued for it
ServerCloseDeletes ==
  /\ sAt = "drain" /\ sCmds # <<>> /\ inTable /\ Head(sCmds).op = "close"
  /\ sCmds' = Tail(sCmds)
  /\ sState' = "CLOSED" /\ inTable' = FALSE
  /\ UNCHANGED <<sAt, sSsid, sFid, lastCliFid, work, s2c, sPos, accepted, replies, badPos>>

\* CLOSE: closeConnection(NATURAL); the connection stays in _connections
ServerClose ==
  /\ sAt = "drain" /\ sCmds # <<>> /\ inTable /\ Head(sCmds).op = "close"
  /\ sCmds' = Tail(sCmds)
  /\ sState' = "CLOSED"
  /\ UNCHANGED <<sAt, sSsid, sFid, lastCliFid, inTable, work, s2c, sPos, accepted,
                 replies, badPos>>

\* a command for a connection no longer there: _onErr, which by default throws
\* out of listen()
ServerUnknown ==
  /\ sAt = "drain" /\ sCmds # <<>> /\ ~inTable
  /\ sCmds' = Tail(sCmds)
  /\ sAt' = IF ErrHandled THEN "drain" ELSE "down"
  /\ UNCHANGED <<sState, sSsid, sFid, lastCliFid, inTable, work, s2c, sPos, accepted,
                 replies, badPos>>

ServerDrained ==
  /\ sAt = "drain" /\ sCmds = <<>> /\ sAt' = "wait"
  /\ UNCHANGED <<sState, sSsid, sFid, lastCliFid, inTable, sCmds, work, s2c, sPos,
                 accepted, replies, badPos>>

ServerLoop ==
  /\ \/ ServerHandshake \/ ServerHandshakeFails \/ ServerRead \/ ServerReadFails
     \/ ServerAccept \/ ServerReject \/ ServerHangup \/ ServerWake \/ ServerSend
     \/ ServerSendRefused \/ ServerSendFails \/ ServerClose \/ ServerUnknown
     \/ ServerDrained
  /\ UNCHANGED <<cliVars, c2s, cPos, sent, got, envVars>>

------------------------------------------------------------------------------
(* Server: a pool worker inside a handler                                     *)

\* what is left in the pool after one step of task t
Rest(t) == (work \ {t}) \cup
           (IF Len(t.todo) = 1 THEN {} ELSE {[t EXCEPT !.todo = Tail(@)]})

\* Responder: respond and push look the connection up and capture its counters,
\* close is queued unseen
WorkerStep(t) ==
  /\ sAt # "down"
  /\ LET op == Head(t.todo) IN
       sCmds' = CASE op = "close" -> Append(sCmds, [op |-> "close"])
                  [] op # "close" /\ ~inTable -> sCmds
                  [] op = "respond" /\ inTable -> Append(sCmds,
                       [op |-> "send", frame |-> MakeResp("response", t.req, accepted[t.req].rid)])
                  [] op = "push" /\ inTable -> Append(sCmds,
                       [op |-> "send", frame |-> MakeResp("push", t.req, 0)])
  /\ work' = Rest(t)
  /\ UNCHANGED <<cliVars, sAt, sState, sSsid, sFid, lastCliFid, inTable, c2s, s2c,
                 posVars, sent, accepted, replies, got, badPos, envVars>>

Workers == \E t \in work : WorkerStep(t)

------------------------------------------------------------------------------
(* Clock and network                                                          *)

Tick ==
  /\ age < MaxAge /\ c2s # <<>> /\ sTaken = 0 /\ sAt # "down"
  /\ age' = age + 1
  /\ UNCHANGED <<cliVars, srvVars, c2s, s2c, posVars, sent, accepted, replies, got,
                 badPos, repeats, refused, cut>>

\* an earlier frame, if it is whole, arrives a second time
RepeatRequest ==
  /\ repeats < MaxRepeats /\ repeats' = repeats + 1
  /\ \E p \in DOMAIN c2s \ cut : c2s' = Append(c2s, c2s[p])
  /\ UNCHANGED <<cliVars, srvVars, s2c, posVars, sent, accepted, replies, got, badPos,
                 age, refused, cut>>

RepeatReply ==
  /\ repeats < MaxRepeats /\ repeats' = repeats + 1
  /\ \E p \in DOMAIN s2c : s2c' = Append(s2c, s2c[p])
  /\ UNCHANGED <<cliVars, srvVars, c2s, posVars, sent, accepted, replies, got, badPos,
                 age, refused, cut>>

------------------------------------------------------------------------------
Next ==
  \/ \E u \in Callers : CallStep(u)
  \/ OwnerClose \/ ClientLoop \/ ClientExit
  \/ ServerLoop \/ Workers
  \/ Tick \/ RepeatRequest \/ RepeatReply

Spec == Init /\ [][Next]_vars

\* every thread that can step keeps stepping: threads are scheduled, epoll is
\* level-triggered, and the eventfd keeps a queued command visible
FairSpec ==
  /\ Spec
  /\ \A u \in Callers : WF_vars(CallStep(u))
  /\ WF_vars(ClientLoop) /\ WF_vars(ServerLoop) /\ WF_vars(Workers)

------------------------------------------------------------------------------
(* Type invariant                                                             *)

CliTypeOK ==
  /\ cAt \in {"start", "wait", "drain", "deliver", "exited", "gone"}
  /\ cState \in {"HANDSHAKE", "CONNECTED", "CLOSED"}
  /\ cSsid \in Ssids /\ cFid \in U32 /\ cRid \in U32 /\ lastSrvFid \in U32
  /\ cmds \in Seq(Frames) /\ calls \in Nat
  /\ call \in [Callers -> [pc : {"idle", "loaded", "made"}, frame : Frames]]

SrvTypeOK ==
  /\ sAt \in {"wait", "drain", "deliver", "down"}
  /\ sState \in {"HANDSHAKE", "ACTIVE", "CLOSED"}
  /\ sSsid \in Ssids /\ sFid \in U32 /\ lastCliFid \in U32
  /\ inTable \in BOOLEAN /\ sCmds \in Seq(Commands)
  /\ \A t \in work : t \in [req : DOMAIN accepted, todo : Seq(ResponderCall) \ {<<>>}]

HistTypeOK ==
  /\ sent \in Seq(SentFrames) /\ accepted \in Seq(SentFrames)
  /\ replies \in Seq(ReplyFrames) /\ got \in Seq(Nat)
  /\ badPos \in Nat /\ age \in Nat /\ repeats \in Nat /\ refused \in Nat

WireTypeOK ==
  /\ c2s \in Seq(Nat) /\ \A p \in DOMAIN c2s : c2s[p] <= Len(sent)
  /\ cut \subseteq {p \in DOMAIN c2s : c2s[p] = 0}
  /\ s2c \in Seq(Nat) /\ \A p \in DOMAIN s2c : s2c[p] \in DOMAIN replies
  /\ sTaken \in 0 .. Len(c2s) /\ sParsed \in 0 .. sTaken /\ sDone \in 0 .. sParsed
  /\ cParsed \in 0 .. Len(s2c) /\ cDone \in 0 .. cParsed
  /\ cAt = "deliver" => cDone < cParsed
  /\ sAt = "deliver" => sDone < sParsed

\* Every variable holds what the corresponding field or queue can hold, and the
\* positions into the wires are ordered as receiving, parsing and handling are.
TypeOK == CliTypeOK /\ SrvTypeOK /\ HistTypeOK /\ WireTypeOK

------------------------------------------------------------------------------
(* Safety                                                                     *)

Requests == INSTANCE Delivery
            WITH Frame <- SentFrames, submitted <- sent, received <- accepted

\* The requests the server hands to the pool (readFd) are the frames the client's
\* socket took whole (_handleCommand), in that order, without a gap and none
\* twice, even when frames between them were refused or cut short, frames are
\* repeated or arrive in any batches, or the frame counter wraps.
RequestsDelivered == Requests!Spec

\* The three reasons within the system's own doing for which the server closes a
\* connection as "invalid" (_parseFrames, _validateFrame), besides a frame that
\* really came twice: the frame was cut short by a full socket, whose result
\* _handleCommand ignores; it was made before the client had its session id
\* (_makeReqFrame reads _ssid early); or 2^32 frames have been numbered.  A frame
\* that was refused altogether is never the reason, though it used a number up.
RejectionCause ==
  badPos # 0 =>
    \/ badPos \in cut
    \/ badPos \notin cut /\ \E q \in 1 .. (badPos - 1) : c2s[q] = c2s[badPos]
    \/ c2s[badPos] # 0 /\ sent[c2s[badPos]].ssid = 0
    \/ c2s[badPos] # 0 /\ c2s[badPos] + refused >= Word

\* onResponse sees the server's frames in the order sendFrame numbered them and
\* none twice; until the owner begins to close the connection there is no gap
\* either, and a wrap of the counter changes nothing.  While it closes, a batch may
\* be skipped, and after a wrap the skipped numbers would be valid again.  The count
\* starts at the frame after the handshake's confirmation, or at the
\* confirmation itself when it is repeated.
RepliesInOrder ==
  /\ Len(replies) < Word => \A i \in 1 .. (Len(got) - 1) : got[i] < got[i + 1]
  /\ cState # "CLOSED" =>
       /\ got # <<>> => got[1] \in {1, 2}
       /\ \A i \in 1 .. (Len(got) - 1) : got[i + 1] = got[i] + 1

\* A response handed to onResponse answers a request the server accepted, under
\* the rid the client gave that request, and no request is answered twice by a
\* handler that responds once: the rid survives the pool, the command queue and
\* the second lookup of the connection.
AnswersMatch ==
  LET answers == {i \in DOMAIN got : replies[got[i]].kind = "response"} IN
    /\ \A i \in answers :
         LET r == replies[got[i]] IN r.for \in DOMAIN accepted /\ r.rid = accepted[r.for].rid
    /\ \A i, j \in answers : replies[got[i]].for = replies[got[j]].for => i = j

\* how far the caller's number of a request is ahead of the connection's
Lead(f) == (f.rid - f.fid) % Word

\* With one calling thread rid and fid count together: whatever the socket refuses
\* takes its number with it from both, so a gap in the rids the server sees is a gap
\* in the fids, every accepted request has the same lead, and a rid names one
\* request, also after either counter has wrapped.  The caller takes the one number
\* (_makeReqFrame), the epoll thread the other, later (_handleCommand), and frames
\* of the handshake get only the first.
RidsIdentify ==
  (\E u \in Callers : Callers = {u}) =>
    \A i, j \in DOMAIN accepted :
      /\ Lead(accepted[i]) = Lead(accepted[j])
      /\ accepted[i].rid = accepted[j].rid => i = j

\* What one session can do to the server as a whole: the process ends only at a step
\* at which the client has left (a send to it fails, or a command for it is late) or
\* is behind with reading (a send to it is refused); or the client closed before its
\* hello went out, or sent one that is not fresh; or the session was refused as
\* invalid and setOnError's default throws for a command that was still queued.  A
\* handler that closes and goes on answering never ends it, nor does a refused send
\* whose notice gets through, with whatever is still queued behind it.
ServerEndsForCause ==
  [][sAt # "down" /\ sAt' = "down" =>
       \/ ClientClosed \/ cParsed < Len(s2c)
       \/ badPos # 0 /\ ~ErrHandled
       \/ sState = "HANDSHAKE" /\ (~Fresh \/ (c2s[1] # 0 /\ cState = "CLOSED"))]_vars

\* Once the server has closed its end no frame leaves it, although the closed
\* connection may still be in _connections and be given commands.
SilentOnceClosed == [][sState = "CLOSED" => UNCHANGED <<replies, sState>>]_vars

\* The server never numbers two frames of a session alike until its counter has
\* wrapped: the fid is given at the sending stage, whenever the frame was made.
RepliesNumbered ==
  \A i, j \in DOMAIN replies :
    Len(replies) < Word => (replies[i].fid = replies[j].fid => i = j)

------------------------------------------------------------------------------
(* Claims of the documentation that the code does not keep                    *)

\* README, Replay Protection: fully internal to the library, an error means an
\* attack.  Unless the owner is closing the connection, the server terminates it
\* only for a frame that came twice.
OnlyRepeatsRejected ==
  badPos # 0 /\ cState # "CLOSED" => \E q \in 1 .. (badPos - 1) : c2s[q] = c2s[badPos]

\* README, Handshake: the timestamp must be younger than 60 seconds.  A plain
\* hello that is young enough, from a client that is there, never takes the server down.
YoungHelloAccepted ==
  (sAt = "down" /\ sState = "HANDSHAKE" /\ c2s[1] = 0 /\ ~ClientClosed) => age > Window

\* README, Session Replay Protection: the FID must always be greater than the
\* previously received FID.  No reply, the confirmation (fid 1) included,
\* reaches onResponse after a reply with an fid as large.
ConfirmationCounts == \A i \in DOMAIN got : got[i] # 1

------------------------------------------------------------------------------
(* Liveness                                                                   *)

Over == ClientClosed \/ ServerClosed

\* The handshake ends: the client learns the session id, or the session is over.
HandshakeEnds == <>(cState = "CONNECTED" \/ Over)

\* Every frame that went out reaches a handler, unless the session ends first or
\* a frame was cut short, which blocks the stream: nothing stays behind in a
\* socket, in _inFrameBuffer or in a batch, and a frame refused altogether does
\* not hold up those after it.
RequestsHandled ==
  \A i \in 1 .. MaxCalls : Len(sent) >= i ~> (Len(accepted) >= i \/ Over \/ cut # {})

\* Every task of the pool finishes and every frame the server numbers reaches
\* onResponse, unless the session ends first.
AnswersArrive ==
  /\ work # {} ~> (work = {} \/ sAt = "down")
  /\ \A k \in 2 .. (2 * MaxCalls) : Len(replies) >= k ~> ((got # <<>> /\ got[Len(got)] >= k) \/ Over)

\* close() by the owner returns: its join ends, whatever the loop was doing.
CloseReturns == cState = "CLOSED" ~> ClientClosed
==============================================================================
