----------------------------- MODULE FrameStream -----------------------------
(* Frames over a TCP stream, past the handshake: the client's one ::send per  *)
(* frame on a non-blocking socket, which may take only a part of it, the      *)
(* server's recv loop, which cuts the stream wherever it likes, and           *)
(* _parseFrames, which puts the frames together again.  A unit of the stream  *)
(* stands for a few bytes and is known by its frame and its place in it: 1 is *)
(* "fmxp" and the version, 2 the size, the rest the body.  The client's       *)
(* _parseFrames reads the other direction in the same way.                    *)
EXTENDS Naturals, Sequences

CONSTANTS
  BodyHeader,   \* units of rid, fid, ssid, flags, status, path_len
  Overhead,     \* units that encryption adds (iv and tag)
  PathWord,     \* 2^16: path_len is a uint16_t
  MaxFrameSize, \* the server's maxFrameSize
  SocketSize,   \* units a socket holds
  RecvSize,     \* units one recv returns (8192 bytes in the code)
  Shapes,       \* the frames that are sent
  Junk,         \* sizes that bytes which are no size field may be taken for
  MaxFrames     \* bound: frames sent

HeaderSize == 2
MinFrameSize == HeaderSize + BodyHeader

\* "bad" does not authenticate or is of another version, "alien" is no FMXP
Shape == [kind : {"good", "bad", "alien"}, path : Nat, data : Nat]

ASSUME SizesAssumption ==
  /\ BodyHeader \in Nat \ {0} /\ Overhead \in Nat /\ PathWord \in Nat \ {0}
  /\ MaxFrameSize \in Nat /\ SocketSize \in Nat /\ RecvSize \in Nat \ {0} /\ MaxFrames \in Nat
ASSUME InputsAssumption == Shapes \subseteq Shape /\ Junk \subseteq Nat

VARIABLES
  sent,         \* the frames the client has sent, and how much of each went out
  socket,       \* units sent and not received
  buf,          \* _inFrameBuffer
  frames,       \* what _parseFrames has put together in this read
  handled,      \* what was handed on as a request, with the lengths decoded
  at,           \* where the server is: "wait", "recv", "parse", "handle"; "closed"
  junk          \* what a displaced size field is read as

vars == <<sent, socket, buf, frames, handled, at, junk>>

Init ==
  /\ sent = <<>> /\ socket = <<>> /\ buf = <<>> /\ frames = <<>> /\ handled = <<>>
  /\ at = "wait" /\ junk \in Junk

Least(m, n) == IF m <= n THEN m ELSE n

------------------------------------------------------------------------------
(* The codec                                                                  *)

\* encodeFrame: `u32ToStr(body.size())`, after encryption
BodySize(s) == BodyHeader + s.path + s.data + Overhead

EncodedSize(s) == HeaderSize + BodySize(s)

\* the units of the n-th frame on the wire
Encode(n, s) == [k \in 1 .. EncodedSize(s) |-> <<n, k>>]

\* `u16ToStr(frame.path.size())` and getBodyPathLen
PathLen(s) == s.path % PathWord

\* decodeFrame: path_len units are the path, what is left is the data; the tail of
\* a path that does not fit its field becomes data
Decode(n, s) == [frame |-> n, path |-> PathLen(s), data |-> s.path + s.data - PathLen(s)]

\* fault: the body is not authenticated
AuthenticUnchecked(n, f, size) == sent[f].shape.kind = "good"

\* decodeFrame accepts n units of the buffer: they are one frame, whole and unharmed
Authentic(n, f, size) ==
  /\ sent[f].shape.kind = "good" /\ size = BodySize(sent[f].shape)
  /\ \A k \in 1 .. n : buf[k] = <<f, k>>

------------------------------------------------------------------------------
(* The client                                                                 *)

\* _handleCommand: one ::send, whose result is not looked at; a full socket
\* takes nothing (EAGAIN)
Send(s) ==
  /\ Len(sent) < MaxFrames
  /\ LET n == Least(EncodedSize(s), SocketSize - Len(socket)) IN
       /\ socket' = socket \o SubSeq(Encode(Len(sent) + 1, s), 1, n)
       /\ sent' = Append(sent, [shape |-> s, written |-> n])
  /\ UNCHANGED <<buf, frames, handled, at, junk>>

------------------------------------------------------------------------------
(* The server                                                                 *)

Wake ==
  /\ at = "wait" /\ socket # <<>>
  /\ at' = "recv"
  /\ UNCHANGED <<sent, socket, buf, frames, handled, junk>>

Recv ==
  /\ at = "recv" /\ socket # <<>>
  /\ LET n == Least(RecvSize, Len(socket)) IN
       /\ buf' = buf \o SubSeq(socket, 1, n)
       /\ socket' = SubSeq(socket, n + 1, Len(socket))
  /\ UNCHANGED <<sent, frames, handled, at, junk>>

\* EAGAIN
RecvEnds ==
  /\ at = "recv" /\ socket = <<>>
  /\ at' = "parse"
  /\ UNCHANGED <<sent, socket, buf, frames, handled, junk>>

\* validateProtocol
Protocol == buf[1][2] = 1 /\ sent[buf[1][1]].shape.kind # "alien"

\* getFrameBodySize, whatever the bytes there are
BodyLen == IF buf[2][2] = 2 THEN BodySize(sent[buf[2][1]].shape) ELSE junk

\* fault: the header is not counted
TooLongBodyOnly(size) == size > MaxFrameSize

\* fault: a frame of exactly the maximum is refused
TooLongOrEqual(size) == size + HeaderSize >= MaxFrameSize

TooLong(size) == size > MaxFrameSize \/ size + HeaderSize > MaxFrameSize

\* closeConnection: the frames put together so far are not handed on, since the
\* connection is no longer ACTIVE, and the server deletes it
Close ==
  /\ at' = "closed" /\ frames' = <<>>
  /\ UNCHANGED <<sent, socket, buf, handled, junk>>

Readable == Protocol /\ ~TooLong(BodyLen)
Complete == Len(buf) >= MinFrameSize /\ Readable /\ Len(buf) >= BodyLen + HeaderSize

\* less than one frame
ParseWait ==
  /\ at = "parse"
  /\ Len(buf) >= MinFrameSize => Readable /\ Len(buf) < BodyLen + HeaderSize
  /\ at' = "handle"
  /\ UNCHANGED <<sent, socket, buf, frames, handled, junk>>

ParseRefuse ==
  /\ at = "parse" /\ Len(buf) >= MinFrameSize /\ ~Readable
  /\ Close

\* fault: `if` for `while`, one frame per read
ParseOneFrame ==
  /\ at = "parse" /\ Complete
  /\ LET n == BodyLen + HeaderSize
         f == buf[1][1] IN
       /\ Authentic(n, f, BodyLen)
       /\ frames' = Append(frames, Decode(f, sent[f].shape))
       /\ buf' = SubSeq(buf, n + 1, Len(buf))
  /\ at' = "handle"
  /\ UNCHANGED <<sent, socket, handled, junk>>

ParseFrame ==
  /\ at = "parse" /\ Complete
  /\ LET n == BodyLen + HeaderSize
         f == buf[1][1] IN
       /\ Authentic(n, f, BodyLen)
       /\ frames' = Append(frames, Decode(f, sent[f].shape))
       /\ buf' = SubSeq(buf, n + 1, Len(buf))
  /\ UNCHANGED <<sent, socket, handled, at, junk>>

ParseFails ==
  /\ at = "parse" /\ Complete
  /\ ~Authentic(BodyLen + HeaderSize, buf[1][1], BodyLen)
  /\ Close

\* the frames are handed on (their numbers are Session's matter)
Handle ==
  /\ at = "handle"
  /\ handled' = handled \o frames
  /\ frames' = <<>> /\ at' = "wait"
  /\ UNCHANGED <<sent, socket, buf, junk>>

ServerStep ==
  Wake \/ Recv \/ RecvEnds \/ ParseWait \/ ParseRefuse \/ ParseFrame \/ ParseFails \/ Handle

Next == ServerStep \/ \E s \in Shapes : Send(s)

Spec == Init /\ [][Next]_vars

\* the server's epoll thread runs; nothing is assumed of the client
FairSpec == Spec /\ WF_vars(ServerStep)

------------------------------------------------------------------------------
\* Every variable has its type.
Units == (Nat \ {0}) \X (Nat \ {0})

TypeOK ==
  /\ sent \in Seq([shape : Shapes, written : Nat])
  /\ socket \in Seq(Units) /\ buf \in Seq(Units)
  /\ frames \in Seq([frame : Nat, path : Nat, data : Nat])
  /\ handled \in Seq([frame : Nat, path : Nat, data : Nat])
  /\ at \in {"wait", "recv", "parse", "handle", "closed"} /\ junk \in Nat

\* a frame that arrives as it should: well formed, within the limit, all of it sent
Sound(f) ==
  /\ sent[f].shape.kind = "good" /\ EncodedSize(sent[f].shape) <= MaxFrameSize
  /\ sent[f].written = EncodedSize(sent[f].shape)

\* Nothing of it was sent: the socket was full.
Unsent(f) == sent[f].written = 0

\* Each frame of fs is sound and comes after the ones before it, and only frames
\* of which nothing was sent are missing between them.
InOrder(fs) ==
  \A i \in DOMAIN fs :
    LET f == fs[i].frame IN
      /\ Sound(f) /\ \A j \in 1 .. i - 1 : fs[j].frame < f
      /\ \A g \in 1 .. f - 1 : Unsent(g) \/ \E j \in 1 .. i - 1 : fs[j].frame = g

\* Wherever the stream was cut by short writes and by recv, what is handed on
\* are sound frames in the order sent, each once, and none is passed over but
\* those of which nothing was sent: nothing is put together from the parts of
\* two frames and nothing after a damaged one passes.
SoundInOrder == InOrder(handled)

\* Between reads the buffer holds less than the largest frame, whatever was
\* sent (the smallest frame if that is larger).
BufferBounded ==
  at = "wait" => Len(buf) < MaxFrameSize \/ Len(buf) < MinFrameSize

\* A connection is closed only for a frame that was damaged or should not be.
ClosedForCause == at = "closed" => \E f \in DOMAIN sent : ~Sound(f) /\ ~Unsent(f)

\* A frame sent after nothing but sound frames and unsent ones is handed on,
\* unless the connection is closed for a later one.
SoundHandled ==
  \A f \in 1 .. MaxFrames :
    (f <= Len(sent) /\ Sound(f) /\ \A g \in 1 .. f : Sound(g) \/ Unsent(g))
      ~> ((\E i \in DOMAIN handled : handled[i].frame = f) \/ at = "closed")
==============================================================================
