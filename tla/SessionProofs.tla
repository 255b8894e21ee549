--------------------------- MODULE SessionProofs ---------------------------
(* TLAPS proofs about Session, for every value of its constants.              *)
EXTENDS Session, SequenceTheorems, TLAPS

------------------------------------------------------------------------------
(* Why RequestsDelivered holds: the inductive invariant of its proof          *)

\* the client numbers its frames 1, 2, 3 ... in the order it sends them, refused ones
\* included: until the counter wraps the numbers on the wire increase
FidInv ==
  /\ Len(sent) + refused < Word => cFid = Len(sent) + refused
  /\ \A i \in DOMAIN sent : i + refused < Word =>
       sent[i].fid \in 1 .. (i + refused) /\ \A j \in 1 .. (i - 1) : sent[j].fid < sent[i].fid

\* every frame sent is on the wire, and never before its predecessor
StreamInv ==
  /\ \A i \in DOMAIN sent : \E q \in DOMAIN c2s : c2s[q] = i
  /\ \A p \in DOMAIN c2s : c2s[p] > 1 => \E q \in 1 .. (p - 1) : c2s[q] = c2s[p] - 1

\* what is parsed and not yet handled are encrypted frames of an open connection
BatchInv ==
  /\ sState = "ACTIVE" /\ sAt \in {"wait", "drain"} => sDone = sParsed
  /\ sAt = "deliver" =>
       sState = "ACTIVE" /\ \A p \in (sDone + 1) .. sParsed : c2s[p] # 0

\* what the server has handled is what it has accepted, and that is a prefix of
\* what was sent, with increasing numbers
AcceptInv ==
  /\ \A p \in 1 .. sDone : c2s[p] <= Len(accepted)
  /\ Len(accepted) <= Len(sent)
  /\ \A i \in DOMAIN accepted : accepted[i] = sent[i]
  /\ \A i \in DOMAIN accepted : accepted[i].fid <= lastCliFid
  /\ \A i \in DOMAIN accepted, j \in DOMAIN accepted : i < j => accepted[i].fid < accepted[j].fid
  /\ lastCliFid = 0 \/ \E i \in DOMAIN accepted : accepted[i].fid = lastCliFid

DeliveryInv == FidInv /\ StreamInv /\ BatchInv /\ AcceptInv

\* For RejectionCause: the handshake came first, and every accepted frame is at
\* a position that has been handled.
CauseInv ==
  /\ sState = "HANDSHAKE" => accepted = <<>>
  /\ sState = "ACTIVE" => c2s # <<>> /\ c2s[1] = 0 /\ sDone >= 1 /\ sSsid = SessionId
  /\ \A i \in DOMAIN accepted : \E q \in 1 .. sDone : c2s[q] = i
  /\ badPos <= Len(c2s)

\* For RepliesNumbered: the server numbers its frames 1, 2, 3 ... until the counter
\* wraps, and nothing is queued before the handshake.  Only the notice that follows a
\* refused frame may skip a number, and nothing follows it.
ReplyFidInv ==
  /\ sState = "HANDSHAKE" => sCmds = <<>> /\ work = {}
  /\ sState # "CLOSED" /\ Len(replies) < Word => sFid = Len(replies)
  /\ \A i \in DOMAIN replies : i < Word =>
       \/ replies[i].fid = i
       \/ i = Len(replies) /\ sState = "CLOSED" /\ replies[i].fid = i + 1

\* For RepliesInOrder: StreamInv for the other wire, and what the client has
\* handled is not beyond what it has handed over.
ReplyStreamInv ==
  /\ \A i \in DOMAIN replies : \E q \in DOMAIN s2c : s2c[q] = i
  /\ \A p \in DOMAIN s2c : s2c[p] > 1 => \E q \in 1 .. (p - 1) : s2c[q] = s2c[p] - 1

GotInv ==
  /\ \A i \in DOMAIN got : got[i] \in DOMAIN replies
  /\ lastSrvFid = IF got = <<>> THEN 0 ELSE replies[got[Len(got)]].fid
  /\ cState = "HANDSHAKE" => cParsed = 0 /\ got = <<>>
  /\ cState = "CONNECTED" =>
       /\ got # <<>> => got[Len(got)] < Word
       /\ \A p \in 1 .. cDone : s2c[p] <= IF got = <<>> THEN 1 ELSE got[Len(got)]

\* a handler gives the Responder at most one response
RespondOnce ==
  \A h \in Handlers : \A i, j \in DOMAIN h : h[i] = "respond" /\ h[j] = "respond" => i = j

\* For AnswersMatch: when every handler responds at most once, a request's
\* answer is still due, or queued once, or sent once, and never two of these.
Due(r) == \E t \in work : t.req = r /\ \E n \in DOMAIN t.todo : t.todo[n] = "respond"
Matches(f) == f.for \in DOMAIN accepted /\ f.rid = accepted[f.for].rid
Answers(c) == c.op = "send" /\ c.frame.kind = "response"

TasksInv ==
  /\ \A t \in work : \A i, j \in DOMAIN t.todo :
       t.todo[i] = "respond" /\ t.todo[j] = "respond" => i = j
  /\ \A t, u \in work : t.req = u.req => t = u

QueuedInv ==
  /\ \A i \in DOMAIN sCmds :
       Answers(sCmds[i]) => Matches(sCmds[i].frame) /\ ~Due(sCmds[i].frame.for)
  /\ \A i, j \in DOMAIN sCmds :
       Answers(sCmds[i]) /\ Answers(sCmds[j]) /\ sCmds[i].frame.for = sCmds[j].frame.for => i = j

AnsweredInv ==
  /\ \A i \in DOMAIN replies :
       replies[i].kind = "response" => Matches(replies[i]) /\ ~Due(replies[i].for)
  /\ \A i, j \in DOMAIN replies :
       replies[i].kind = "response" /\ replies[j].kind = "response"
       /\ replies[i].for = replies[j].for => i = j
  /\ \A i \in DOMAIN sCmds, j \in DOMAIN replies :
       Answers(sCmds[i]) /\ replies[j].kind = "response" => sCmds[i].frame.for # replies[j].for

AnswerInv == TasksInv /\ QueuedInv /\ AnsweredInv

\* no reply is handed on twice: lastSrvFid is the largest number handed on
GotOnceInv ==
  /\ \A i \in DOMAIN got : got[i] \in DOMAIN replies /\ replies[got[i]].fid <= lastSrvFid
  /\ \A i, j \in DOMAIN got : got[i] = got[j] => i = j

------------------------------------------------------------------------------
(* The operators the actions are built from                                   *)

(* ++ on a uint32_t stays a uint32_t, and counts until it wraps to 0.         *)
LEMMA SuccFacts ==
  ASSUME NEW n \in U32
  PROVE  /\ Succ(n) \in U32
         /\ n + 1 < Word => Succ(n) = n + 1
         /\ n + 1 = Word => Succ(n) = 0
BY WordAssumption DEF Succ, U32

(* Appending keeps a sequence and everything in it, and puts the element last. *)
LEMMA AppendFacts ==
  ASSUME NEW S, NEW s \in Seq(S), NEW e \in S
  PROVE  /\ Append(s, e) \in Seq(S)
         /\ Len(Append(s, e)) = Len(s) + 1
         /\ DOMAIN s = 1 .. Len(s) /\ DOMAIN Append(s, e) = 1 .. (Len(s) + 1)
         /\ \A i \in 1 .. Len(s) : Append(s, e)[i] = s[i]
         /\ Append(s, e)[Len(s) + 1] = e
         /\ Len(s) \in Nat
BY AppendProperties, LenProperties

(* What the types say of the elements of the wires and the histories.         *)
LEMMA WireFacts ==
  ASSUME TypeOK
  PROVE  /\ DOMAIN c2s = 1 .. Len(c2s) /\ Len(c2s) \in Nat
         /\ \A p \in 1 .. Len(c2s) : c2s[p] \in Nat /\ c2s[p] <= Len(sent)
         /\ DOMAIN s2c = 1 .. Len(s2c) /\ Len(s2c) \in Nat
         /\ \A p \in 1 .. Len(s2c) : s2c[p] \in 1 .. Len(replies)
         /\ DOMAIN sent = 1 .. Len(sent) /\ Len(sent) \in Nat
         /\ \A i \in 1 .. Len(sent) : sent[i] \in SentFrames
         /\ DOMAIN accepted = 1 .. Len(accepted) /\ Len(accepted) \in Nat
         /\ \A i \in 1 .. Len(accepted) : accepted[i] \in SentFrames
         /\ DOMAIN replies = 1 .. Len(replies) /\ Len(replies) \in Nat
         /\ \A i \in 1 .. Len(replies) : replies[i] \in ReplyFrames
<1>1. /\ c2s \in Seq(Nat) /\ s2c \in Seq(Nat) /\ sent \in Seq(SentFrames)
      /\ accepted \in Seq(SentFrames) /\ replies \in Seq(ReplyFrames)
  BY DEF TypeOK, HistTypeOK, WireTypeOK
<1>2. DOMAIN c2s = 1 .. Len(c2s) /\ Len(c2s) \in Nat /\ \A p \in 1 .. Len(c2s) : c2s[p] \in Nat
  BY <1>1, LenProperties, ElementOfSeq
<1>3. DOMAIN s2c = 1 .. Len(s2c) /\ Len(s2c) \in Nat
  BY <1>1, LenProperties
<1>4. /\ DOMAIN sent = 1 .. Len(sent) /\ Len(sent) \in Nat
      /\ \A i \in 1 .. Len(sent) : sent[i] \in SentFrames
  BY <1>1, LenProperties, ElementOfSeq
<1>5. /\ DOMAIN accepted = 1 .. Len(accepted) /\ Len(accepted) \in Nat
      /\ \A i \in 1 .. Len(accepted) : accepted[i] \in SentFrames
  BY <1>1, LenProperties, ElementOfSeq
<1>6. /\ DOMAIN replies = 1 .. Len(replies) /\ Len(replies) \in Nat
      /\ \A i \in 1 .. Len(replies) : replies[i] \in ReplyFrames
  BY <1>1, LenProperties, ElementOfSeq
<1>7. /\ \A p \in DOMAIN c2s : c2s[p] <= Len(sent)
      /\ \A p \in DOMAIN s2c : s2c[p] \in DOMAIN replies
  BY DEF TypeOK, WireTypeOK
<1> QED BY <1>2, <1>3, <1>4, <1>5, <1>6, <1>7

(* A frame made by makeRespFrame is a reply frame.                            *)
LEMMA MakeRespType ==
  ASSUME SrvTypeOK, NEW kind \in Kinds, NEW for \in Nat, NEW rid \in U32
  PROVE  MakeResp(kind, for, rid) \in ReplyFrames
BY DEF SrvTypeOK, MakeResp, ReplyFrames

(* sendFrame appends one frame to what was sent and its index to the wire.    *)
LEMMA SendFrameFacts ==
  ASSUME TypeOK, NEW frame \in ReplyFrames, SendFrame(frame)
  PROVE  /\ sFid' \in U32
         /\ replies' \in Seq(ReplyFrames) /\ Len(replies') = Len(replies) + 1
         /\ \A i \in 1 .. Len(replies) : replies'[i] = replies[i]
         /\ s2c' \in Seq(Nat) /\ Len(s2c') = Len(s2c) + 1
         /\ \A p \in DOMAIN s2c' : s2c'[p] \in DOMAIN replies'
<1>1. sFid' \in U32
  BY SuccFacts DEF SendFrame, TypeOK, SrvTypeOK
<1> DEFINE f == [frame EXCEPT !.fid = WireFid(@, sFid')]
<1>2. f \in ReplyFrames
  BY <1>1 DEF ReplyFrames, WireFid
<1>3. replies' = Append(replies, f) /\ s2c' = Append(s2c, Len(replies'))
  BY DEF SendFrame
<1> HIDE DEF f
<1>4. replies \in Seq(ReplyFrames) /\ s2c \in Seq(Nat)
  BY DEF TypeOK, HistTypeOK, WireTypeOK
<1>5. /\ replies' \in Seq(ReplyFrames) /\ Len(replies') = Len(replies) + 1
      /\ \A i \in 1 .. Len(replies) : replies'[i] = replies[i]
      /\ DOMAIN replies = 1 .. Len(replies) /\ DOMAIN replies' = 1 .. (Len(replies) + 1)
      /\ Len(replies) \in Nat
  BY <1>2, <1>3, <1>4, AppendFacts
<1>6. /\ s2c' \in Seq(Nat) /\ Len(s2c') = Len(s2c) + 1 /\ Len(s2c) \in Nat
      /\ DOMAIN s2c = 1 .. Len(s2c) /\ DOMAIN s2c' = 1 .. (Len(s2c) + 1)
      /\ \A p \in 1 .. Len(s2c) : s2c'[p] = s2c[p]
      /\ s2c'[Len(s2c) + 1] = Len(replies) + 1
  <2>1. Len(replies') \in Nat
    BY <1>5
  <2> QED BY <1>3, <1>4, <1>5, <2>1, AppendFacts
<1>7. \A p \in DOMAIN s2c' : s2c'[p] \in DOMAIN replies'
  <2>1. \A p \in 1 .. Len(s2c) : s2c[p] \in 1 .. Len(replies)
    BY <1>5, <1>6 DEF TypeOK, WireTypeOK
  <2>2. \A p \in 1 .. (Len(s2c) + 1) : s2c'[p] \in 1 .. (Len(replies) + 1)
    BY <1>5, <1>6, <2>1
  <2> QED BY <1>5, <1>6, <2>2
<1> QED BY <1>1, <1>5, <1>6, <1>7

(* The client's transmission appends one numbered frame and its index.        *)
LEMMA TransmitFacts ==
  ASSUME TypeOK, NEW frame \in Frames, Transmit(frame)
  PROVE  /\ cFid' = Succ(cFid) /\ cFid' \in U32
         /\ sent' \in Seq(SentFrames) /\ Len(sent') = Len(sent) + 1
         /\ DOMAIN sent = 1 .. Len(sent) /\ DOMAIN sent' = 1 .. (Len(sent) + 1)
         /\ \A i \in 1 .. Len(sent) : sent'[i] = sent[i]
         /\ sent'[Len(sent) + 1].fid = cFid'
         /\ c2s' \in Seq(Nat) /\ Len(c2s') = Len(c2s) + 1
         /\ DOMAIN c2s = 1 .. Len(c2s) /\ DOMAIN c2s' = 1 .. (Len(c2s) + 1)
         /\ \A p \in 1 .. Len(c2s) : c2s'[p] = c2s[p]
         /\ c2s'[Len(c2s) + 1] = Len(sent) + 1
         /\ Len(sent) \in Nat /\ Len(c2s) \in Nat
         /\ sent' = Append(sent, sent'[Len(sent) + 1]) /\ sent'[Len(sent) + 1] \in SentFrames
<1> DEFINE f == [rid |-> frame.rid, ssid |-> frame.ssid, fid |-> cFid']
<1>1. cFid' = Succ(cFid) /\ cFid' \in U32
  BY SuccFacts DEF Transmit, TypeOK, CliTypeOK
<1>2. f \in SentFrames /\ f.fid = cFid'
  BY <1>1 DEF SentFrames, Frames
<1>3. sent' = Append(sent, f) /\ c2s' = Append(c2s, Len(sent'))
  BY DEF Transmit
<1> HIDE DEF f
<1>4. sent \in Seq(SentFrames) /\ c2s \in Seq(Nat)
  BY DEF TypeOK, HistTypeOK, WireTypeOK
<1>5. /\ sent' \in Seq(SentFrames) /\ Len(sent') = Len(sent) + 1
      /\ DOMAIN sent = 1 .. Len(sent) /\ DOMAIN sent' = 1 .. (Len(sent) + 1)
      /\ \A i \in 1 .. Len(sent) : sent'[i] = sent[i]
      /\ sent'[Len(sent) + 1] = f /\ Len(sent) \in Nat
  BY <1>2, <1>3, <1>4, AppendFacts
<1>6. Len(sent') \in Nat
  BY <1>5
<1>7. /\ c2s' \in Seq(Nat) /\ Len(c2s') = Len(c2s) + 1
      /\ DOMAIN c2s = 1 .. Len(c2s) /\ DOMAIN c2s' = 1 .. (Len(c2s) + 1)
      /\ \A p \in 1 .. Len(c2s) : c2s'[p] = c2s[p]
      /\ c2s'[Len(c2s) + 1] = Len(sent) + 1 /\ Len(c2s) \in Nat
  BY <1>3, <1>4, <1>5, <1>6, AppendFacts
<1> QED BY <1>1, <1>2, <1>3, <1>5, <1>7

(* The beginning of a frame is on the wire where it is marked, whatever comes *)
(* behind it.                                                                 *)
LEMMA CutFacts ==
  ASSUME TypeOK, NEW v \in Nat, c2s' = Append(c2s, v),
         cut' = cut \/ (v = 0 /\ cut' = cut \cup {Len(c2s')})
  PROVE  cut' \subseteq {p \in DOMAIN c2s' : c2s'[p] = 0}
<1>1. c2s \in Seq(Nat) /\ cut \subseteq {p \in DOMAIN c2s : c2s[p] = 0}
  BY DEF TypeOK, WireTypeOK
<1>2. /\ Len(c2s') = Len(c2s) + 1 /\ Len(c2s) \in Nat
      /\ DOMAIN c2s = 1 .. Len(c2s) /\ DOMAIN c2s' = 1 .. (Len(c2s) + 1)
      /\ \A p \in 1 .. Len(c2s) : c2s'[p] = c2s[p]
      /\ c2s'[Len(c2s) + 1] = v
  BY <1>1, AppendFacts
<1> QED BY <1>1, <1>2

(* A refused frame of the client leaves at most its beginning on the wire.    *)
LEMMA TransmitFailsFacts ==
  ASSUME TypeOK, TransmitFails
  PROVE  /\ cFid' = Succ(cFid) /\ cFid' \in U32 /\ sent' = sent
         /\ refused' = refused + 1 /\ refused' \in Nat
         /\ UNCHANGED <<c2s, cut>> \/ (c2s' = Append(c2s, 0) /\ cut' = cut \cup {Len(c2s')})
BY SuccFacts DEF TransmitFails, TypeOK, CliTypeOK, HistTypeOK

(* A refused frame of the server uses two numbers and puts at most a notice on *)
(* the wire, whose number is the second one, or the first at the wrap.         *)
LEMMA RefusedFacts ==
  ASSUME TypeOK, SendRefused
  PROVE  /\ sFid' \in U32
         /\ \/ UNCHANGED <<replies, s2c>>
            \/ \E f \in ReplyFrames :
                 /\ f.kind = "notice" /\ f.for = 0
                 /\ f.fid = WireFid(Succ(sFid), Succ(Succ(sFid)))
                 /\ replies' = Append(replies, f) /\ s2c' = Append(s2c, Len(replies'))
<1>1. Succ(sFid) \in U32 /\ Succ(Succ(sFid)) \in U32 /\ sFid' = Succ(Succ(sFid))
  BY SuccFacts DEF SendRefused, TypeOK, SrvTypeOK
<1> DEFINE m == MakeResp("notice", 0, 0)
           f == [m EXCEPT !.fid = WireFid(Succ(sFid), Succ(Succ(sFid)))]
<1>2. m \in ReplyFrames /\ m.kind = "notice" /\ m.for = 0
  <2>1. m \in ReplyFrames
    BY MakeRespType, WordAssumption DEF TypeOK, Kinds, U32
  <2> QED BY <2>1 DEF MakeResp
<1>3. f \in ReplyFrames /\ f.kind = "notice" /\ f.for = 0
      /\ f.fid = WireFid(Succ(sFid), Succ(Succ(sFid)))
  BY <1>1, <1>2 DEF ReplyFrames, WireFid
<1>4. UNCHANGED <<replies, s2c>>
      \/ (replies' = Append(replies, f) /\ s2c' = Append(s2c, Len(replies')))
  BY <1>1 DEF SendRefused
<1> HIDE DEF f
<1> QED BY <1>1, <1>3, <1>4

(* What is queued is typed after one more reply.                              *)
LEMMA ReplyAppended ==
  ASSUME TypeOK, NEW f \in ReplyFrames, replies' = Append(replies, f),
         s2c' = Append(s2c, Len(replies'))
  PROVE  /\ replies' \in Seq(ReplyFrames) /\ Len(replies') = Len(replies) + 1
         /\ \A i \in 1 .. Len(replies) : replies'[i] = replies[i]
         /\ replies'[Len(replies) + 1] = f
         /\ DOMAIN replies = 1 .. Len(replies) /\ DOMAIN replies' = 1 .. (Len(replies) + 1)
         /\ s2c' \in Seq(Nat) /\ Len(s2c') = Len(s2c) + 1
         /\ \A p \in DOMAIN s2c' : s2c'[p] \in DOMAIN replies'
<1>1. replies \in Seq(ReplyFrames) /\ s2c \in Seq(Nat)
  BY DEF TypeOK, HistTypeOK, WireTypeOK
<1>2. /\ replies' \in Seq(ReplyFrames) /\ Len(replies') = Len(replies) + 1
      /\ \A i \in 1 .. Len(replies) : replies'[i] = replies[i]
      /\ replies'[Len(replies) + 1] = f
      /\ DOMAIN replies = 1 .. Len(replies) /\ DOMAIN replies' = 1 .. (Len(replies) + 1)
      /\ Len(replies) \in Nat
  BY <1>1, AppendFacts
<1>3. Len(replies') \in Nat
  BY <1>2
<1>4. /\ s2c' \in Seq(Nat) /\ Len(s2c') = Len(s2c) + 1 /\ Len(s2c) \in Nat
      /\ DOMAIN s2c = 1 .. Len(s2c) /\ DOMAIN s2c' = 1 .. (Len(s2c) + 1)
      /\ \A p \in 1 .. Len(s2c) : s2c'[p] = s2c[p]
      /\ s2c'[Len(s2c) + 1] = Len(replies) + 1
  BY <1>1, <1>2, <1>3, AppendFacts
<1>5. \A p \in 1 .. Len(s2c) : s2c[p] \in 1 .. Len(replies)
  BY <1>2, <1>4 DEF TypeOK, WireTypeOK
<1>6. \A p \in 1 .. (Len(s2c) + 1) : s2c'[p] \in 1 .. (Len(replies) + 1)
  BY <1>2, <1>4, <1>5
<1> QED BY <1>2, <1>4, <1>6

------------------------------------------------------------------------------
(* Type correctness                                                           *)

(* The initial state has the types.                                           *)
LEMMA TypeInit == Init => TypeOK
<1> SUFFICES ASSUME Init PROVE TypeOK
  OBVIOUS
<1>1. CliTypeOK
  BY WordAssumption DEF Init, CliTypeOK, U32, Ssids, Frames, NoFrame
<1>2. SrvTypeOK
  BY WordAssumption DEF Init, SrvTypeOK, U32, Ssids
<1>3. HistTypeOK /\ WireTypeOK
  BY DEF Init, HistTypeOK, WireTypeOK
<1> QED BY <1>1, <1>2, <1>3 DEF TypeOK

(* A step of a calling thread keeps the types.                                *)
LEMMA CallType ==
  ASSUME TypeOK, NEW u \in Callers, CallStep(u)
  PROVE  TypeOK'
<1> USE DEF TypeOK
<1>1. SrvTypeOK' /\ HistTypeOK' /\ WireTypeOK'
  <2>1. UNCHANGED <<srvVars, c2s, s2c, posVars, sent, accepted, replies, got, badPos, envVars, cAt>>
    BY DEF CallStep, SendBegin, SendMake, SendPush
  <2> QED BY <2>1 DEF SrvTypeOK, HistTypeOK, WireTypeOK, srvVars, posVars, sPos, cPos, envVars
<1>2. CASE SendBegin(u)
  BY <1>1, <1>2, WordAssumption DEF SendBegin, CliTypeOK, Frames, Ssids, U32
<1>3. CASE SendMake(u)
  <2>1. call[u].frame.rid \in U32
    BY DEF CliTypeOK, Frames
  <2> QED BY <1>1, <1>3, <2>1, SuccFacts DEF SendMake, CliTypeOK, Frames
<1>4. CASE SendPush(u)
  <2>1. call[u].frame \in Frames /\ cmds \in Seq(Frames)
    BY DEF CliTypeOK
  <2>2. cmds' \in Seq(Frames)
    BY <1>4, <2>1, AppendFacts DEF SendPush
  <2>3. NoFrame \in Frames
    BY WordAssumption DEF NoFrame, Frames, U32, Ssids
  <2> QED BY <1>1, <1>4, <2>2, <2>3 DEF SendPush, CliTypeOK
<1> QED BY <1>2, <1>3, <1>4 DEF CallStep

(* A step of the client's epoll thread keeps the types.                       *)
LEMMA ClientType ==
  ASSUME TypeOK, ClientLoop
  PROVE  TypeOK'
<1> USE DEF TypeOK
<1>1. UNCHANGED <<call, calls, srvVars, s2c, sPos, accepted, replies, badPos, age, repeats>>
  BY DEF ClientLoop
<1>2. SrvTypeOK'
  BY <1>1 DEF SrvTypeOK, srvVars
<1>3. ASSUME NEW frame \in Frames, Transmit(frame), UNCHANGED <<cPos, got, refused, cut>>,
             cAt' # "deliver"
      PROVE  HistTypeOK' /\ WireTypeOK' /\ cFid' \in U32
  <2>1. HistTypeOK'
    BY <1>1, <1>3, TransmitFacts DEF HistTypeOK
  <2>2. \A p \in 1 .. (Len(c2s) + 1) : c2s'[p] <= Len(sent')
    <3>1. /\ Len(sent') = Len(sent) + 1
          /\ \A p \in 1 .. Len(c2s) : c2s'[p] = c2s[p]
          /\ c2s'[Len(c2s) + 1] = Len(sent) + 1
      BY <1>3, TransmitFacts
    <3>2. /\ Len(c2s) \in Nat /\ Len(sent) \in Nat
          /\ \A p \in 1 .. Len(c2s) : c2s[p] \in Nat /\ c2s[p] <= Len(sent)
      BY WireFacts
    <3> TAKE p \in 1 .. (Len(c2s) + 1)
    <3>3. CASE p = Len(c2s) + 1
      BY <3>1, <3>2, <3>3
    <3>4. CASE p # Len(c2s) + 1
      <4>1. p \in 1 .. Len(c2s)
        BY <3>2, <3>4
      <4> QED BY <3>1, <3>2, <4>1
    <3> QED BY <3>3, <3>4
  <2>3. cut' \subseteq {p \in DOMAIN c2s' : c2s'[p] = 0}
    <3>1. c2s' = Append(c2s, Len(sent')) /\ Len(sent') \in Nat
      BY <1>3, TransmitFacts DEF Transmit
    <3> QED BY <1>3, <3>1, CutFacts
  <2>4. WireTypeOK'
    BY <1>1, <1>3, <2>2, <2>3, TransmitFacts DEF WireTypeOK, sPos, cPos, srvVars
  <2> QED BY <1>3, <2>1, <2>4, TransmitFacts
<1>10. ASSUME UNCHANGED <<sent, cPos, got>>, c2s' = Append(c2s, 0), refused' \in Nat,
              cut' = cut \/ cut' = cut \cup {Len(c2s')}, cAt' # "deliver"
       PROVE  HistTypeOK' /\ WireTypeOK'
  <2>1. c2s \in Seq(Nat)
    BY DEF WireTypeOK
  <2>2. /\ c2s' \in Seq(Nat) /\ Len(c2s') = Len(c2s) + 1 /\ DOMAIN c2s' = 1 .. (Len(c2s) + 1)
        /\ \A p \in 1 .. Len(c2s) : c2s'[p] = c2s[p]
        /\ c2s'[Len(c2s) + 1] = 0
    BY <1>10, <2>1, AppendFacts
  <2>3. /\ Len(c2s) \in Nat /\ Len(sent) \in Nat
        /\ \A p \in 1 .. Len(c2s) : c2s[p] <= Len(sent)
    BY WireFacts
  <2>4. \A p \in 1 .. (Len(c2s) + 1) : p \in 1 .. Len(c2s) \/ p = Len(c2s) + 1
    BY <2>3
  <2>5. \A p \in 1 .. (Len(c2s) + 1) : c2s'[p] <= Len(sent)
    BY <2>2, <2>3, <2>4
  <2>6. cut' \subseteq {p \in DOMAIN c2s' : c2s'[p] = 0}
    BY <1>10, CutFacts
  <2>7. HistTypeOK'
    BY <1>1, <1>10 DEF HistTypeOK
  <2> QED BY <1>1, <1>10, <2>2, <2>3, <2>5, <2>6, <2>7 DEF WireTypeOK, sPos, cPos, srvVars
<1>4. CASE ClientHandshake /\ UNCHANGED <<refused, cut>>
  <2>1. cRid' \in U32
    BY <1>4, SuccFacts DEF ClientHandshake, CliTypeOK
  <2>2. CASE cState = "HANDSHAKE"
    <3>1. c2s' = Append(c2s, 0) /\ UNCHANGED <<cFid, sent, cPos, got>>
      BY <1>4, <2>2 DEF ClientHandshake
    <3>2. HistTypeOK' /\ WireTypeOK'
      <4>1. cAt' # "deliver" /\ refused' \in Nat
        BY <1>4 DEF ClientHandshake, HistTypeOK
      <4> QED BY <1>4, <1>10, <3>1, <4>1
    <3> QED BY <1>1, <1>2, <1>4, <2>1, <2>2, <3>1, <3>2 DEF ClientHandshake, CliTypeOK
  <2>3. CASE cState # "HANDSHAKE"
    <3> DEFINE f == [rid |-> cRid', ssid |-> cSsid]
    <3>1. f \in Frames
      BY <2>1 DEF Frames, CliTypeOK
    <3>2. Transmit(f) /\ cAt' # "deliver" /\ UNCHANGED <<cPos, got, refused, cut>>
      BY <1>4, <2>3 DEF ClientHandshake
    <3> HIDE DEF f
    <3>3. HistTypeOK' /\ WireTypeOK' /\ cFid' \in U32
      BY <1>3, <3>1, <3>2
    <3> QED BY <1>1, <1>2, <1>4, <2>1, <3>3 DEF ClientHandshake, CliTypeOK
  <2> QED BY <2>2, <2>3
<1>5. CASE /\ ClientWake \/ ClientDrained \/ ClientHangup \/ ClientLoopExit
          /\ UNCHANGED <<refused, cut>>
  BY <1>1, <1>2, <1>5 DEF ClientWake, ClientDrained, ClientHangup, ClientLoopExit,
     CliTypeOK, HistTypeOK, WireTypeOK, sPos, cPos, srvVars
<1>6. CASE ClientCommand
  <2>1. Head(cmds) \in Frames /\ cmds' \in Seq(Frames)
    BY <1>6, HeadTailProperties DEF ClientCommand, CliTypeOK
  <2>2. CASE cState = "HANDSHAKE"
    BY <1>1, <1>2, <1>6, <2>1, <2>2
       DEF ClientCommand, CliTypeOK, HistTypeOK, WireTypeOK, sPos, cPos, srvVars
  <2>3. CASE cState # "HANDSHAKE" /\ Transmit(Head(cmds)) /\ UNCHANGED <<refused, cut>>
    <3>1. cAt' # "deliver" /\ UNCHANGED <<cPos, got>>
      BY <1>6 DEF ClientCommand
    <3>2. HistTypeOK' /\ WireTypeOK' /\ cFid' \in U32
      BY <1>3, <2>1, <2>3, <3>1
    <3> QED BY <1>1, <1>2, <1>6, <2>1, <3>2 DEF ClientCommand, CliTypeOK
  <2>4. CASE cState # "HANDSHAKE" /\ TransmitFails
    <3>1. cAt' # "deliver" /\ UNCHANGED <<cPos, got>>
      BY <1>6 DEF ClientCommand
    <3>2. HistTypeOK' /\ WireTypeOK'
      <4>1. CASE UNCHANGED <<c2s, cut>>
        BY <1>1, <2>4, <3>1, <4>1, TransmitFailsFacts DEF HistTypeOK, WireTypeOK, sPos, cPos, srvVars
      <4>2. CASE c2s' = Append(c2s, 0) /\ cut' = cut \cup {Len(c2s')}
        BY <1>10, <2>4, <3>1, <4>2, TransmitFailsFacts
      <4> QED BY <2>4, <4>1, <4>2, TransmitFailsFacts
    <3>3. cFid' \in U32
      BY <2>4, TransmitFailsFacts
    <3> QED BY <1>1, <1>2, <1>6, <2>1, <3>2, <3>3 DEF ClientCommand, CliTypeOK
  <2> QED BY <1>6, <2>2, <2>3, <2>4 DEF ClientCommand
<1>7. CASE ClientRead /\ UNCHANGED <<refused, cut>>
  <2>1. PICK n \in (cParsed + 1) .. Len(s2c) :
           /\ cParsed' = n
           /\ IF cState = "HANDSHAKE"
                THEN cState' = "CONNECTED" /\ cSsid' = replies[s2c[cParsed + 1]].ssid
                ELSE UNCHANGED <<cState, cSsid>>
           /\ cDone' = cDone + (IF cState = "HANDSHAKE" THEN 1 ELSE 0)
           /\ cAt' = After(cDone', n)
    BY <1>7 DEF ClientRead
  <2>2. s2c[cParsed + 1] \in 1 .. Len(replies) /\ Len(s2c) \in Nat /\ Len(replies) \in Nat
    BY WireFacts DEF WireTypeOK
  <2>3. replies[s2c[cParsed + 1]].ssid \in Ssids
    BY <2>2, WireFacts DEF ReplyFrames
  <2>4. UNCHANGED <<cFid, cRid, lastSrvFid, cmds, c2s, sent, got>>
    BY <1>7 DEF ClientRead
  <2>5. CliTypeOK'
    BY <1>1, <2>1, <2>3, <2>4 DEF CliTypeOK, After
  <2>6. cDone' \in 0 .. cParsed' /\ cParsed' \in 0 .. Len(s2c) /\ (cAt' = "deliver" => cDone' < cParsed')
    BY <2>1, <2>2 DEF WireTypeOK, After
  <2>7. HistTypeOK'
    BY <1>1, <1>7, <2>4 DEF HistTypeOK
  <2>8. WireTypeOK'
    BY <1>1, <1>7, <2>4, <2>6 DEF WireTypeOK, sPos, srvVars
  <2> QED BY <1>2, <2>5, <2>7, <2>8
<1>8. CASE ClientDeliver /\ UNCHANGED <<refused, cut>>
  <2>1. /\ cDone + 1 \in 1 .. Len(s2c) /\ s2c[cDone + 1] \in 1 .. Len(replies)
        /\ Len(replies) \in Nat /\ Len(s2c) \in Nat
    <3>1. cDone \in 0 .. cParsed /\ cParsed \in 0 .. Len(s2c) /\ cDone < cParsed
      BY <1>8 DEF ClientDeliver, WireTypeOK
    <3>2. /\ Len(replies) \in Nat /\ Len(s2c) \in Nat
          /\ \A p \in 1 .. Len(s2c) : s2c[p] \in 1 .. Len(replies)
      BY WireFacts
    <3>3. cDone + 1 \in 1 .. Len(s2c)
      BY <3>1, <3>2
    <3> QED BY <3>2, <3>3
  <2>2. replies[s2c[cDone + 1]].fid \in U32
    BY <2>1, WireFacts DEF ReplyFrames
  <2>3. got' \in Seq(Nat)
    BY <1>8, <2>1, AppendFacts DEF ClientDeliver, HistTypeOK
  <2>4. CliTypeOK'
    BY <1>1, <1>8, <2>2 DEF ClientDeliver, CliTypeOK, After
  <2>5. cDone' \in 0 .. cParsed' /\ cParsed' = cParsed /\ (cAt' = "deliver" => cDone' < cParsed')
    BY <1>8, <2>1 DEF ClientDeliver, WireTypeOK, After
  <2> QED BY <1>1, <1>2, <1>8, <2>3, <2>4, <2>5
          DEF ClientDeliver, HistTypeOK, WireTypeOK, sPos, srvVars
<1>9. CASE ClientReject /\ UNCHANGED <<refused, cut>>
  <2>1. cDone' \in 0 .. cParsed' /\ cAt' # "deliver"
    BY <1>9 DEF ClientReject, WireTypeOK
  <2> QED BY <1>1, <1>2, <1>9, <2>1
          DEF ClientReject, CliTypeOK, HistTypeOK, WireTypeOK, sPos, srvVars
<1> QED BY <1>4, <1>5, <1>6, <1>7, <1>8, <1>9 DEF ClientLoop

(* A step of the server's epoll thread keeps the types.                       *)
LEMMA ServerType ==
  ASSUME TypeOK, BatchInv, ServerLoop
  PROVE  TypeOK'
<1> USE DEF TypeOK
<1>1. UNCHANGED <<cliVars, c2s, cPos, sent, got, envVars>>
  BY DEF ServerLoop
<1>2. CliTypeOK'
  BY <1>1 DEF CliTypeOK, cliVars
<1>3. ASSUME NEW frame \in ReplyFrames, SendFrame(frame) \/ SendRefused, accepted' = accepted,
             badPos' \in Nat,
             sTaken' \in 0 .. Len(c2s), sParsed' \in 0 .. sTaken', sDone' \in 0 .. sParsed',
             sAt' # "deliver"
      PROVE  HistTypeOK' /\ WireTypeOK' /\ sFid' \in U32
  <2>1. /\ sFid' \in U32
        /\ replies' \in Seq(ReplyFrames)
        /\ s2c' \in Seq(Nat) /\ Len(s2c') \in {Len(s2c), Len(s2c) + 1}
        /\ \A p \in DOMAIN s2c' : s2c'[p] \in DOMAIN replies'
    <3>1. CASE SendFrame(frame)
      BY <1>3, <3>1, SendFrameFacts
    <3>2. CASE SendRefused
      <4>1. CASE UNCHANGED <<replies, s2c>>
        BY <3>2, <4>1, RefusedFacts DEF HistTypeOK, WireTypeOK
      <4>2. CASE ~UNCHANGED <<replies, s2c>>
        <5>1. PICK f \in ReplyFrames : replies' = Append(replies, f) /\ s2c' = Append(s2c, Len(replies'))
          BY <3>2, <4>2, RefusedFacts
        <5> QED BY <3>2, <5>1, RefusedFacts, ReplyAppended
      <4> QED BY <4>1, <4>2
    <3> QED BY <1>3, <3>1, <3>2
  <2>2. HistTypeOK'
    BY <1>1, <1>3, <2>1 DEF HistTypeOK, envVars
  <2>3. WireTypeOK'
    <3>1. UNCHANGED <<c2s, sent, cAt, cParsed, cDone, cut>>
      BY <1>1 DEF cliVars, cPos, envVars
    <3>2. Len(s2c) \in Nat
      BY WireFacts
    <3>3. cParsed' \in 0 .. Len(s2c') /\ cDone' \in 0 .. cParsed' /\ (cAt' = "deliver" => cDone' < cParsed')
      BY <2>1, <3>1, <3>2 DEF WireTypeOK
    <3>4. /\ c2s' \in Seq(Nat) /\ \A p \in DOMAIN c2s' : c2s'[p] <= Len(sent')
          /\ cut' \subseteq {p \in DOMAIN c2s' : c2s'[p] = 0}
      BY <3>1 DEF WireTypeOK
    <3> QED BY <1>3, <2>1, <3>1, <3>3, <3>4 DEF WireTypeOK
  <2> QED BY <2>1, <2>2, <2>3
<1>4. ASSUME UNCHANGED <<s2c, sPos, accepted, replies, badPos>>, sAt' # "deliver"
      PROVE  HistTypeOK' /\ WireTypeOK'
  BY <1>1, <1>4 DEF HistTypeOK, WireTypeOK, sPos, cPos, cliVars, envVars
<1>5. MakeResp("notice", 0, 0) \in ReplyFrames /\ Len(c2s) \in Nat
  BY MakeRespType, WireFacts, WordAssumption DEF Kinds, U32
<1>6. CASE ServerHandshake
  <2> DEFINE f == [MakeResp("secured", 0, 0) EXCEPT !.ssid = sSsid']
  <2>1. MakeResp("secured", 0, 0) \in ReplyFrames
    BY MakeRespType, WordAssumption DEF Kinds, U32
  <2>2. f \in ReplyFrames /\ sSsid' \in Ssids
    BY <1>6, <2>1 DEF ServerHandshake, ReplyFrames, Ssids
  <2>3. SendFrame(f) /\ accepted' = accepted /\ badPos' = badPos /\ sAt' = "wait"
    BY <1>6 DEF ServerHandshake
  <2>4. sTaken' \in 1 .. Len(c2s) /\ sParsed' = 1 /\ sDone' = 1 /\ badPos' \in Nat
    <3>1. /\ sTaken' \in (sTaken + 1) .. Len(c2s) /\ sParsed' = 1 /\ sDone' = 1
      BY <1>6 DEF ServerHandshake
    <3>2. sTaken \in 0 .. Len(c2s) /\ badPos \in Nat
      BY DEF WireTypeOK, HistTypeOK
    <3> QED BY <1>5, <2>3, <3>1, <3>2
  <2> HIDE DEF f
  <2>5. sTaken' \in 0 .. Len(c2s) /\ sParsed' \in 0 .. sTaken' /\ sDone' \in 0 .. sParsed'
    BY <2>4, <1>5
  <2>6. HistTypeOK' /\ WireTypeOK' /\ sFid' \in U32
    BY <1>3, <2>2, <2>3, <2>4, <2>5
  <2>7. SrvTypeOK'
    BY <1>6, <2>2, <2>6 DEF ServerHandshake, SrvTypeOK
  <2> QED BY <1>2, <2>6, <2>7
<1>7. CASE ServerHandshakeFails \/ ServerHangup \/ ServerWake \/ ServerSendFails \/ ServerDrained
  <2>1. UNCHANGED <<s2c, sPos, accepted, replies, badPos>> /\ sAt' # "deliver"
    BY <1>7 DEF ServerHandshakeFails, ServerHangup, ServerWake, ServerSendFails, ServerDrained
  <2>2. HistTypeOK' /\ WireTypeOK'
    BY <1>4, <2>1
  <2>3. SrvTypeOK'
    BY <1>7 DEF ServerHandshakeFails, ServerHangup, ServerWake, ServerSendFails, ServerDrained,
                SrvTypeOK
  <2> QED BY <1>2, <2>2, <2>3
<1>8. CASE ServerRead
  <2>1. PICK n \in (sTaken + 1) .. Len(c2s) : \E p \in sParsed .. n : sTaken' = n /\ sParsed' = p
    BY <1>8 DEF ServerRead
  <2>2. UNCHANGED <<sState, sSsid, sFid, lastCliFid, inTable, sCmds, work, s2c, sDone,
                    accepted, replies, badPos>>
        /\ sAt' \in {"deliver", "wait"} /\ (sAt' = "deliver" => sDone < sParsed')
    BY <1>8 DEF ServerRead
  <2>3. SrvTypeOK' /\ HistTypeOK'
    BY <1>1, <2>2 DEF SrvTypeOK, HistTypeOK, envVars
  <2>4. sTaken' \in 0 .. Len(c2s) /\ sParsed' \in 0 .. sTaken' /\ sDone' \in 0 .. sParsed'
    BY <1>5, <2>1, <2>2 DEF WireTypeOK
  <2>5. WireTypeOK'
    BY <1>1, <2>2, <2>4 DEF WireTypeOK, cliVars, cPos, envVars
  <2> QED BY <1>2, <2>3, <2>5
<1>9. CASE ServerReadFails
  <2>1. PICK n \in (sTaken + 1) .. Len(c2s) : \E p \in (sParsed + 1) .. n :
             sTaken' = n /\ sParsed' = p /\ Reject(p)
    BY <1>9 DEF ServerReadFails
  <2>2. PICK p \in (sParsed + 1) .. n : sTaken' = n /\ sParsed' = p /\ Reject(p)
    BY <2>1
  <2>3. sTaken \in Nat /\ sParsed \in Nat /\ sDone \in Nat /\ sDone <= sParsed /\ sParsed <= sTaken
    BY <1>5 DEF WireTypeOK
  <2>4. /\ sTaken' \in 0 .. Len(c2s) /\ sParsed' \in 0 .. sTaken' /\ sDone' \in 0 .. sParsed'
        /\ badPos' \in Nat /\ accepted' = accepted /\ sAt' = "wait"
        /\ SendFrame(MakeResp("notice", 0, 0)) \/ SendRefused
    BY <1>5, <1>9, <2>2, <2>3 DEF ServerReadFails, Reject
  <2>5. HistTypeOK' /\ WireTypeOK' /\ sFid' \in U32
    BY <1>3, <1>5, <2>4
  <2>6. SrvTypeOK'
    BY <1>9, <2>2, <2>5 DEF ServerReadFails, Reject, SrvTypeOK
  <2> QED BY <1>2, <2>5, <2>6
<1>10. CASE ServerAccept
  <2> DEFINE f == sent[c2s[sDone + 1]]
  <2>1. sDone + 1 \in 1 .. Len(c2s) /\ sDone + 1 \in (sDone + 1) .. sParsed
    BY <1>5, <1>10, SMTT(20) DEF ServerAccept, WireTypeOK
  <2>2. f \in SentFrames
    BY <1>10, <2>1, WireFacts DEF ServerAccept, BatchInv
  <2>3. accepted' = Append(accepted, f) /\ lastCliFid' = f.fid
    BY <1>10 DEF ServerAccept
  <2> HIDE DEF f
  <2>4. /\ accepted' \in Seq(SentFrames) /\ Len(accepted') = Len(accepted) + 1
        /\ DOMAIN accepted = 1 .. Len(accepted) /\ DOMAIN accepted' = 1 .. (Len(accepted) + 1)
        /\ Len(accepted) \in Nat
    BY <2>2, <2>3, AppendFacts DEF HistTypeOK
  <2>5. PICK h \in Handlers :
           work' = IF h = <<>> THEN work ELSE work \cup {[req |-> Len(accepted'), todo |-> h]}
    BY <1>10 DEF ServerAccept
  <2>6. \A t \in work' : t \in [req : DOMAIN accepted', todo : Seq(ResponderCall) \ {<<>>}]
    <3>1. \A t \in work : t \in [req : DOMAIN accepted', todo : Seq(ResponderCall) \ {<<>>}]
      BY <2>4 DEF SrvTypeOK
    <3>2. h # <<>> => [req |-> Len(accepted'), todo |-> h]
                        \in [req : DOMAIN accepted', todo : Seq(ResponderCall) \ {<<>>}]
      BY <2>4, <2>5, HandlersAssumption
    <3> QED BY <2>5, <3>1, <3>2
  <2>7. SrvTypeOK'
    BY <1>10, <2>2, <2>3, <2>6 DEF ServerAccept, SrvTypeOK, After, SentFrames
  <2>8. HistTypeOK'
    BY <1>1, <1>10, <2>4 DEF ServerAccept, HistTypeOK, envVars
  <2>9. sDone' \in 0 .. sParsed' /\ (sAt' = "deliver" => sDone' < sParsed')
    BY <1>5, <1>10, <2>1 DEF ServerAccept, After, WireTypeOK
  <2>10. WireTypeOK'
    BY <1>1, <1>10, <2>9 DEF ServerAccept, WireTypeOK, cPos, cliVars, envVars
  <2> QED BY <1>2, <2>7, <2>8, <2>10
<1>11. CASE ServerReject
  <2>1. /\ sTaken' \in 0 .. Len(c2s) /\ sParsed' \in 0 .. sTaken' /\ sDone' \in 0 .. sParsed'
        /\ badPos' \in Nat /\ accepted' = accepted /\ sAt' = "wait"
        /\ SendFrame(MakeResp("notice", 0, 0)) \/ SendRefused
    BY <1>5, <1>11, SMTT(40) DEF ServerReject, Reject, sPos, WireTypeOK
  <2>2. HistTypeOK' /\ WireTypeOK' /\ sFid' \in U32
    BY <1>3, <1>5, <2>1
  <2>3. SrvTypeOK'
    BY <1>11, <2>2 DEF ServerReject, Reject, SrvTypeOK
  <2> QED BY <1>2, <2>2, <2>3
<1>12. CASE ServerSend \/ ServerSendRefused \/ ServerClose \/ ServerUnknown
  <2>1. Head(sCmds) \in Commands /\ sCmds' \in Seq(Commands)
    BY <1>12, HeadTailProperties DEF ServerSend, ServerSendRefused, ServerClose, ServerUnknown, SrvTypeOK
  <2>2. CASE ServerSend /\ sState = "ACTIVE"
    <3>1. Head(sCmds).frame \in ReplyFrames
      BY <2>1, <2>2 DEF ServerSend, Commands
    <3>2. SendFrame(Head(sCmds).frame) /\ UNCHANGED <<accepted, badPos, sPos, sAt>> /\ sAt' # "deliver"
      BY <2>2 DEF ServerSend
    <3>3. /\ sTaken' \in 0 .. Len(c2s) /\ sParsed' \in 0 .. sTaken' /\ sDone' \in 0 .. sParsed'
          /\ badPos' \in Nat
      BY <3>2 DEF sPos, WireTypeOK, HistTypeOK
    <3>4. HistTypeOK' /\ WireTypeOK' /\ sFid' \in U32
      BY <1>3, <3>1, <3>2, <3>3
    <3>5. SrvTypeOK'
      BY <2>1, <2>2, <3>4 DEF ServerSend, SrvTypeOK
    <3> QED BY <1>2, <3>4, <3>5
  <2>3. CASE ServerSend /\ sState # "ACTIVE"
    <3>1. sFid' \in U32
      BY <2>3, SuccFacts DEF ServerSend, SrvTypeOK
    <3>2. HistTypeOK' /\ WireTypeOK'
      BY <1>4, <2>3 DEF ServerSend
    <3>3. SrvTypeOK'
      BY <2>1, <2>3, <3>1 DEF ServerSend, SrvTypeOK
    <3> QED BY <1>2, <3>2, <3>3
  <2>4. CASE ServerClose \/ ServerUnknown
    <3>1. HistTypeOK' /\ WireTypeOK'
      BY <1>4, <2>4 DEF ServerClose, ServerUnknown
    <3>2. SrvTypeOK'
      BY <2>1, <2>4 DEF ServerClose, ServerUnknown, SrvTypeOK
    <3> QED BY <1>2, <3>1, <3>2
  <2>5. CASE ServerSendRefused
    <3>1. SendRefused /\ UNCHANGED <<accepted, badPos, sPos, sAt>> /\ sAt' # "deliver"
      BY <2>5 DEF ServerSendRefused
    <3>2. /\ sTaken' \in 0 .. Len(c2s) /\ sParsed' \in 0 .. sTaken' /\ sDone' \in 0 .. sParsed'
          /\ badPos' \in Nat
      BY <3>1 DEF sPos, WireTypeOK, HistTypeOK
    <3>3. HistTypeOK' /\ WireTypeOK' /\ sFid' \in U32
      BY <1>3, <1>5, <3>1, <3>2
    <3>4. SrvTypeOK'
      BY <2>1, <2>5, <3>3 DEF ServerSendRefused, SrvTypeOK
    <3> QED BY <1>2, <3>3, <3>4
  <2> QED BY <1>12, <2>2, <2>3, <2>4, <2>5
<1> QED BY <1>6, <1>7, <1>8, <1>9, <1>10, <1>11, <1>12 DEF ServerLoop

(* A step of a pool worker keeps the types.                                   *)
LEMMA WorkerType ==
  ASSUME TypeOK, NEW t \in work, WorkerStep(t)
  PROVE  TypeOK'
<1> USE DEF TypeOK
<1>1. UNCHANGED <<cliVars, sAt, sState, sSsid, sFid, lastCliFid, inTable, c2s, s2c, posVars,
                  sent, accepted, replies, got, badPos, envVars>>
  BY DEF WorkerStep
<1>2. CliTypeOK' /\ HistTypeOK' /\ WireTypeOK'
  BY <1>1 DEF CliTypeOK, HistTypeOK, WireTypeOK, cliVars, posVars, sPos, cPos, envVars
<1>3. t.req \in 1 .. Len(accepted) /\ t.todo \in Seq(ResponderCall) /\ t.todo # <<>>
  BY WireFacts DEF SrvTypeOK
<1>4. /\ Head(t.todo) \in ResponderCall /\ Tail(t.todo) \in Seq(ResponderCall)
      /\ Len(Tail(t.todo)) = Len(t.todo) - 1 /\ Len(t.todo) \in Nat
  BY <1>3, HeadTailProperties, LenProperties
<1>5. sCmds' \in Seq(Commands)
  <2>1. accepted[t.req].rid \in U32 /\ t.req \in Nat /\ 0 \in U32
    BY <1>3, WireFacts, WordAssumption DEF SentFrames, U32
  <2>2. /\ MakeResp("response", t.req, accepted[t.req].rid) \in ReplyFrames
        /\ MakeResp("push", t.req, 0) \in ReplyFrames
    BY <2>1, MakeRespType DEF Kinds
  <2>3. /\ [op |-> "close"] \in Commands
        /\ [op |-> "send", frame |-> MakeResp("response", t.req, accepted[t.req].rid)] \in Commands
        /\ [op |-> "send", frame |-> MakeResp("push", t.req, 0)] \in Commands
    BY <2>2 DEF Commands
  <2>4. sCmds \in Seq(Commands) /\ inTable \in BOOLEAN
    BY DEF SrvTypeOK
  <2>5. CASE Head(t.todo) = "close"
    BY <2>3, <2>4, <2>5, AppendFacts DEF WorkerStep
  <2>6. CASE Head(t.todo) # "close" /\ ~inTable
    BY <2>4, <2>6 DEF WorkerStep
  <2>7. CASE Head(t.todo) = "respond" /\ inTable
    BY <2>3, <2>4, <2>7, AppendFacts DEF WorkerStep
  <2>8. CASE Head(t.todo) = "push" /\ inTable
    BY <2>3, <2>4, <2>8, AppendFacts DEF WorkerStep
  <2> QED BY <1>4, <2>4, <2>5, <2>6, <2>7, <2>8 DEF ResponderCall
<1>6. \A s \in work' : s \in [req : DOMAIN accepted, todo : Seq(ResponderCall) \ {<<>>}]
  <2>1. Len(t.todo) # 1 => Tail(t.todo) # <<>>
    <3>1. Tail(t.todo) = <<>> => Len(Tail(t.todo)) = 0
      BY EmptySeq
    <3> QED BY <1>4, <3>1
  <2>2. work' \subseteq work \cup (IF Len(t.todo) = 1 THEN {} ELSE {[t EXCEPT !.todo = Tail(t.todo)]})
    BY DEF WorkerStep, Rest
  <2>3. t \in [req : DOMAIN accepted, todo : Seq(ResponderCall) \ {<<>>}]
    BY DEF SrvTypeOK
  <2>4. Len(t.todo) # 1 => [t EXCEPT !.todo = Tail(t.todo)]
                             \in [req : DOMAIN accepted, todo : Seq(ResponderCall) \ {<<>>}]
    BY <1>4, <2>1, <2>3
  <2> QED BY <2>2, <2>4 DEF SrvTypeOK
<1>7. SrvTypeOK'
  BY <1>1, <1>5, <1>6 DEF SrvTypeOK
<1> QED BY <1>2, <1>7

(* The owner's close, the end of the client process, the clock and the network *)
(* keep the types.                                                            *)
LEMMA RestType ==
  ASSUME TypeOK, OwnerClose \/ ClientExit \/ Tick \/ RepeatRequest \/ RepeatReply
  PROVE  TypeOK'
<1> USE DEF TypeOK
<1>1. CASE OwnerClose \/ ClientExit \/ Tick
  <2>1. UNCHANGED <<cSsid, cFid, cRid, lastSrvFid, cmds, call, calls, srvVars, c2s, s2c, posVars,
                    sent, accepted, replies, got, badPos, repeats, refused, cut>>
    BY <1>1 DEF OwnerClose, ClientExit, Tick, cliVars, envVars
  <2>2. /\ cAt' \in {cAt, "gone"} /\ cState' \in {cState, "CLOSED"}
        /\ age \in Nat /\ age' \in {age, age + 1}
    BY <1>1 DEF OwnerClose, ClientExit, Tick, cliVars, envVars, HistTypeOK
  <2>3. CliTypeOK'
    BY <2>1, <2>2 DEF CliTypeOK
  <2>4. SrvTypeOK' /\ HistTypeOK'
    BY <2>1, <2>2 DEF SrvTypeOK, HistTypeOK, srvVars
  <2>5. WireTypeOK'
    BY <2>1, <2>2 DEF WireTypeOK, srvVars, posVars, sPos, cPos
  <2> QED BY <2>3, <2>4, <2>5
<1>2. CASE RepeatRequest
  <2>1. PICK p \in DOMAIN c2s : c2s' = Append(c2s, c2s[p])
    BY <1>2 DEF RepeatRequest
  <2>2. c2s \in Seq(Nat) /\ c2s[p] \in Nat /\ c2s[p] <= Len(sent)
    BY <2>1, WireFacts DEF WireTypeOK
  <2>3. /\ c2s' \in Seq(Nat) /\ Len(c2s') = Len(c2s) + 1 /\ DOMAIN c2s' = 1 .. (Len(c2s) + 1)
        /\ \A q \in 1 .. Len(c2s) : c2s'[q] = c2s[q]
        /\ c2s'[Len(c2s) + 1] = c2s[p]
    BY <2>1, <2>2, AppendFacts
  <2>4. \A q \in DOMAIN c2s' : c2s'[q] <= Len(sent)
    <3>1. Len(c2s) \in Nat /\ \A q \in 1 .. Len(c2s) : c2s[q] <= Len(sent)
      BY WireFacts
    <3>2. ASSUME NEW q \in 1 .. (Len(c2s) + 1) PROVE c2s'[q] <= Len(sent)
      <4>1. CASE q \in 1 .. Len(c2s)
        BY <2>3, <3>1, <4>1
      <4>2. CASE q = Len(c2s) + 1
        BY <2>2, <2>3, <3>1, <4>2
      <4> QED BY <3>1, <4>1, <4>2
    <3> QED BY <2>3, <3>2
  <2>5. Len(c2s) \in Nat
    BY WireFacts
  <2>6. WireTypeOK'
    <3>5. cut' = cut /\ cut' \subseteq {q \in DOMAIN c2s' : c2s'[q] = 0}
      BY <1>2, <2>1, <2>2, CutFacts DEF RepeatRequest
    <3>1. UNCHANGED <<cAt, sAt, sent, replies, sTaken, sParsed, sDone, cParsed, cDone, s2c>>
      BY <1>2 DEF RepeatRequest, cliVars, srvVars, posVars, sPos, cPos
    <3>2. sTaken' \in 0 .. Len(c2s') /\ sParsed' \in 0 .. sTaken' /\ sDone' \in 0 .. sParsed'
      BY <2>3, <2>5, <3>1 DEF WireTypeOK
    <3>3. \A q \in DOMAIN c2s' : c2s'[q] <= Len(sent')
      BY <2>4, <3>1
    <3>4. /\ s2c' \in Seq(Nat) /\ \A q \in DOMAIN s2c' : s2c'[q] \in DOMAIN replies'
          /\ cParsed' \in 0 .. Len(s2c') /\ cDone' \in 0 .. cParsed'
          /\ (cAt' = "deliver" => cDone' < cParsed') /\ (sAt' = "deliver" => sDone' < sParsed')
      BY <3>1 DEF WireTypeOK
    <3> QED BY <2>3, <3>2, <3>3, <3>4, <3>5 DEF WireTypeOK
  <2> QED BY <1>2, <2>6 DEF RepeatRequest, CliTypeOK, SrvTypeOK, HistTypeOK, cliVars, srvVars
<1>3. CASE RepeatReply
  <2>1. PICK p \in DOMAIN s2c : s2c' = Append(s2c, s2c[p])
    BY <1>3 DEF RepeatReply
  <2>2. s2c \in Seq(Nat) /\ s2c[p] \in DOMAIN replies /\ s2c[p] \in Nat
    <3>1. s2c \in Seq(Nat) /\ s2c[p] \in DOMAIN replies
      BY <2>1 DEF TypeOK, WireTypeOK
    <3>2. s2c[p] \in Nat
      BY <2>1, <3>1, ElementOfSeq
    <3> QED
      BY <3>1, <3>2
  <2>3. /\ s2c' \in Seq(Nat) /\ Len(s2c') = Len(s2c) + 1 /\ DOMAIN s2c' = 1 .. (Len(s2c) + 1)
        /\ \A q \in 1 .. Len(s2c) : s2c'[q] = s2c[q]
        /\ s2c'[Len(s2c) + 1] = s2c[p]
    BY <2>1, <2>2, AppendFacts
  <2>4. \A q \in DOMAIN s2c' : s2c'[q] \in DOMAIN replies
    <3>1. /\ Len(s2c) \in Nat /\ DOMAIN replies = 1 .. Len(replies)
          /\ \A q \in 1 .. Len(s2c) : s2c[q] \in 1 .. Len(replies)
      BY WireFacts
    <3>2. ASSUME NEW q \in 1 .. (Len(s2c) + 1) PROVE s2c'[q] \in 1 .. Len(replies)
      <4>1. CASE q \in 1 .. Len(s2c)
        BY <2>3, <3>1, <4>1
      <4>2. CASE q = Len(s2c) + 1
        BY <2>2, <2>3, <3>1, <4>2
      <4> QED BY <3>1, <4>1, <4>2
    <3> QED BY <2>3, <3>1, <3>2
  <2>5. Len(s2c) \in Nat
    BY WireFacts
  <2>6. WireTypeOK'
    <3>1. UNCHANGED <<cAt, sAt, sent, replies, sTaken, sParsed, sDone, cParsed, cDone, c2s, cut>>
      BY <1>3 DEF RepeatReply, cliVars, srvVars, posVars, sPos, cPos
    <3> QED BY <2>3, <2>4, <2>5, <3>1, SMTT(60) DEF WireTypeOK
  <2> QED BY <1>3, <2>6 DEF RepeatReply, CliTypeOK, SrvTypeOK, HistTypeOK, cliVars, srvVars
<1> QED BY <1>1, <1>2, <1>3

------------------------------------------------------------------------------
(* Exactly-once, in-order, gap-free delivery of requests                      *)

(* The only ways the client's wire and numbers change: the hello, a numbered  *)
(* transmission, one that is refused, a repeat.                               *)
LEMMA WireStep ==
  ASSUME TypeOK, [Next]_vars
  PROVE  \/ UNCHANGED <<c2s, sent, cFid, refused>>
         \/ c2s' = Append(c2s, 0) /\ UNCHANGED <<sent, cFid, refused>>
         \/ (\E frame \in Frames : Transmit(frame)) /\ refused' = refused
         \/ TransmitFails
         \/ (\E p \in DOMAIN c2s : c2s' = Append(c2s, c2s[p])) /\ UNCHANGED <<sent, cFid, refused>>
<1>1. CASE UNCHANGED vars
  BY <1>1 DEF vars, cliVars, envVars
<1>2. CASE \E u \in Callers : CallStep(u)
  BY <1>2 DEF CallStep, SendBegin, SendMake, SendPush, envVars
<1>3. CASE OwnerClose \/ ClientExit \/ ServerLoop \/ Workers \/ Tick \/ RepeatReply
  BY <1>3 DEF OwnerClose, ClientExit, ServerLoop, Workers, WorkerStep, Tick, RepeatReply, cliVars,
     envVars
<1>4. CASE RepeatRequest
  BY <1>4 DEF RepeatRequest, cliVars
<1>5. CASE ClientLoop
  <2>1. CASE ClientHandshake /\ UNCHANGED <<refused, cut>>
    <3>1. [rid |-> cRid', ssid |-> cSsid] \in Frames
      BY <2>1, SuccFacts DEF ClientHandshake, TypeOK, CliTypeOK, Frames
    <3> QED BY <2>1, <3>1 DEF ClientHandshake
  <2>2. CASE ClientCommand
    <3>1. Head(cmds) \in Frames
      BY <2>2, HeadTailProperties DEF ClientCommand, TypeOK, CliTypeOK
    <3> QED BY <2>2, <3>1 DEF ClientCommand
  <2>3. CASE /\ \/ ClientWake \/ ClientDrained \/ ClientRead \/ ClientDeliver
                \/ ClientReject \/ ClientHangup \/ ClientLoopExit
             /\ UNCHANGED <<refused, cut>>
    BY <2>3 DEF ClientWake, ClientDrained, ClientRead, ClientDeliver, ClientReject,
       ClientHangup, ClientLoopExit
  <2> QED BY <1>5, <2>1, <2>2, <2>3 DEF ClientLoop
<1> QED BY <1>1, <1>2, <1>3, <1>4, <1>5 DEF Next

(* What is on the wire stays there: both histories only grow.                 *)
LEMMA WiresGrow ==
  ASSUME TypeOK, [Next]_vars
  PROVE  /\ Len(c2s) <= Len(c2s') /\ \A p \in 1 .. Len(c2s) : c2s'[p] = c2s[p]
         /\ Len(sent) <= Len(sent') /\ \A i \in 1 .. Len(sent) : sent'[i] = sent[i]
<1>1. Len(c2s) \in Nat /\ Len(sent) \in Nat /\ c2s \in Seq(Nat) /\ DOMAIN c2s = 1 .. Len(c2s)
  BY WireFacts DEF TypeOK, WireTypeOK
<1>2. CASE UNCHANGED <<c2s, sent, cFid, refused>>
  BY <1>1, <1>2
<1>3. CASE c2s' = Append(c2s, 0) /\ UNCHANGED <<sent, cFid, refused>>
  BY <1>1, <1>3, AppendFacts
<1>4. CASE \E frame \in Frames : Transmit(frame)
  BY <1>1, <1>4, TransmitFacts
<1>5. CASE (\E p \in DOMAIN c2s : c2s' = Append(c2s, c2s[p])) /\ UNCHANGED <<sent, cFid, refused>>
  <2>1. PICK p \in 1 .. Len(c2s) : c2s' = Append(c2s, c2s[p])
    BY <1>1, <1>5
  <2>2. c2s[p] \in Nat
    BY <2>1, WireFacts
  <2> QED BY <1>1, <1>5, <2>1, <2>2, AppendFacts
<1>6. CASE TransmitFails
  BY <1>1, <1>6, TransmitFailsFacts, AppendFacts, SMTT(40)
<1> QED BY <1>2, <1>3, <1>4, <1>5, <1>6, WireStep

(* The client's numbering of its frames.                                      *)
LEMMA FidStep ==
  ASSUME TypeOK, FidInv, [Next]_vars
  PROVE  FidInv'
<1>1. Len(sent) \in Nat /\ DOMAIN sent = 1 .. Len(sent) /\ refused \in Nat /\ cFid \in U32
      /\ Word \in Nat
  BY WireFacts, WordAssumption DEF TypeOK, CliTypeOK, HistTypeOK
<1>2. CASE UNCHANGED <<sent, cFid, refused>>
  BY <1>2 DEF FidInv
<1>3. CASE (\E frame \in Frames : Transmit(frame)) /\ refused' = refused
  <2>1. /\ cFid' = Succ(cFid)
        /\ Len(sent') = Len(sent) + 1 /\ DOMAIN sent' = 1 .. (Len(sent) + 1)
        /\ \A i \in 1 .. Len(sent) : sent'[i] = sent[i]
        /\ sent'[Len(sent) + 1].fid = cFid'
    BY <1>3, TransmitFacts
  <2>2. (Len(sent) + 1) + refused < Word => cFid' = (Len(sent) + 1) + refused
    BY <1>1, <2>1, SuccFacts DEF FidInv
  <2>3. ASSUME NEW i \in 1 .. (Len(sent) + 1), i + refused < Word
        PROVE  /\ sent'[i].fid \in 1 .. (i + refused)
               /\ \A j \in 1 .. (i - 1) : sent'[j].fid < sent'[i].fid
    <3>1. CASE i \in 1 .. Len(sent)
      <4>1. sent[i].fid \in 1 .. (i + refused) /\ \A j \in 1 .. (i - 1) : sent[j].fid < sent[i].fid
        BY <1>1, <2>3, <3>1 DEF FidInv
      <4>2. \A j \in 1 .. (i - 1) : j \in 1 .. Len(sent)
        BY <1>1, <3>1
      <4> QED BY <2>1, <3>1, <4>1, <4>2
    <3>2. CASE i = Len(sent) + 1
      <4>1. sent'[i].fid = i + refused
        BY <1>1, <2>1, <2>2, <2>3, <3>2
      <4>2. ASSUME NEW j \in 1 .. (i - 1)
            PROVE  sent'[j].fid < sent'[i].fid
        <5>1. j \in 1 .. Len(sent) /\ j + refused < i + refused /\ j + refused < Word
          BY <1>1, <2>3, <3>2
        <5>2. sent[j].fid \in 1 .. (j + refused)
          BY <1>1, <5>1 DEF FidInv
        <5> QED BY <1>1, <2>1, <4>1, <5>1, <5>2
      <4> QED BY <1>1, <4>1, <4>2
    <3> QED BY <1>1, <3>1, <3>2
  <2> QED BY <1>3, <2>1, <2>2, <2>3 DEF FidInv
<1>4. CASE TransmitFails
  <2>1. sent' = sent /\ refused' = refused + 1 /\ cFid' = Succ(cFid)
    BY <1>4, TransmitFailsFacts
  <2>2. Len(sent) + (refused + 1) < Word => cFid' = Len(sent) + (refused + 1)
    BY <1>1, <2>1, SuccFacts DEF FidInv
  <2>3. ASSUME NEW i \in 1 .. Len(sent), i + (refused + 1) < Word
        PROVE  /\ sent[i].fid \in 1 .. (i + (refused + 1))
               /\ \A j \in 1 .. (i - 1) : sent[j].fid < sent[i].fid
    <3>1. i + refused < Word
      BY <1>1, <2>3
    <3>2. sent[i].fid \in 1 .. (i + refused) /\ \A j \in 1 .. (i - 1) : sent[j].fid < sent[i].fid
      BY <1>1, <3>1 DEF FidInv
    <3> QED BY <1>1, <3>2
  <2> QED BY <1>1, <2>1, <2>2, <2>3 DEF FidInv
<1> QED BY <1>2, <1>3, <1>4, WireStep

(* No frame overtakes its predecessor on the wire.                            *)
LEMMA StreamStep ==
  ASSUME TypeOK, StreamInv, [Next]_vars
  PROVE  StreamInv'
<1>1. /\ Len(c2s) \in Nat /\ Len(sent) \in Nat /\ c2s \in Seq(Nat) /\ DOMAIN c2s = 1 .. Len(c2s)
      /\ DOMAIN sent = 1 .. Len(sent)
      /\ \A p \in 1 .. Len(c2s) : c2s[p] \in Nat /\ c2s[p] <= Len(sent)
  BY WireFacts DEF TypeOK, WireTypeOK
<1>2. ASSUME NEW v \in Nat, UNCHANGED sent, c2s' = Append(c2s, v),
             v > 1 => \E q \in 1 .. Len(c2s) : c2s[q] = v - 1
      PROVE  StreamInv'
  <2>1. /\ Len(c2s') = Len(c2s) + 1 /\ DOMAIN c2s' = 1 .. (Len(c2s) + 1)
        /\ \A p \in 1 .. Len(c2s) : c2s'[p] = c2s[p]
        /\ c2s'[Len(c2s) + 1] = v
    BY <1>1, <1>2, AppendFacts
  <2>2. \A i \in DOMAIN sent' : \E q \in DOMAIN c2s' : c2s'[q] = i
    BY <1>1, <1>2, <2>1 DEF StreamInv
  <2>3. ASSUME NEW p \in 1 .. (Len(c2s) + 1), c2s'[p] > 1
        PROVE  \E q \in 1 .. (p - 1) : c2s'[q] = c2s'[p] - 1
    <3>1. CASE p \in 1 .. Len(c2s)
      <4>1. c2s'[p] = c2s[p] /\ c2s[p] > 1
        BY <2>1, <2>3, <3>1
      <4>2. PICK q \in 1 .. (p - 1) : c2s[q] = c2s[p] - 1
        BY <1>1, <3>1, <4>1 DEF StreamInv
      <4>3. q \in 1 .. Len(c2s)
        BY <1>1, <3>1, <4>2
      <4> QED BY <2>1, <4>1, <4>2, <4>3
    <3>2. CASE p = Len(c2s) + 1
      BY <1>1, <1>2, <2>1, <2>3, <3>2
    <3> QED BY <1>1, <3>1, <3>2
  <2> QED BY <2>1, <2>2, <2>3 DEF StreamInv
<1>3. CASE UNCHANGED <<c2s, sent, cFid, refused>>
  BY <1>3 DEF StreamInv
<1>4. CASE c2s' = Append(c2s, 0) /\ UNCHANGED <<sent, cFid, refused>>
  BY <1>2, <1>4
<1>5. CASE \E frame \in Frames : Transmit(frame)
  <2>1. /\ Len(sent') = Len(sent) + 1 /\ DOMAIN sent' = 1 .. (Len(sent) + 1)
        /\ Len(c2s') = Len(c2s) + 1 /\ DOMAIN c2s' = 1 .. (Len(c2s) + 1)
        /\ \A p \in 1 .. Len(c2s) : c2s'[p] = c2s[p]
        /\ c2s'[Len(c2s) + 1] = Len(sent) + 1
    BY <1>5, TransmitFacts
  <2>2. ASSUME NEW i \in 1 .. (Len(sent) + 1)
        PROVE  \E q \in 1 .. (Len(c2s) + 1) : c2s'[q] = i
    <3>1. CASE i \in 1 .. Len(sent)
      <4>1. PICK q \in 1 .. Len(c2s) : c2s[q] = i
        BY <1>1, <3>1 DEF StreamInv
      <4>2. c2s'[q] = i /\ q \in 1 .. (Len(c2s) + 1)
        BY <1>1, <2>1, <4>1
      <4> QED BY <4>2
    <3>2. CASE i = Len(sent) + 1
      <4>1. c2s'[Len(c2s) + 1] = i /\ Len(c2s) + 1 \in 1 .. (Len(c2s) + 1)
        BY <1>1, <2>1, <3>2
      <4> QED BY <4>1
    <3> QED BY <1>1, <3>1, <3>2
  <2>3. ASSUME NEW p \in 1 .. (Len(c2s) + 1), c2s'[p] > 1
        PROVE  \E q \in 1 .. (p - 1) : c2s'[q] = c2s'[p] - 1
    <3>1. CASE p \in 1 .. Len(c2s)
      <4>1. c2s'[p] = c2s[p] /\ c2s[p] > 1
        BY <2>1, <2>3, <3>1
      <4>2. PICK q \in 1 .. (p - 1) : c2s[q] = c2s[p] - 1
        BY <1>1, <3>1, <4>1 DEF StreamInv
      <4>3. q \in 1 .. Len(c2s)
        BY <1>1, <3>1, <4>2
      <4> QED BY <2>1, <4>1, <4>2, <4>3
    <3>2. CASE p = Len(c2s) + 1
      <4>1. Len(sent) \in 1 .. Len(sent)
        BY <1>1, <2>1, <2>3, <3>2
      <4>2. PICK q \in 1 .. Len(c2s) : c2s[q] = Len(sent)
        BY <1>1, <4>1 DEF StreamInv
      <4>3. q \in 1 .. (p - 1) /\ c2s'[q] = c2s'[p] - 1
        BY <1>1, <2>1, <3>2, <4>2
      <4> QED BY <4>3
    <3> QED BY <1>1, <3>1, <3>2
  <2> QED BY <2>1, <2>2, <2>3 DEF StreamInv
<1>6. CASE (\E p \in DOMAIN c2s : c2s' = Append(c2s, c2s[p])) /\ UNCHANGED <<sent, cFid, refused>>
  <2>1. PICK p \in 1 .. Len(c2s) : c2s' = Append(c2s, c2s[p])
    BY <1>1, <1>6
  <2>2. c2s[p] > 1 => \E q \in 1 .. Len(c2s) : c2s[q] = c2s[p] - 1
    <3>1. ASSUME c2s[p] > 1 PROVE \E q \in 1 .. Len(c2s) : c2s[q] = c2s[p] - 1
      <4>1. PICK q \in 1 .. (p - 1) : c2s[q] = c2s[p] - 1
        BY <1>1, <2>1, <3>1 DEF StreamInv
      <4>2. q \in 1 .. Len(c2s)
        BY <1>1, <4>1
      <4> QED BY <4>1, <4>2
    <3> QED BY <3>1
  <2> QED BY <1>1, <1>2, <1>6, <2>1, <2>2
<1>7. CASE TransmitFails
  <2>1. CASE UNCHANGED c2s
    BY <1>7, <2>1, TransmitFailsFacts DEF StreamInv
  <2>2. CASE c2s' = Append(c2s, 0)
    BY <1>2, <1>7, <2>2, TransmitFailsFacts
  <2> QED BY <1>7, <2>1, <2>2, TransmitFailsFacts
<1> QED BY <1>3, <1>4, <1>5, <1>6, <1>7, WireStep

(* The server's batches: positions, and no plain hello among parsed frames.   *)
LEMMA BatchStep ==
  ASSUME TypeOK, BatchInv, [Next]_vars
  PROVE  BatchInv'
<1>1. /\ \A p \in 1 .. Len(c2s) : c2s'[p] = c2s[p]
      /\ Len(c2s) \in Nat /\ sTaken \in 0 .. Len(c2s) /\ sParsed \in 0 .. sTaken
      /\ sDone \in 0 .. sParsed
  BY WiresGrow, WireFacts DEF TypeOK, WireTypeOK
<1>2. CASE UNCHANGED <<sAt, sState, sPos>>
  BY <1>1, <1>2 DEF BatchInv, sPos
<1>3. CASE ServerLoop
  <2>1. c2s' = c2s
    BY <1>3 DEF ServerLoop
  <2>2. CASE ServerHandshake
    BY <2>2 DEF ServerHandshake, BatchInv
  <2>3. CASE ServerHandshakeFails \/ ServerWake \/ ServerSendFails \/ ServerUnknown \/ ServerDrained
    BY <2>3 DEF ServerHandshakeFails, ServerWake, ServerSendFails, ServerUnknown, ServerDrained,
       BatchInv, sPos
  <2>4. CASE ServerReadFails \/ ServerReject
    BY <2>4 DEF ServerReadFails, ServerReject, Reject, BatchInv
  <2>5. CASE ServerHangup \/ ServerClose
    BY <2>5 DEF ServerHangup, ServerClose, BatchInv
  <2>6. CASE ServerSend \/ ServerSendRefused
    BY <2>6 DEF ServerSend, ServerSendRefused, BatchInv, sPos
  <2>7. CASE ServerRead
    <3>1. PICK n \in (sTaken + 1) .. Len(c2s) : \E p \in sParsed .. n :
             (\A q \in (sParsed + 1) .. p : c2s[q] # 0) /\ sParsed' = p
      BY <2>7 DEF ServerRead
    <3>2. \A q \in (sParsed + 1) .. sParsed' : c2s[q] # 0
      BY <3>1
    <3>3. sDone = sParsed /\ sDone' = sDone /\ sState' = "ACTIVE"
      BY <2>7 DEF ServerRead, BatchInv
    <3>4. (sDone < sParsed' /\ sAt' = "deliver") \/ (~(sDone < sParsed') /\ sAt' = "wait")
      BY <2>7 DEF ServerRead
    <3>5. sDone \in Nat /\ sParsed' \in Nat /\ sParsed <= sParsed'
      BY <1>1, <3>1
    <3> QED BY <2>1, <3>2, <3>3, <3>4, <3>5 DEF BatchInv
  <2>8. CASE ServerAccept
    <3>1. sDone' = sDone + 1 /\ sParsed' = sParsed /\ sState' = sState /\ sAt' = After(sDone', sParsed)
      BY <2>8 DEF ServerAccept
    <3>2. sState = "ACTIVE" /\ \A p \in (sDone + 1) .. sParsed : c2s[p] # 0
      BY <2>8 DEF ServerAccept, BatchInv
    <3> QED BY <1>1, <2>1, <3>1, <3>2 DEF BatchInv, After
  <2> QED BY <1>3, <2>2, <2>3, <2>4, <2>5, <2>6, <2>7, <2>8 DEF ServerLoop
<1>4. CASE UNCHANGED vars
  BY <1>2, <1>4 DEF vars, srvVars, posVars
<1>5. CASE \E u \in Callers : CallStep(u)
  BY <1>2, <1>5 DEF CallStep, srvVars, posVars
<1>6. CASE OwnerClose \/ ClientLoop \/ ClientExit \/ Tick \/ RepeatRequest \/ RepeatReply
  BY <1>2, <1>6 DEF OwnerClose, ClientLoop, ClientExit, Tick, RepeatRequest, RepeatReply,
     srvVars, posVars
<1>7. CASE Workers
  BY <1>2, <1>7 DEF Workers, WorkerStep, posVars
<1> QED BY <1>3, <1>4, <1>5, <1>6, <1>7 DEF Next

(* The heart of the argument: a frame that passes _validateFrame is the next   *)
(* of those on the wire after the last one that did.                          *)
LEMMA AcceptsSuccessor ==
  ASSUME TypeOK, DeliveryInv, ServerAccept
  PROVE  /\ sDone + 1 \in 1 .. Len(c2s)
         /\ c2s[sDone + 1] = Len(accepted) + 1
         /\ Len(accepted) + 1 <= Len(sent)
         /\ sent[Len(accepted) + 1].fid > lastCliFid
<1> DEFINE i == c2s[sDone + 1]
           g == Len(accepted)
<1>1. /\ sDone + 1 \in 1 .. Len(c2s) /\ sDone + 1 \in (sDone + 1) .. sParsed
      /\ sDone \in Nat /\ sDone <= Len(c2s) /\ Len(c2s) \in Nat
      /\ DOMAIN c2s = 1 .. Len(c2s) /\ DOMAIN sent = 1 .. Len(sent)
      /\ g \in Nat /\ Len(sent) \in Nat
  <2>1. /\ Len(c2s) \in Nat /\ DOMAIN c2s = 1 .. Len(c2s) /\ DOMAIN sent = 1 .. Len(sent)
        /\ g \in Nat /\ Len(sent) \in Nat
    BY WireFacts
  <2>2. sTaken \in 0 .. Len(c2s) /\ sParsed \in 0 .. sTaken /\ sDone \in 0 .. sParsed /\ sDone < sParsed
    BY DEF ServerAccept, TypeOK, WireTypeOK
  <2> QED BY <2>1, <2>2
<1>2. i \in Nat /\ i <= Len(sent) /\ i # 0
  BY <1>1, WireFacts DEF ServerAccept, DeliveryInv, BatchInv
<1>3. i \notin 1 .. g
  <2>1. sent[i].fid > lastCliFid
    BY DEF ServerAccept, RequestValid
  <2>2. ASSUME i \in 1 .. g
        PROVE  FALSE
    <3>1. accepted[i] = sent[i] /\ accepted[i].fid <= lastCliFid /\ accepted[i] \in SentFrames
      BY <2>2, WireFacts DEF DeliveryInv, AcceptInv
    <3>2. accepted[i].fid \in Nat /\ lastCliFid \in Nat
      BY <3>1, WordAssumption DEF SentFrames, U32, TypeOK, SrvTypeOK
    <3> QED BY <2>1, <3>1, <3>2
  <2> QED BY <2>2
<1>4. i <= g + 1
  <2>1. CASE i > 1
    <3>1. PICK q \in 1 .. sDone : c2s[q] = i - 1
      <4>1. PICK q \in 1 .. (sDone + 1 - 1) : c2s[q] = i - 1
        BY <1>1, <2>1 DEF DeliveryInv, StreamInv
      <4>2. q \in 1 .. sDone
        BY <1>1, <4>1
      <4> QED BY <4>1, <4>2
    <3>2. c2s[q] <= g
      BY <3>1 DEF DeliveryInv, AcceptInv
    <3> QED BY <1>1, <1>2, <3>1, <3>2
  <2>2. CASE i <= 1
    BY <1>1, <1>2, <2>2
  <2> QED BY <1>2, <2>1, <2>2
<1>5. i = g + 1
  BY <1>1, <1>2, <1>3, <1>4
<1> QED BY <1>1, <1>2, <1>5 DEF ServerAccept, RequestValid

(* What is accepted is a prefix of what was sent.                             *)
LEMMA AcceptStep ==
  ASSUME TypeOK, DeliveryInv, [Next]_vars
  PROVE  AcceptInv'
<1>1. /\ \A p \in 1 .. Len(c2s) : c2s'[p] = c2s[p]
      /\ Len(sent) <= Len(sent') /\ \A i \in 1 .. Len(sent) : sent'[i] = sent[i]
      /\ Len(c2s) \in Nat /\ Len(sent) \in Nat /\ Len(accepted) \in Nat
      /\ sDone \in Nat /\ sDone <= Len(c2s)
      /\ DOMAIN accepted = 1 .. Len(accepted)
      /\ accepted \in Seq(SentFrames)
  <2>1. /\ \A p \in 1 .. Len(c2s) : c2s'[p] = c2s[p]
        /\ Len(sent) <= Len(sent') /\ \A i \in 1 .. Len(sent) : sent'[i] = sent[i]
    BY WiresGrow
  <2>2. /\ Len(c2s) \in Nat /\ Len(sent) \in Nat /\ Len(accepted) \in Nat
        /\ DOMAIN accepted = 1 .. Len(accepted)
    BY WireFacts
  <2>3. sTaken \in 0 .. Len(c2s) /\ sParsed \in 0 .. sTaken /\ sDone \in 0 .. sParsed
    BY DEF TypeOK, WireTypeOK
  <2>4. sDone \in Nat /\ sDone <= Len(c2s)
    BY <2>2, <2>3
  <2>5. accepted \in Seq(SentFrames)
    BY DEF TypeOK, HistTypeOK
  <2> QED BY <2>1, <2>2, <2>4, <2>5
<1>2. AcceptInv
  BY DEF DeliveryInv
<1>3. Len(sent') \in Nat
  <2>1. CASE UNCHANGED sent
    BY <1>1, <2>1
  <2>2. CASE \E frame \in Frames : Transmit(frame)
    BY <1>1, <2>2, TransmitFacts
  <2>3. CASE TransmitFails
    BY <1>1, <2>3, TransmitFailsFacts
  <2> QED BY <2>1, <2>2, <2>3, WireStep
<1>4. CASE UNCHANGED <<sDone, accepted, lastCliFid>>
  <2>1. \A p \in 1 .. sDone : c2s'[p] = c2s[p] /\ c2s[p] <= Len(accepted)
    BY <1>1, <1>2 DEF AcceptInv
  <2>2. \A i \in 1 .. Len(accepted) : accepted[i] = sent[i] /\ i \in 1 .. Len(sent)
    BY <1>1, <1>2 DEF AcceptInv
  <2>3. \A i \in 1 .. Len(accepted) : accepted[i] = sent'[i]
    BY <1>1, <2>2
  <2>4. Len(accepted) <= Len(sent')
    BY <1>1, <1>2, <1>3 DEF AcceptInv
  <2> QED BY <1>1, <1>2, <1>4, <2>1, <2>3, <2>4 DEF AcceptInv
<1>5. CASE ServerLoop
  <2>1. UNCHANGED <<c2s, sent>>
    BY <1>5 DEF ServerLoop
  <2>2. CASE ServerHandshake
    <3>1. sDone' = 1 /\ c2s[1] = 0 /\ UNCHANGED <<accepted, lastCliFid>>
      BY <2>2 DEF ServerHandshake
    <3> QED BY <1>1, <1>2, <2>1, <3>1 DEF AcceptInv
  <2>3. CASE ServerAccept
    <3> DEFINE g == Len(accepted)
               f == sent[c2s[sDone + 1]]
    <3>1. /\ sDone + 1 \in 1 .. Len(c2s) /\ c2s[sDone + 1] = g + 1 /\ g + 1 <= Len(sent)
          /\ f = sent[g + 1] /\ f.fid > lastCliFid
      BY <2>3, AcceptsSuccessor
    <3>2. f \in SentFrames
      BY <1>1, <3>1, WireFacts
    <3>3. accepted' = Append(accepted, f) /\ lastCliFid' = f.fid /\ sDone' = sDone + 1
      BY <2>3 DEF ServerAccept
    <3> HIDE DEF f
    <3>4. /\ Len(accepted') = g + 1 /\ DOMAIN accepted' = 1 .. (g + 1)
          /\ \A i \in 1 .. g : accepted'[i] = accepted[i]
          /\ accepted'[g + 1] = f
      BY <1>1, <3>2, <3>3, AppendFacts
    <3>5. ASSUME NEW p \in 1 .. (sDone + 1) PROVE c2s[p] <= g + 1
      <4>1. CASE p \in 1 .. sDone
        <5>1. c2s[p] <= g /\ c2s[p] \in Nat
          BY <1>1, <1>2, <4>1, WireFacts DEF AcceptInv
        <5> QED BY <1>1, <5>1
      <4>2. CASE p = sDone + 1
        BY <1>1, <3>1, <4>2
      <4> QED BY <1>1, <4>1, <4>2
    <3>6. ASSUME NEW i \in 1 .. (g + 1) PROVE accepted'[i] = sent[i]
      <4>1. CASE i \in 1 .. g
        BY <1>1, <1>2, <3>4, <4>1 DEF AcceptInv
      <4>2. CASE i = g + 1
        BY <3>1, <3>4, <4>2
      <4> QED BY <1>1, <4>1, <4>2
    <3>7. /\ f.fid \in Nat /\ lastCliFid \in Nat
          /\ \A i \in 1 .. g : accepted[i].fid \in Nat /\ accepted[i].fid <= lastCliFid
      <4>1. U32 \subseteq Nat /\ f.fid \in U32 /\ lastCliFid \in U32
        BY <3>2, WordAssumption DEF SentFrames, U32, TypeOK, SrvTypeOK
      <4>2. \A i \in 1 .. g : accepted[i].fid \in U32
        BY WireFacts DEF SentFrames
      <4>3. \A i \in 1 .. g : accepted[i].fid <= lastCliFid
        BY <1>1, <1>2 DEF AcceptInv
      <4> QED BY <4>1, <4>2, <4>3
    <3>8. \A i \in 1 .. g : accepted[i].fid < f.fid
      BY <3>1, <3>7
    <3>9. \A i \in 1 .. (g + 1) : i \in 1 .. g \/ i = g + 1
      BY <1>1
    <3>10. \A i \in 1 .. (g + 1) : accepted'[i].fid <= f.fid
      BY <3>4, <3>7, <3>8, <3>9
    <3>11. ASSUME NEW i \in 1 .. (g + 1), NEW j \in 1 .. (g + 1), i < j
           PROVE  accepted'[i].fid < accepted'[j].fid
      <4>1. i \in 1 .. g
        BY <1>1, <3>11
      <4>2. CASE j \in 1 .. g
        BY <1>1, <1>2, <3>4, <3>11, <4>1, <4>2 DEF AcceptInv
      <4>3. CASE j = g + 1
        BY <3>4, <3>8, <4>1, <4>3
      <4> QED BY <3>9, <4>2, <4>3
    <3>12. g + 1 \in 1 .. (g + 1) /\ accepted'[g + 1].fid = f.fid
      BY <1>1, <3>4
    <3> QED BY <2>1, <3>1, <3>3, <3>4, <3>5, <3>6, <3>10, <3>11, <3>12 DEF AcceptInv
  <2>4. CASE \/ ServerHandshakeFails \/ ServerRead \/ ServerReadFails \/ ServerReject
             \/ ServerHangup \/ ServerWake \/ ServerSend \/ ServerSendRefused \/ ServerSendFails \/ ServerClose
             \/ ServerUnknown \/ ServerDrained
    <3>1. UNCHANGED <<sDone, accepted, lastCliFid>>
      BY <2>4 DEF ServerHandshakeFails, ServerRead, ServerReadFails, ServerReject, ServerHangup,
         ServerWake, ServerSend, ServerSendRefused, ServerSendFails, ServerClose, ServerUnknown, ServerDrained, sPos
    <3> QED BY <1>4, <3>1
  <2> QED BY <1>5, <2>2, <2>3, <2>4 DEF ServerLoop
<1>6. CASE UNCHANGED vars
  BY <1>4, <1>6 DEF vars, srvVars, posVars, sPos
<1>7. CASE \E u \in Callers : CallStep(u)
  BY <1>4, <1>7 DEF CallStep, srvVars, posVars, sPos
<1>8. CASE OwnerClose \/ ClientLoop \/ ClientExit \/ Tick \/ RepeatRequest \/ RepeatReply
  BY <1>4, <1>8 DEF OwnerClose, ClientLoop, ClientExit, Tick, RepeatRequest, RepeatReply,
     srvVars, posVars, sPos
<1>9. CASE Workers
  BY <1>4, <1>9 DEF Workers, WorkerStep, posVars, sPos
<1> QED BY <1>5, <1>6, <1>7, <1>8, <1>9 DEF Next

------------------------------------------------------------------------------
(* The theorems                                                               *)

(* The types and DeliveryInv form an inductive invariant.                     *)
LEMMA InvStep ==
  ASSUME TypeOK, DeliveryInv, [Next]_vars
  PROVE  TypeOK' /\ DeliveryInv'
<1>1. TypeOK'
  <2>1. CASE UNCHANGED vars
    BY <2>1 DEF vars, cliVars, srvVars, posVars, sPos, cPos, envVars,
       TypeOK, CliTypeOK, SrvTypeOK, HistTypeOK, WireTypeOK
  <2>2. CASE \E u \in Callers : CallStep(u)
    BY <2>2, CallType
  <2>3. CASE ClientLoop
    BY <2>3, ClientType
  <2>4. CASE ServerLoop
    BY <2>4, ServerType DEF DeliveryInv
  <2>5. CASE Workers
    BY <2>5, WorkerType DEF Workers
  <2>6. CASE OwnerClose \/ ClientExit \/ Tick \/ RepeatRequest \/ RepeatReply
    BY <2>6, RestType
  <2> QED BY <2>1, <2>2, <2>3, <2>4, <2>5, <2>6 DEF Next
<1>2. FidInv' /\ StreamInv' /\ BatchInv'
  BY FidStep, StreamStep, BatchStep DEF DeliveryInv
<1>3. AcceptInv'
  BY AcceptStep
<1> QED BY <1>1, <1>2, <1>3 DEF DeliveryInv

(* It holds initially.                                                        *)
LEMMA InvInit == Init => TypeOK /\ DeliveryInv
<1> SUFFICES ASSUME Init PROVE DeliveryInv
  BY TypeInit
<1>1. FidInv /\ StreamInv
  BY WordAssumption DEF Init, FidInv, StreamInv
<1>2. BatchInv /\ AcceptInv
  BY DEF Init, BatchInv, AcceptInv
<1> QED BY <1>1, <1>2 DEF DeliveryInv

(* Type correctness: every field, queue and history of a session keeps its     *)
(* type, and the positions of the two epoll threads in the streams stay in     *)
(* order, whatever the interleaving of callers, threads, network and closes.   *)
THEOREM TypeCorrect == Spec => []TypeOK
<1>1. TypeOK /\ DeliveryInv /\ [Next]_vars => (TypeOK /\ DeliveryInv)'
  BY InvStep
<1> QED BY <1>1, InvInit, PTL DEF Spec

(* What the server has accepted is a gap-free prefix of what the client's      *)
(* socket took, numbered in increasing order, and nothing handled by _validate-*)
(* Frame is beyond it.                                                        *)
THEOREM DeliveryInvariant == Spec => []DeliveryInv
<1>1. TypeOK /\ DeliveryInv /\ [Next]_vars => (TypeOK /\ DeliveryInv)'
  BY InvStep
<1> QED BY <1>1, InvInit, PTL DEF Spec

(* Every step of a session maps to a step of the abstract Delivery, or to a    *)
(* stutter: a transmission submits, an acceptance receives the next frame.    *)
LEMMA DeliveryStep ==
  ASSUME TypeOK, DeliveryInv, [Next]_vars
  PROVE  [Requests!Next]_(Requests!vars)
<1>1. CASE UNCHANGED <<sent, accepted>>
  BY <1>1 DEF Requests!vars
<1>2. CASE ClientLoop
  <2>1. accepted' = accepted
    BY <1>2 DEF ClientLoop
  <2>2. CASE \E frame \in Frames : Transmit(frame)
    <3>1. sent' = Append(sent, sent'[Len(sent) + 1]) /\ sent'[Len(sent) + 1] \in SentFrames
      BY <2>2, TransmitFacts
    <3> QED BY <2>1, <3>1 DEF Requests!Next, Requests!Submit
  <2>3. CASE UNCHANGED sent
    BY <1>1, <2>1, <2>3
  <2>4. CASE TransmitFails
    BY <2>3, <2>4, TransmitFailsFacts
  <2> QED BY <2>2, <2>3, <2>4, WireStep
<1>3. CASE ServerLoop
  <2>1. sent' = sent
    BY <1>3 DEF ServerLoop
  <2>2. CASE ServerAccept
    <3>1. c2s[sDone + 1] = Len(accepted) + 1 /\ Len(accepted) + 1 <= Len(sent)
      BY <2>2, AcceptsSuccessor
    <3>2. accepted' = Append(accepted, sent[Len(accepted) + 1])
      BY <2>2, <3>1 DEF ServerAccept
    <3>3. Len(accepted) < Len(sent)
      BY <3>1, WireFacts
    <3> QED BY <2>1, <3>2, <3>3 DEF Requests!Next, Requests!Receive
  <2>3. CASE \/ ServerHandshake \/ ServerHandshakeFails \/ ServerRead \/ ServerReadFails
             \/ ServerReject \/ ServerHangup \/ ServerWake \/ ServerSend \/ ServerSendRefused \/ ServerSendFails
             \/ ServerClose \/ ServerUnknown \/ ServerDrained
    <3>1. accepted' = accepted
      BY <2>3 DEF ServerHandshake, ServerHandshakeFails, ServerRead, ServerReadFails,
         ServerReject, ServerHangup, ServerWake, ServerSend, ServerSendRefused, ServerSendFails,
         ServerClose, ServerUnknown, ServerDrained
    <3> QED BY <1>1, <2>1, <3>1
  <2> QED BY <1>3, <2>2, <2>3 DEF ServerLoop
<1>4. CASE UNCHANGED vars
  BY <1>1, <1>4 DEF vars
<1>5. CASE \E u \in Callers : CallStep(u)
  BY <1>1, <1>5 DEF CallStep
<1>6. CASE OwnerClose \/ ClientExit \/ Tick \/ RepeatRequest \/ RepeatReply
  BY <1>1, <1>6 DEF OwnerClose, ClientExit, Tick, RepeatRequest, RepeatReply
<1>7. CASE Workers
  BY <1>1, <1>7 DEF Workers, WorkerStep
<1> QED BY <1>2, <1>3, <1>4, <1>5, <1>6, <1>7 DEF Next

(* The session implements Delivery: requests reach the handlers in the order   *)
(* they were sent, without a gap and at most once, for every number of         *)
(* callers, repeats and requests, and through a wrap of the frame counter.     *)
THEOREM DeliversRequests == Spec => RequestsDelivered
<1>1. Init => Requests!Init
  BY DEF Init, Requests!Init
<1>2. TypeOK /\ DeliveryInv /\ [Next]_vars => [Requests!Next]_(Requests!vars)
  BY DeliveryStep
<1>3. TypeOK /\ DeliveryInv /\ [Next]_vars => (TypeOK /\ DeliveryInv)'
  BY InvStep
<1> QED BY <1>1, <1>2, <1>3, InvInit, PTL DEF Spec, RequestsDelivered, Requests!Spec

(* Once the server has closed its end nothing leaves it and the connection     *)
(* stays closed, whatever commands still arrive for it.                        *)
THEOREM SilentClose == Spec => SilentOnceClosed
<1>1. ASSUME TypeOK, BatchInv, sState = "CLOSED", [Next]_vars
      PROVE  UNCHANGED <<replies, sState>>
  <2>1. CASE ServerLoop
    <3>1. sAt # "deliver"
      BY <1>1 DEF BatchInv
    <3>2. ~ServerHandshake /\ ~ServerReadFails /\ ~ServerReject /\ ~ServerAccept
      BY <1>1, <3>1 DEF ServerHandshake, ServerReadFails, ServerReject, ServerAccept
    <3>3. CASE \/ ServerHandshakeFails \/ ServerRead \/ ServerHangup \/ ServerWake
               \/ ServerSendFails \/ ServerClose \/ ServerUnknown \/ ServerDrained
      BY <1>1, <3>3 DEF ServerHandshakeFails, ServerRead, ServerHangup, ServerWake,
         ServerSendFails, ServerClose, ServerUnknown, ServerDrained
    <3>4. CASE ServerSend \/ ServerSendRefused
      BY <1>1, <3>4 DEF ServerSend, ServerSendRefused
    <3> QED BY <2>1, <3>2, <3>3, <3>4 DEF ServerLoop
  <2>2. CASE UNCHANGED vars
    BY <2>2 DEF vars, srvVars
  <2>3. CASE \E u \in Callers : CallStep(u)
    BY <2>3 DEF CallStep, srvVars
  <2>4. CASE OwnerClose \/ ClientLoop \/ ClientExit \/ Tick \/ RepeatRequest \/ RepeatReply
    BY <2>4 DEF OwnerClose, ClientLoop, ClientExit, Tick, RepeatRequest, RepeatReply, srvVars
  <2>5. CASE Workers
    BY <2>5 DEF Workers, WorkerStep
  <2> QED BY <1>1, <2>1, <2>2, <2>3, <2>4, <2>5 DEF Next
<1>2. TypeOK /\ DeliveryInv /\ [Next]_vars
        => [sState = "CLOSED" => UNCHANGED <<replies, sState>>]_vars
  BY <1>1 DEF DeliveryInv
<1>3. TypeOK /\ DeliveryInv /\ [Next]_vars => (TypeOK /\ DeliveryInv)'
  BY InvStep
<1> QED BY <1>2, <1>3, InvInit, PTL DEF Spec, SilentOnceClosed

------------------------------------------------------------------------------
(* Why the server rejects a frame                                             *)

(* Refusals are counted, and a whole frame on the wire stays whole.           *)
LEMMA LossGrows ==
  ASSUME TypeOK, [Next]_vars
  PROVE  /\ refused \in Nat /\ refused' \in Nat /\ refused <= refused'
         /\ \A p \in 1 .. Len(c2s) : p \in cut' <=> p \in cut
<1>1. refused \in Nat /\ Len(c2s) \in Nat /\ c2s \in Seq(Nat)
  BY WireFacts DEF TypeOK, HistTypeOK, WireTypeOK
<1>2. CASE UNCHANGED <<refused, cut>>
  BY <1>1, <1>2
<1>3. CASE TransmitFails
  <2>1. /\ refused' = refused + 1
        /\ UNCHANGED <<c2s, cut>> \/ (c2s' = Append(c2s, 0) /\ cut' = cut \cup {Len(c2s')})
    BY <1>3, TransmitFailsFacts
  <2>2. c2s' = Append(c2s, 0) => Len(c2s') = Len(c2s) + 1
    BY <1>1
  <2> QED
    BY <1>1, <2>1, <2>2
<1>4. CASE ClientLoop
  <2>1. CASE ClientCommand
    BY <1>2, <1>3, <2>1 DEF ClientCommand
  <2> QED
    BY <1>2, <1>4, <2>1 DEF ClientLoop
<1>5. CASE ~ClientLoop
  <2>1. UNCHANGED <<refused, cut>>
    BY <1>5 DEF Next, vars, envVars, CallStep, OwnerClose, ClientExit, ServerLoop, Workers,
       WorkerStep, Tick, RepeatRequest, RepeatReply
  <2> QED
    BY <1>2, <2>1
<1> QED
  BY <1>4, <1>5

(* Positions and lengths, as the steps below use them.                        *)
LEMMA Grown ==
  ASSUME TypeOK, DeliveryInv, [Next]_vars
  PROVE  /\ TypeOK' /\ DeliveryInv'
         /\ Len(c2s) \in Nat /\ Len(c2s') \in Nat /\ Len(c2s) <= Len(c2s')
         /\ \A p \in 1 .. Len(c2s) : c2s'[p] = c2s[p] /\ c2s[p] \in Nat /\ c2s[p] <= Len(sent)
         /\ Len(sent) \in Nat /\ \A i \in 1 .. Len(sent) : sent'[i] = sent[i]
         /\ Len(accepted) \in Nat /\ DOMAIN accepted = 1 .. Len(accepted)
         /\ sDone \in Nat /\ sParsed \in Nat /\ sDone <= sParsed /\ sParsed <= Len(c2s)
         /\ badPos \in Nat
         /\ refused \in Nat /\ refused' \in Nat /\ refused <= refused' /\ Word \in Nat
         /\ \A p \in 1 .. Len(c2s) : p \in cut' <=> p \in cut
<1>1. TypeOK' /\ DeliveryInv'
  BY InvStep
<1>2. Len(c2s') \in Nat
  BY <1>1 DEF TypeOK, WireTypeOK
<1>3. /\ Len(c2s) \in Nat /\ Len(sent) \in Nat
      /\ \A p \in 1 .. Len(c2s) : c2s[p] \in Nat /\ c2s[p] <= Len(sent)
      /\ Len(accepted) \in Nat /\ DOMAIN accepted = 1 .. Len(accepted)
  BY WireFacts
<1>4. sTaken \in 0 .. Len(c2s) /\ sParsed \in 0 .. sTaken /\ sDone \in 0 .. sParsed /\ badPos \in Nat
  BY DEF TypeOK, WireTypeOK, HistTypeOK
<1> QED
  BY <1>1, <1>2, <1>3, <1>4, WiresGrow, LossGrows, WordAssumption

(* Steps that accept and reject nothing keep the causes told so far.          *)
LEMMA CauseStays ==
  ASSUME TypeOK, DeliveryInv, CauseInv, RejectionCause, [Next]_vars,
         accepted' = accepted, badPos' = badPos, sSsid' = sSsid, sDone' = sDone,
         sState' \in {"ACTIVE", "HANDSHAKE"} => sState' = sState
  PROVE  CauseInv' /\ RejectionCause'
<1>1. /\ Len(c2s) \in Nat /\ Len(c2s') \in Nat /\ Len(c2s) <= Len(c2s')
      /\ \A p \in 1 .. Len(c2s) : c2s'[p] = c2s[p] /\ c2s[p] \in Nat /\ c2s[p] <= Len(sent)
      /\ Len(sent) \in Nat /\ \A i \in 1 .. Len(sent) : sent'[i] = sent[i]
      /\ sDone \in Nat /\ sDone <= Len(c2s) /\ badPos \in Nat /\ badPos <= Len(c2s)
      /\ refused \in Nat /\ refused' \in Nat /\ refused <= refused' /\ Word \in Nat
      /\ \A p \in 1 .. Len(c2s) : p \in cut' <=> p \in cut
  BY Grown DEF CauseInv
<1>2. CauseInv'
  <2>1. ASSUME sState' = "ACTIVE"
        PROVE  c2s' # <<>> /\ c2s'[1] = 0 /\ sDone' >= 1 /\ sSsid' = SessionId
    <3>1. c2s # <<>> /\ c2s[1] = 0 /\ sDone >= 1 /\ sSsid = SessionId
      BY <2>1 DEF CauseInv
    <3>2. 1 \in 1 .. Len(c2s)
      BY <1>1, <3>1
    <3>3. Len(c2s') > 0 /\ c2s'[1] = 0
      BY <1>1, <3>1, <3>2
    <3> QED
      BY <3>1, <3>3
  <2>2. ASSUME NEW i \in DOMAIN accepted
        PROVE  \E q \in 1 .. sDone : c2s'[q] = i
    <3>1. PICK q \in 1 .. sDone : c2s[q] = i
      BY DEF CauseInv
    <3>2. q \in 1 .. Len(c2s)
      BY <1>1
    <3> QED
      BY <1>1, <3>1, <3>2
  <2>3. badPos' <= Len(c2s')
    BY <1>1
  <2>4. sState' = "HANDSHAKE" => accepted' = <<>>
    BY DEF CauseInv
  <2> QED
    BY <2>1, <2>2, <2>3, <2>4 DEF CauseInv
<1>3. RejectionCause'
  <2>1. ASSUME badPos # 0
        PROVE  \/ badPos \in cut'
               \/ badPos \notin cut' /\ \E q \in 1 .. (badPos - 1) : c2s'[q] = c2s'[badPos]
               \/ c2s'[badPos] # 0 /\ sent'[c2s'[badPos]].ssid = 0
               \/ c2s'[badPos] # 0 /\ c2s'[badPos] + refused' >= Word
    <3>1. badPos \in 1 .. Len(c2s)
      BY <1>1, <2>1
    <3>2. c2s'[badPos] = c2s[badPos] /\ (c2s[badPos] # 0 => sent'[c2s[badPos]] = sent[c2s[badPos]])
      <4>1. c2s'[badPos] = c2s[badPos] /\ c2s[badPos] \in Nat /\ c2s[badPos] <= Len(sent)
        BY <1>1, <3>1
      <4>2. c2s[badPos] # 0 => c2s[badPos] \in 1 .. Len(sent)
        BY <1>1, <4>1
      <4> QED
        BY <1>1, <4>1, <4>2
    <3>3. ASSUME NEW q \in 1 .. (badPos - 1), c2s[q] = c2s[badPos]
          PROVE  c2s'[q] = c2s'[badPos]
      <4>1. q \in 1 .. Len(c2s)
        BY <1>1, <3>1
      <4> QED
        BY <1>1, <3>2, <3>3, <4>1
    <3>4. c2s[badPos] + refused >= Word => c2s[badPos] + refused' >= Word
      BY <1>1, <3>1
    <3>5. badPos \in cut' <=> badPos \in cut
      BY <1>1, <3>1
    <3> QED
      BY <2>1, <3>2, <3>3, <3>4, <3>5 DEF RejectionCause
  <2> QED
    BY <2>1 DEF RejectionCause
<1> QED
  BY <1>2, <1>3

(* _validateFrame: what it rejects came twice, came before the session id, or  *)
(* is past the wrap; what does not decrypt is a second hello, or was cut short.*)
LEMMA RejectStep ==
  ASSUME TypeOK, DeliveryInv, CauseInv, ServerLoop, ServerReject \/ ServerReadFails
  PROVE  /\ badPos' \in 1 .. Len(c2s)
         /\ \/ badPos' \in cut
            \/ badPos' \notin cut /\ \E q \in 1 .. (badPos' - 1) : c2s[q] = c2s[badPos']
            \/ c2s[badPos'] # 0 /\ sent[c2s[badPos']].ssid = 0
            \/ c2s[badPos'] # 0 /\ c2s[badPos'] + refused >= Word
<1>1. /\ Len(c2s) \in Nat /\ Len(sent) \in Nat /\ Len(accepted) \in Nat
      /\ \A p \in 1 .. Len(c2s) : c2s[p] \in Nat /\ c2s[p] <= Len(sent)
      /\ DOMAIN sent = 1 .. Len(sent) /\ DOMAIN accepted = 1 .. Len(accepted)
      /\ \A i \in 1 .. Len(sent) : sent[i] \in SentFrames
  BY WireFacts
<1>2. /\ sTaken \in Nat /\ sTaken <= Len(c2s) /\ sParsed \in Nat /\ sParsed <= sTaken
      /\ sDone \in Nat /\ sDone <= sParsed
  BY <1>1 DEF TypeOK, WireTypeOK
<1>3. CASE ServerReadFails
  <2>0. PICK n \in (sTaken + 1) .. Len(c2s) :
           \E p \in (sParsed + 1) .. n : c2s[p] = 0 /\ badPos' = p
    BY <1>3 DEF ServerReadFails, Unreadable, Reject
  <2>1. PICK p \in (sParsed + 1) .. n : c2s[p] = 0 /\ badPos' = p
    BY <2>0
  <2>2. c2s[1] = 0 /\ sDone >= 1
    BY <1>3 DEF ServerReadFails, CauseInv
  <2>3. p \in 1 .. Len(c2s) /\ 1 \in 1 .. (p - 1)
    BY <1>1, <1>2, <2>1, <2>2
  <2> QED
    BY <2>1, <2>2, <2>3
<1>4. CASE ServerReject
  <2> DEFINE p == sDone + 1
             i == c2s[p]
  <2>1. badPos' = p /\ ~RequestValid(sent[i]) /\ sAt = "deliver"
    BY <1>4 DEF ServerReject, Reject
  <2>2. sDone < sParsed
    BY <2>1 DEF TypeOK, WireTypeOK
  <2>3. p \in 1 .. Len(c2s) /\ p \in (sDone + 1) .. sParsed
    BY <1>1, <1>2, <2>2
  <2>4. sState = "ACTIVE" /\ i # 0
    BY <2>1, <2>3 DEF DeliveryInv, BatchInv
  <2>5. sSsid = SessionId
    BY <2>4 DEF CauseInv
  <2>6. i \in 1 .. Len(sent)
    <3>1. i \in Nat /\ i <= Len(sent)
      BY <1>1, <2>3
    <3> HIDE DEF i
    <3> QED
      BY <1>1, <2>4, <3>1
  <2>7. sent[i].ssid \in Ssids /\ sent[i].fid \in U32
    BY <1>1, <2>6 DEF SentFrames
  <2>8. p \notin cut /\ refused \in Nat /\ Word \in Nat
    BY <2>4, WordAssumption DEF TypeOK, WireTypeOK, HistTypeOK
  <2>9. CASE sent[i].ssid # sSsid
    <3>1. sent[i].ssid = 0
      BY <2>5, <2>7, <2>9 DEF Ssids
    <3> QED
      BY <2>1, <2>3, <2>4, <3>1
  <2>10. CASE sent[i].ssid = sSsid /\ i + refused < Word
    <3>1. sent[i].fid >= 1 /\ \A j \in 1 .. (i - 1) : sent[j].fid < sent[i].fid
      <4>1. sent[i].fid \in 1 .. (i + refused) /\ \A j \in 1 .. (i - 1) : sent[j].fid < sent[i].fid
        BY <1>1, <2>6, <2>10 DEF DeliveryInv, FidInv
      <4> HIDE DEF i
      <4> QED
        BY <4>1
    <3>2. sent[i].fid <= lastCliFid /\ lastCliFid \in Nat /\ sent[i].fid \in Nat
      <4>1. ~(sent[i].fid > lastCliFid)
        BY <2>1, <2>10 DEF RequestValid
      <4>2. lastCliFid \in U32 /\ U32 \subseteq Nat
        BY WordAssumption DEF TypeOK, SrvTypeOK, U32
      <4>3. sent[i].fid \in Nat /\ lastCliFid \in Nat
        BY <2>7, <4>2
      <4>4. \A a, b \in Nat : ~(a > b) => a <= b
        OBVIOUS
      <4> HIDE DEF i
      <4> QED
        BY <4>1, <4>3, <4>4
    <3>3. PICK k \in 1 .. Len(accepted) : accepted[k].fid = lastCliFid
      <4>1. lastCliFid = 0 \/ \E k \in 1 .. Len(accepted) : accepted[k].fid = lastCliFid
        BY <1>1 DEF DeliveryInv, AcceptInv
      <4> HIDE DEF i
      <4> QED
        BY <3>1, <3>2, <4>1
    <3>4. sent[k].fid = lastCliFid /\ k \in Nat
      BY <1>1, <3>3 DEF DeliveryInv, AcceptInv
    <3>5. ~(i > Len(accepted))
      <4>1. ASSUME i > Len(accepted)
            PROVE  FALSE
        <5>1. k \in 1 .. (i - 1)
          BY <1>1, <2>6, <3>3, <4>1
        <5>2. sent[k].fid < sent[i].fid
          BY <3>1, <5>1
        <5> HIDE DEF i
        <5> QED
          BY <3>2, <3>4, <5>2
      <4> QED
        BY <4>1
    <3>6. i \in DOMAIN accepted
      BY <1>1, <2>6, <3>5
    <3>7. PICK q \in 1 .. sDone : c2s[q] = i
      BY <3>6 DEF CauseInv
    <3>8. q \in 1 .. (p - 1)
      BY <1>2
    <3> QED
      BY <2>1, <2>3, <2>8, <3>7, <3>8
  <2>11. CASE ~(i + refused < Word)
    <3>1. i + refused >= Word
      BY <1>1, <2>6, <2>8, <2>11
    <3> QED
      BY <2>1, <2>3, <2>4, <3>1
  <2> QED
    BY <2>9, <2>10, <2>11
<1> QED
  BY <1>3, <1>4

(* Every step keeps the cause of a rejection, and what is known of it.        *)
LEMMA CauseStep ==
  ASSUME TypeOK, DeliveryInv, CauseInv, RejectionCause, [Next]_vars
  PROVE  CauseInv' /\ RejectionCause'
<1>1. /\ Len(c2s) \in Nat /\ Len(sent) \in Nat /\ Len(accepted) \in Nat
      /\ DOMAIN accepted = 1 .. Len(accepted) /\ sDone \in Nat /\ sDone <= Len(c2s)
      /\ badPos \in Nat /\ badPos <= Len(c2s)
  BY Grown DEF CauseInv
<1>2. CASE ServerLoop
  <2>1. c2s' = c2s /\ sent' = sent /\ refused' = refused /\ cut' = cut
    BY <1>2 DEF ServerLoop, envVars
  <2>2. CASE ServerHandshake
    <3>1. /\ sTaken < Len(c2s) /\ c2s[1] = 0 /\ sDone' = 1 /\ sSsid' = SessionId
          /\ accepted' = accepted /\ badPos' = badPos /\ sState = "HANDSHAKE"
      BY <2>2 DEF ServerHandshake
    <3>2. c2s # <<>>
      BY <3>1 DEF TypeOK, WireTypeOK
    <3>3. accepted = <<>>
      BY <3>1 DEF CauseInv
    <3>5. CauseInv'
      BY <1>1, <2>1, <3>1, <3>2, <3>3 DEF CauseInv
    <3> QED
      BY <2>1, <3>1, <3>5 DEF RejectionCause
  <2>3. CASE ServerAccept
    <3>1. /\ sDone + 1 \in 1 .. Len(c2s) /\ c2s[sDone + 1] = Len(accepted) + 1
          /\ Len(accepted) + 1 <= Len(sent)
      BY <2>3, AcceptsSuccessor
    <3>2. /\ sDone' = sDone + 1 /\ badPos' = badPos /\ sSsid' = sSsid /\ sState' = sState
          /\ accepted' = Append(accepted, sent[c2s[sDone + 1]])
      BY <2>3 DEF ServerAccept
    <3>3. DOMAIN accepted' = 1 .. (Len(accepted) + 1)
      <4>1. accepted' \in Seq(SentFrames)
        BY Grown DEF TypeOK, HistTypeOK
      <4>2. Len(accepted') = Len(accepted) + 1
        BY <3>2, <1>1 DEF TypeOK, HistTypeOK
      <4> QED
        BY <4>1, <4>2
    <3>4. ASSUME NEW i \in 1 .. (Len(accepted) + 1)
          PROVE  \E q \in 1 .. (sDone + 1) : c2s[q] = i
      <4>1. CASE i \in 1 .. Len(accepted)
        <5>1. PICK q \in 1 .. sDone : c2s[q] = i
          BY <1>1, <4>1 DEF CauseInv
        <5>2. q \in 1 .. (sDone + 1)
          BY <1>1
        <5> QED
          BY <5>1, <5>2
      <4>2. CASE i = Len(accepted) + 1
        <5>1. sDone + 1 \in 1 .. (sDone + 1)
          BY <1>1
        <5> QED
          BY <3>1, <4>2, <5>1
      <4> QED
        BY <1>1, <4>1, <4>2
    <3>5. CauseInv'
      <4>1. sState = "ACTIVE"
        BY <2>3 DEF ServerAccept, DeliveryInv, BatchInv
      <4>2. sState' = "ACTIVE" /\ badPos' <= Len(c2s')
        BY <1>1, <2>1, <3>2, <4>1
      <4>3. c2s' # <<>> /\ c2s'[1] = 0 /\ sDone' >= 1 /\ sSsid' = SessionId
        <5>1. c2s # <<>> /\ c2s[1] = 0 /\ sDone >= 1 /\ sSsid = SessionId
          BY <4>1 DEF CauseInv
        <5> QED
          BY <1>1, <2>1, <3>2, <5>1
      <4>4. \A i \in DOMAIN accepted' : \E q \in 1 .. sDone' : c2s'[q] = i
        BY <2>1, <3>2, <3>3, <3>4
      <4> QED
        BY <4>2, <4>3, <4>4 DEF CauseInv
    <3> QED
      BY <2>1, <3>2, <3>5 DEF RejectionCause
  <2>4. CASE ServerReject \/ ServerReadFails
    <3>1. /\ badPos' \in 1 .. Len(c2s)
          /\ \/ badPos' \in cut
             \/ badPos' \notin cut /\ \E q \in 1 .. (badPos' - 1) : c2s[q] = c2s[badPos']
             \/ c2s[badPos'] # 0 /\ sent[c2s[badPos']].ssid = 0
             \/ c2s[badPos'] # 0 /\ c2s[badPos'] + refused >= Word
      BY <1>2, <2>4, RejectStep
    <3>2. sState' = "CLOSED" /\ sDone' = sDone /\ accepted' = accepted
      BY <2>4 DEF ServerReject, ServerReadFails, Reject, sPos
    <3>3. CauseInv'
      BY <1>1, <2>1, <3>1, <3>2 DEF CauseInv
    <3> QED
      BY <2>1, <3>1, <3>3 DEF RejectionCause
  <2>5. CASE \/ ServerHandshakeFails \/ ServerRead \/ ServerHangup \/ ServerWake \/ ServerSend
             \/ ServerSendRefused \/ ServerSendFails \/ ServerClose \/ ServerUnknown
             \/ ServerDrained
    <3>1. /\ accepted' = accepted /\ badPos' = badPos /\ sSsid' = sSsid /\ sDone' = sDone
          /\ sState' \in {"ACTIVE", "HANDSHAKE"} => sState' = sState
      BY <2>5 DEF ServerHandshakeFails, ServerRead, ServerHangup, ServerWake, ServerSend,
         ServerSendRefused, ServerSendFails, ServerClose, ServerUnknown, ServerDrained, sPos
    <3> QED
      BY <3>1, CauseStays
  <2> QED
    BY <1>2, <2>2, <2>3, <2>4, <2>5 DEF ServerLoop
<1>3. CASE UNCHANGED vars
  BY <1>3, CauseStays DEF vars, srvVars, posVars, sPos
<1>4. CASE \E u \in Callers : CallStep(u)
  BY <1>4, CauseStays DEF CallStep, srvVars, posVars, sPos
<1>5. CASE OwnerClose \/ ClientLoop \/ ClientExit \/ Tick \/ RepeatRequest \/ RepeatReply
  BY <1>5, CauseStays DEF OwnerClose, ClientLoop, ClientExit, Tick, RepeatRequest, RepeatReply,
     srvVars, posVars, sPos
<1>6. CASE Workers
  BY <1>6, CauseStays DEF Workers, WorkerStep, posVars, sPos
<1> QED
  BY <1>2, <1>3, <1>4, <1>5, <1>6 DEF Next

(* The server rejects a frame as invalid only if it was cut short, came twice, *)
(* was made before the client knew its session id, or follows 2^32 others.  A  *)
(* refused frame leaves a gap in the numbers, which is no reason.              *)
THEOREM RejectionsHaveCause == Spec => []RejectionCause
<1>1. Init => CauseInv /\ RejectionCause
  BY DEF Init, CauseInv, RejectionCause
<1>2. TypeOK /\ DeliveryInv /\ CauseInv /\ RejectionCause /\ [Next]_vars
        => (TypeOK /\ DeliveryInv /\ CauseInv /\ RejectionCause)'
  BY InvStep, CauseStep
<1> QED BY <1>1, <1>2, InvInit, PTL DEF Spec
------------------------------------------------------------------------------
(* The server's numbering, and the order in which the client hands replies on *)

(* sendFrame: its effect, element by element.                                 *)
LEMMA SendFrameElements ==
  ASSUME TypeOK, NEW frame \in ReplyFrames, SendFrame(frame)
  PROVE  /\ sFid' = Succ(sFid) /\ sFid \in U32
         /\ Len(replies') = Len(replies) + 1 /\ Len(replies) \in Nat
         /\ DOMAIN replies = 1 .. Len(replies) /\ DOMAIN replies' = 1 .. (Len(replies) + 1)
         /\ \A i \in 1 .. Len(replies) : replies'[i] = replies[i]
         /\ sFid' # 0 => replies'[Len(replies) + 1].fid = sFid'
         /\ s2c' = Append(s2c, Len(replies) + 1)
<1> DEFINE f == [frame EXCEPT !.fid = WireFid(@, sFid')]
<1>1. sFid' = Succ(sFid) /\ sFid \in U32 /\ sFid' \in U32
  BY SuccFacts DEF SendFrame, TypeOK, SrvTypeOK
<1>2. f \in ReplyFrames /\ (sFid' # 0 => f.fid = sFid')
  BY <1>1 DEF ReplyFrames, WireFid
<1>3. replies' = Append(replies, f) /\ s2c' = Append(s2c, Len(replies'))
  BY DEF SendFrame
<1> HIDE DEF f
<1>4. replies \in Seq(ReplyFrames)
  BY DEF TypeOK, HistTypeOK
<1>5. /\ Len(replies') = Len(replies) + 1 /\ Len(replies) \in Nat
      /\ DOMAIN replies = 1 .. Len(replies) /\ DOMAIN replies' = 1 .. (Len(replies) + 1)
      /\ \A i \in 1 .. Len(replies) : replies'[i] = replies[i]
      /\ replies'[Len(replies) + 1] = f
  BY <1>2, <1>3, <1>4, AppendFacts
<1> QED
  BY <1>1, <1>2, <1>3, <1>5

(* The only ways a frame gets onto the server's wire: sendFrame on an open     *)
(* connection, the notice after one that was refused, and a repeat.           *)
LEMMA ReplyWireStep ==
  ASSUME TypeOK, DeliveryInv, ReplyFidInv, [Next]_vars
  PROVE  \/ /\ UNCHANGED <<replies, s2c>>
            /\ sState' # "CLOSED" => sState # "CLOSED" /\ sFid' = sFid
         \/ sState # "CLOSED" /\ \E frame \in ReplyFrames : SendFrame(frame)
         \/ sState # "CLOSED" /\ sState' = "CLOSED" /\ SendRefused
         \/ /\ \E p \in DOMAIN s2c : s2c' = Append(s2c, s2c[p])
            /\ UNCHANGED <<replies, sFid, sState>>
<1>1. CASE ServerLoop
  <2>1. MakeResp("notice", 0, 0) \in ReplyFrames /\ MakeResp("secured", 0, 0) \in ReplyFrames
    BY MakeRespType, WordAssumption DEF TypeOK, Kinds, U32
  <2>2. CASE ServerHandshake
    <3> DEFINE f == [MakeResp("secured", 0, 0) EXCEPT !.ssid = sSsid']
    <3>1. f \in ReplyFrames
      BY <2>1, <2>2 DEF ServerHandshake, ReplyFrames, Ssids
    <3>2. SendFrame(f) /\ sState # "CLOSED"
      BY <2>2 DEF ServerHandshake
    <3> HIDE DEF f
    <3> QED
      BY <3>1, <3>2
  <2>3. CASE ServerReadFails \/ ServerReject
    <3>1. sState = "ACTIVE"
      BY <2>3 DEF ServerReadFails, ServerReject, DeliveryInv, BatchInv
    <3>2. (SendFrame(MakeResp("notice", 0, 0)) \/ SendRefused) /\ sState' = "CLOSED"
      BY <2>3 DEF ServerReadFails, ServerReject, Reject
    <3> QED
      BY <2>1, <3>1, <3>2
  <2>6. CASE ServerSendRefused
    BY <2>6 DEF ServerSendRefused
  <2>4. CASE ServerSend
    <3>1. CASE sState = "ACTIVE"
      <4>1. Head(sCmds) \in Commands
        BY <2>4, HeadTailProperties DEF ServerSend, TypeOK, SrvTypeOK
      <4>2. Head(sCmds).frame \in ReplyFrames
        BY <2>4, <4>1 DEF ServerSend, Commands
      <4>3. SendFrame(Head(sCmds).frame)
        BY <2>4, <3>1 DEF ServerSend
      <4> QED
        BY <3>1, <4>2, <4>3
    <3>2. CASE sState # "ACTIVE"
      <4>1. sState = "CLOSED" /\ sState' = sState
        BY <2>4, <3>2 DEF ServerSend, ReplyFidInv, TypeOK, SrvTypeOK
      <4> QED
        BY <2>4, <3>2, <4>1 DEF ServerSend
    <3> QED
      BY <3>1, <3>2
  <2>5. CASE \/ ServerHandshakeFails \/ ServerRead \/ ServerAccept \/ ServerHangup \/ ServerWake
             \/ ServerSendFails \/ ServerClose \/ ServerUnknown \/ ServerDrained
    BY <2>5 DEF ServerHandshakeFails, ServerRead, ServerAccept, ServerHangup, ServerWake,
       ServerSendFails, ServerClose, ServerUnknown, ServerDrained
  <2> QED
    BY <1>1, <2>2, <2>3, <2>4, <2>5, <2>6 DEF ServerLoop
<1>2. CASE UNCHANGED vars
  BY <1>2 DEF vars, srvVars
<1>3. CASE \E u \in Callers : CallStep(u)
  BY <1>3 DEF CallStep, srvVars
<1>4. CASE OwnerClose \/ ClientLoop \/ ClientExit \/ Tick \/ RepeatRequest
  BY <1>4 DEF OwnerClose, ClientLoop, ClientExit, Tick, RepeatRequest, srvVars
<1>5. CASE RepeatReply
  BY <1>5 DEF RepeatReply, srvVars
<1>6. CASE Workers
  BY <1>6 DEF Workers, WorkerStep
<1> QED
  BY <1>1, <1>2, <1>3, <1>4, <1>5, <1>6 DEF Next

(* The server's numbering of its frames.                                      *)
LEMMA ReplyFidStep ==
  ASSUME TypeOK, DeliveryInv, ReplyFidInv, [Next]_vars
  PROVE  ReplyFidInv'
<1>1. sState' = "HANDSHAKE" => sCmds' = <<>> /\ work' = {}
  <2>1. ASSUME sState' = "HANDSHAKE"
        PROVE  sCmds' = <<>> /\ work' = {}
    <3>1. CASE sState = "HANDSHAKE"
      <4>1. sCmds = <<>> /\ work = {} /\ sAt # "deliver"
        BY <3>1 DEF ReplyFidInv, DeliveryInv, BatchInv
      <4>2. CASE ServerLoop
        BY <4>1, <4>2 DEF ServerLoop, ServerHandshake, ServerHandshakeFails, ServerRead,
           ServerReadFails, ServerAccept, ServerReject, ServerHangup, ServerWake, ServerSend,
           ServerSendRefused, ServerSendFails, ServerClose, ServerUnknown, ServerDrained
      <4>3. CASE Workers
        BY <4>1, <4>3 DEF Workers
      <4>4. CASE \/ UNCHANGED vars \/ (\E u \in Callers : CallStep(u)) \/ OwnerClose \/ ClientLoop
                 \/ ClientExit \/ Tick \/ RepeatRequest \/ RepeatReply
        BY <4>1, <4>4 DEF vars, CallStep, OwnerClose, ClientLoop, ClientExit, Tick, RepeatRequest,
           RepeatReply, srvVars
      <4> QED
        BY <4>2, <4>3, <4>4 DEF Next
    <3>2. CASE sState # "HANDSHAKE"
      <4>1. CASE ServerLoop
        BY <2>1, <3>2, <4>1 DEF ServerLoop, ServerHandshake, ServerHandshakeFails, ServerRead,
           ServerReadFails, ServerAccept, ServerReject, Reject, ServerHangup, ServerWake,
           ServerSend, ServerSendRefused, ServerSendFails, ServerClose, ServerUnknown, ServerDrained
      <4>2. CASE Workers
        BY <2>1, <3>2, <4>2 DEF Workers, WorkerStep
      <4>3. CASE \/ UNCHANGED vars \/ (\E u \in Callers : CallStep(u)) \/ OwnerClose \/ ClientLoop
                 \/ ClientExit \/ Tick \/ RepeatRequest \/ RepeatReply
        BY <2>1, <3>2, <4>3 DEF vars, CallStep, OwnerClose, ClientLoop, ClientExit, Tick,
           RepeatRequest, RepeatReply, srvVars
      <4> QED
        BY <4>1, <4>2, <4>3 DEF Next
    <3> QED
      BY <3>1, <3>2
  <2> QED
    BY <2>1
<1>2. Len(replies) \in Nat /\ DOMAIN replies = 1 .. Len(replies)
  BY WireFacts
<1>3. CASE UNCHANGED replies /\ (sState' # "CLOSED" => sState # "CLOSED" /\ sFid' = sFid)
  BY <1>1, <1>3 DEF ReplyFidInv
<1>5. CASE sState # "CLOSED" /\ sState' = "CLOSED" /\ SendRefused
  <2>1. \A i \in 1 .. Len(replies) : i < Word => replies[i].fid = i
    BY <1>2, <1>5 DEF ReplyFidInv
  <2>2. CASE UNCHANGED replies
    BY <1>1, <1>2, <1>5, <2>1, <2>2 DEF ReplyFidInv
  <2>3. CASE ~UNCHANGED replies
    <3>1. PICK f \in ReplyFrames :
            /\ f.fid = WireFid(Succ(sFid), Succ(Succ(sFid)))
            /\ replies' = Append(replies, f) /\ s2c' = Append(s2c, Len(replies'))
      BY <1>5, <2>3, RefusedFacts
    <3>2. /\ Len(replies') = Len(replies) + 1 /\ DOMAIN replies' = 1 .. (Len(replies) + 1)
          /\ \A i \in 1 .. Len(replies) : replies'[i] = replies[i]
          /\ replies'[Len(replies) + 1] = f
      BY <3>1, ReplyAppended
    <3>3. sFid \in U32 /\ (Len(replies) + 1 < Word => sFid = Len(replies))
      BY <1>2, <1>5, WordAssumption DEF ReplyFidInv, TypeOK, SrvTypeOK
    <3>4. Len(replies) + 1 < Word => f.fid \in {Len(replies) + 1, Len(replies) + 2}
      <4>1. ASSUME Len(replies) + 1 < Word
            PROVE  f.fid \in {Len(replies) + 1, Len(replies) + 2}
        <5>1. Succ(sFid) = Len(replies) + 1 /\ Succ(sFid) \in U32
          BY <3>3, <4>1, SuccFacts
        <5>2. Succ(Succ(sFid)) \in {0, Len(replies) + 2}
          BY <1>2, <4>1, <5>1, SuccFacts, WordAssumption DEF U32
        <5> QED
          BY <3>1, <5>1, <5>2 DEF WireFid
      <4> QED
        BY <4>1
    <3>5. ASSUME NEW i \in 1 .. (Len(replies) + 1), i < Word
          PROVE  replies'[i].fid = i \/ (i = Len(replies') /\ replies'[i].fid = i + 1)
      <4>1. CASE i \in 1 .. Len(replies)
        BY <2>1, <3>2, <3>5, <4>1
      <4>2. CASE i = Len(replies) + 1
        BY <1>2, <3>2, <3>4, <3>5, <4>2
      <4> QED
        BY <1>2, <4>1, <4>2
    <3> QED
      BY <1>1, <1>5, <3>2, <3>5 DEF ReplyFidInv
  <2> QED
    BY <2>2, <2>3
<1>4. CASE sState # "CLOSED" /\ \E frame \in ReplyFrames : SendFrame(frame)
  <2>1. /\ sFid' = Succ(sFid) /\ sFid \in U32
        /\ Len(replies') = Len(replies) + 1 /\ DOMAIN replies' = 1 .. (Len(replies) + 1)
        /\ \A i \in 1 .. Len(replies) : replies'[i] = replies[i]
        /\ sFid' # 0 => replies'[Len(replies) + 1].fid = sFid'
    BY <1>4, SendFrameElements
  <2>2. Len(replies) + 1 < Word => sFid' = Len(replies) + 1
    BY <1>2, <1>4, <2>1, SuccFacts, WordAssumption DEF ReplyFidInv
  <2>3. ASSUME NEW i \in 1 .. (Len(replies) + 1), i < Word
        PROVE  replies'[i].fid = i
    <3>1. CASE i \in 1 .. Len(replies)
      BY <1>2, <1>4, <2>1, <2>3, <3>1 DEF ReplyFidInv
    <3>2. CASE i = Len(replies) + 1
      BY <1>2, <2>1, <2>2, <2>3, <3>2
    <3> QED
      BY <1>2, <3>1, <3>2
  <2> QED
    BY <1>1, <2>1, <2>2, <2>3 DEF ReplyFidInv
<1> QED
  BY <1>3, <1>4, <1>5, ReplyWireStep

(* A stream stays one without gaps when a frame is appended that is in it, or  *)
(* follows one that is.                                                       *)
LEMMA StreamAppend ==
  ASSUME NEW s, NEW t, NEW L \in Nat, NEW n \in Nat, NEW m \in {n, n + 1}, NEW v \in Nat,
         \A p \in 1 .. L : t[p] = s[p], t[L + 1] = v,
         \A i \in 1 .. n : \E q \in 1 .. L : s[q] = i,
         \A p \in 1 .. L : s[p] > 1 => \E q \in 1 .. (p - 1) : s[q] = s[p] - 1,
         v > 1 => \E q \in 1 .. L : s[q] = v - 1,
         m = n \/ v = n + 1
  PROVE  /\ \A i \in 1 .. m : \E q \in 1 .. (L + 1) : t[q] = i
         /\ \A p \in 1 .. (L + 1) : t[p] > 1 => \E q \in 1 .. (p - 1) : t[q] = t[p] - 1
<1>1. ASSUME NEW i \in 1 .. m
      PROVE  \E q \in 1 .. (L + 1) : t[q] = i
  <2>1. CASE i \in 1 .. n
    <3>1. PICK q \in 1 .. L : s[q] = i
      BY <2>1
    <3>2. q \in 1 .. (L + 1) /\ t[q] = i
      BY <3>1
    <3> QED
      BY <3>2
  <2>2. CASE ~(i \in 1 .. n)
    <3>1. i = v /\ L + 1 \in 1 .. (L + 1)
      BY <2>2
    <3> QED
      BY <3>1
  <2> QED
    BY <2>1, <2>2
<1>2. ASSUME NEW p \in 1 .. (L + 1), t[p] > 1
      PROVE  \E q \in 1 .. (p - 1) : t[q] = t[p] - 1
  <2>1. CASE p \in 1 .. L
    <3>1. t[p] = s[p] /\ s[p] > 1
      BY <1>2, <2>1
    <3>2. PICK q \in 1 .. (p - 1) : s[q] = s[p] - 1
      BY <2>1, <3>1
    <3>3. q \in 1 .. L
      BY <2>1, <3>2
    <3> QED
      BY <3>1, <3>2, <3>3
  <2>2. CASE p = L + 1
    <3>1. PICK q \in 1 .. L : s[q] = v - 1
      BY <1>2, <2>2
    <3>2. q \in 1 .. (p - 1) /\ t[q] = t[p] - 1
      BY <2>2, <3>1
    <3> QED
      BY <3>2
  <2> QED
    BY <2>1, <2>2
<1> QED
  BY <1>1, <1>2

(* No reply overtakes its predecessor on the wire, and both histories grow.    *)
LEMMA ReplyStreamStep ==
  ASSUME TypeOK, DeliveryInv, ReplyFidInv, ReplyStreamInv, [Next]_vars
  PROVE  /\ ReplyStreamInv'
         /\ Len(s2c) <= Len(s2c') /\ \A p \in 1 .. Len(s2c) : s2c'[p] = s2c[p]
         /\ Len(replies) <= Len(replies') /\ \A i \in 1 .. Len(replies) : replies'[i] = replies[i]
         /\ Len(replies') \in Nat
<1>1. /\ Len(s2c) \in Nat /\ DOMAIN s2c = 1 .. Len(s2c) /\ s2c \in Seq(Nat)
      /\ Len(replies) \in Nat /\ DOMAIN replies = 1 .. Len(replies)
      /\ \A p \in 1 .. Len(s2c) : s2c[p] \in 1 .. Len(replies)
  BY WireFacts DEF TypeOK, WireTypeOK
<1>2. ASSUME NEW v \in Nat, s2c' = Append(s2c, v), DOMAIN replies' = 1 .. Len(replies'),
             v > 1 => \E q \in 1 .. Len(s2c) : s2c[q] = v - 1,
             Len(replies') = Len(replies) \/ (Len(replies') = Len(replies) + 1 /\ v = Len(replies) + 1)
      PROVE  /\ ReplyStreamInv'
             /\ Len(s2c) <= Len(s2c') /\ \A p \in 1 .. Len(s2c) : s2c'[p] = s2c[p]
  <2>1. /\ \A i \in 1 .. Len(replies) : \E q \in 1 .. Len(s2c) : s2c[q] = i
        /\ \A p \in 1 .. Len(s2c) : s2c[p] > 1 => \E q \in 1 .. (p - 1) : s2c[q] = s2c[p] - 1
    BY <1>1 DEF ReplyStreamInv
  <2>2. Len(replies') \in {Len(replies), Len(replies) + 1}
        /\ (Len(replies') = Len(replies) \/ v = Len(replies) + 1)
    BY <1>2
  <2>3. /\ Len(s2c') = Len(s2c) + 1 /\ DOMAIN s2c' = 1 .. (Len(s2c) + 1) /\ Len(s2c) \in Nat
        /\ \A p \in 1 .. Len(s2c) : s2c'[p] = s2c[p]
        /\ \A i \in 1 .. Len(replies') : \E q \in 1 .. (Len(s2c) + 1) : s2c'[q] = i
        /\ \A p \in 1 .. (Len(s2c) + 1) : s2c'[p] > 1 => \E q \in 1 .. (p - 1) : s2c'[q] = s2c'[p] - 1
    <3>1. s2c \in Seq(Nat) /\ Len(replies) \in Nat /\ Len(s2c) \in Nat
      BY <1>1
    <3>2. s2c' = Append(s2c, v) /\ (v > 1 => \E q \in 1 .. Len(s2c) : s2c[q] = v - 1)
      BY <1>2
    <3>3. /\ Len(s2c') = Len(s2c) + 1 /\ DOMAIN s2c' = 1 .. (Len(s2c) + 1)
          /\ \A p \in 1 .. Len(s2c) : s2c'[p] = s2c[p]
          /\ s2c'[Len(s2c) + 1] = v
      <4>1. /\ Len(Append(s2c, v)) = Len(s2c) + 1 /\ DOMAIN Append(s2c, v) = 1 .. (Len(s2c) + 1)
            /\ \A p \in 1 .. Len(s2c) : Append(s2c, v)[p] = s2c[p]
            /\ Append(s2c, v)[Len(s2c) + 1] = v
        BY <3>1, AppendFacts
      <4> QED
        BY <3>2, <4>1
    <3>4. /\ \A i \in 1 .. Len(replies') : \E q \in 1 .. (Len(s2c) + 1) : s2c'[q] = i
          /\ \A p \in 1 .. (Len(s2c) + 1) :
                s2c'[p] > 1 => \E q \in 1 .. (p - 1) : s2c'[q] = s2c'[p] - 1
      BY <2>1, <2>2, <3>1, <3>2, <3>3, StreamAppend, SMTT(20)
    <3> QED
      BY <3>1, <3>3, <3>4
  <2>4. DOMAIN replies' = 1 .. Len(replies')
    BY <1>2
  <2>5. ReplyStreamInv'
    BY <2>3, <2>4 DEF ReplyStreamInv
  <2>6. Len(s2c) <= Len(s2c')
    BY <2>3
  <2> QED
    BY <2>3, <2>5, <2>6
<1>3. CASE UNCHANGED <<replies, s2c>>
  BY <1>1, <1>3 DEF ReplyStreamInv
<1>4. CASE (\E frame \in ReplyFrames : SendFrame(frame)) \/ (SendRefused /\ ~UNCHANGED replies)
  <2>1. /\ Len(replies') = Len(replies) + 1 /\ DOMAIN replies' = 1 .. (Len(replies) + 1)
        /\ \A i \in 1 .. Len(replies) : replies'[i] = replies[i]
        /\ s2c' = Append(s2c, Len(replies) + 1)
    BY <1>4, SendFrameElements, RefusedFacts, ReplyAppended
  <2>2. Len(replies) + 1 > 1 => \E q \in 1 .. Len(s2c) : s2c[q] = Len(replies) + 1 - 1
    <3>1. ASSUME Len(replies) + 1 > 1
          PROVE  \E q \in 1 .. Len(s2c) : s2c[q] = Len(replies) + 1 - 1
      <4>1. Len(replies) \in 1 .. Len(replies) /\ Len(replies) + 1 - 1 = Len(replies)
        BY <1>1, <3>1
      <4> QED
        BY <1>1, <4>1 DEF ReplyStreamInv
    <3> QED
      BY <3>1
  <2>3. Len(replies) + 1 \in Nat
    BY <1>1
  <2>4. /\ ReplyStreamInv'
        /\ Len(s2c) <= Len(s2c') /\ \A p \in 1 .. Len(s2c) : s2c'[p] = s2c[p]
    BY <1>2, <2>1, <2>2, <2>3
  <2> QED
    BY <1>1, <2>1, <2>4
<1>5. CASE (\E p \in DOMAIN s2c : s2c' = Append(s2c, s2c[p])) /\ UNCHANGED replies
  <2>1. PICK p \in 1 .. Len(s2c) : s2c' = Append(s2c, s2c[p])
    BY <1>1, <1>5
  <2>2. s2c[p] \in Nat /\ (s2c[p] > 1 => \E q \in 1 .. Len(s2c) : s2c[q] = s2c[p] - 1)
    <3>1. ASSUME s2c[p] > 1
          PROVE  \E q \in 1 .. Len(s2c) : s2c[q] = s2c[p] - 1
      <4>1. PICK q \in 1 .. (p - 1) : s2c[q] = s2c[p] - 1
        BY <1>1, <2>1, <3>1 DEF ReplyStreamInv
      <4>2. q \in 1 .. Len(s2c)
        BY <1>1, <4>1
      <4> QED
        BY <4>1, <4>2
    <3> QED
      BY <1>1, <3>1
  <2>3. DOMAIN replies' = 1 .. Len(replies') /\ Len(replies') = Len(replies)
    BY <1>1, <1>5
  <2>4. /\ ReplyStreamInv'
        /\ Len(s2c) <= Len(s2c') /\ \A r \in 1 .. Len(s2c) : s2c'[r] = s2c[r]
    <3> DEFINE v == s2c[p]
    <3>1. /\ v \in Nat /\ s2c' = Append(s2c, v)
          /\ v > 1 => \E q \in 1 .. Len(s2c) : s2c[q] = v - 1
      BY <2>1, <2>2
    <3> HIDE DEF v
    <3> QED
      BY <1>2, <2>3, <3>1
  <2> QED
    BY <1>1, <1>5, <2>4
<1> QED
  BY <1>3, <1>4, <1>5, ReplyWireStep, RefusedFacts

(* sendFrame never gives two frames of a session the same number until the     *)
(* counter wraps, whoever made them and whenever.                             *)
THEOREM RepliesAreNumbered == Spec => []RepliesNumbered
<1>1. Init => ReplyFidInv
  BY DEF Init, ReplyFidInv
<1>2. TypeOK /\ DeliveryInv /\ ReplyFidInv /\ [Next]_vars => (TypeOK /\ DeliveryInv /\ ReplyFidInv)'
  BY InvStep, ReplyFidStep
<1>3. TypeOK /\ ReplyFidInv => RepliesNumbered
  <2>1. ASSUME TypeOK, ReplyFidInv, NEW i \in DOMAIN replies, NEW j \in DOMAIN replies,
               Len(replies) < Word, replies[i].fid = replies[j].fid
        PROVE  i = j
    <3>1. Len(replies) \in Nat /\ DOMAIN replies = 1 .. Len(replies)
      BY <2>1, WireFacts
    <3>2. i < Word /\ j < Word
      BY <2>1, <3>1, WordAssumption
    <3> QED
      BY <2>1, <3>2 DEF ReplyFidInv
  <2> QED
    BY <2>1 DEF RepliesNumbered
<1> QED BY <1>1, <1>2, <1>3, InvInit, PTL DEF Spec

(* _validateFrame: the next reply handed on is the one after the last, as long *)
(* as the connection is open; while it closes it is a later one at least.     *)
LEMMA NextReply ==
  ASSUME TypeOK, ReplyFidInv, ReplyStreamInv, GotInv, ClientDeliver,
         NEW k, k = s2c[cDone + 1]
  PROVE  /\ cDone + 1 \in 1 .. Len(s2c) /\ k \in 1 .. Len(replies) /\ cState # "HANDSHAKE"
         /\ cState = "CONNECTED" /\ got = <<>> => k \in {1, 2}
         /\ cState = "CONNECTED" /\ got # <<>> => k < Word /\ k = got[Len(got)] + 1
         /\ Len(replies) < Word /\ got # <<>> => got[Len(got)] < k
<1>1. /\ Len(s2c) \in Nat /\ Len(replies) \in Nat /\ DOMAIN replies = 1 .. Len(replies)
      /\ DOMAIN s2c = 1 .. Len(s2c)
      /\ \A p \in 1 .. Len(s2c) : s2c[p] \in 1 .. Len(replies)
      /\ \A i \in 1 .. Len(replies) : replies[i] \in ReplyFrames
  BY WireFacts
<1>2. /\ cParsed \in 0 .. Len(s2c) /\ cDone \in 0 .. cParsed /\ cDone < cParsed
  BY DEF ClientDeliver, TypeOK, WireTypeOK
<1>3. /\ cDone + 1 \in 1 .. Len(s2c) /\ k \in 1 .. Len(replies) /\ cDone \in Nat
  BY <1>1, <1>2
<1>4. replies[k].fid > lastSrvFid /\ replies[k].fid \in 0 .. (Word - 1)
  BY <1>1, <1>3 DEF ClientDeliver, ReplyValid, ReplyFrames, U32
<1>5. cState # "HANDSHAKE"
  BY <1>2 DEF GotInv
<1>6. \A i \in 1 .. Len(replies) : i < Word =>
        replies[i].fid = i \/ (i = Len(replies) /\ replies[i].fid = i + 1)
  BY <1>1 DEF ReplyFidInv
<1>7. ASSUME k > 1
      PROVE  \E q \in 1 .. cDone : s2c[q] = k - 1
  <2> DEFINE p == cDone + 1
  <2>1. p \in DOMAIN s2c /\ s2c[p] > 1
    BY <1>1, <1>3, <1>7
  <2> HIDE DEF p
  <2>2. PICK q \in 1 .. (p - 1) : s2c[q] = s2c[p] - 1
    BY <2>1 DEF ReplyStreamInv
  <2> QED
    BY <1>3, <2>2 DEF p
<1>8. ASSUME cState = "CONNECTED", got = <<>>
      PROVE  k \in {1, 2}
  <2>1. \A p \in 1 .. cDone : s2c[p] <= 1
    BY <1>8 DEF GotInv
  <2>2. k > 1 => k - 1 <= 1
    BY <1>7, <2>1
  <2> QED
    BY <1>1, <1>3, <2>2
<1>9. ASSUME got # <<>>
      PROVE  /\ got[Len(got)] \in 1 .. Len(replies)
             /\ lastSrvFid = replies[got[Len(got)]].fid
  <2>1. Len(got) \in 1 .. Len(got) /\ DOMAIN got = 1 .. Len(got)
    BY <1>9 DEF TypeOK, HistTypeOK
  <2> QED
    BY <1>1, <1>9, <2>1 DEF GotInv
<1>10. ASSUME cState = "CONNECTED", got # <<>>
       PROVE  k < Word /\ k = got[Len(got)] + 1
  <2> DEFINE last == got[Len(got)]
  <2>1. last \in 1 .. Len(replies) /\ lastSrvFid = replies[last].fid
    BY <1>9, <1>10
  <2>2. last < Word /\ \A p \in 1 .. cDone : s2c[p] <= last
    BY <1>10 DEF GotInv
  <2> HIDE DEF last
  <2>3. lastSrvFid = last
    <3>1. lastSrvFid = last \/ (last = Len(replies) /\ lastSrvFid = last + 1)
      BY <1>6, <2>1, <2>2
    <3>2. ASSUME last = Len(replies), lastSrvFid = last + 1
          PROVE  FALSE
      <4>1. k < Word /\ k \in Nat /\ k <= last
        BY <1>1, <1>3, <2>2, <3>2, WordAssumption
      <4>2. CASE k = last
        <5>1. replies[k].fid = lastSrvFid
          BY <2>1, <4>2
        <5>2. lastSrvFid \in Nat
          BY <1>4, <5>1, WordAssumption
        <5> QED
          BY <1>4, <5>1, <5>2
      <4>3. CASE k < last
        <5>1. replies[k].fid = k
          <6>1. k # Len(replies)
            BY <3>2, <4>1, <4>3
          <6> QED
            BY <1>3, <1>6, <4>1, <6>1
        <5> QED
          BY <1>1, <1>4, <3>2, <4>1, <4>3, <5>1
      <4> QED
        BY <1>1, <3>2, <4>1, <4>2, <4>3
    <3> QED
      BY <3>1, <3>2
  <2>4. k > 1 => k - 1 <= last
    BY <1>7, <2>2
  <2>5. ~(k < Word /\ k <= last)
    <3>1. ASSUME k < Word, k <= last
          PROVE  FALSE
      <4>1. CASE k = last
        <5>1. replies[k].fid = lastSrvFid
          BY <2>1, <4>1
        <5>2. lastSrvFid \in Nat
          BY <1>4, <5>1, WordAssumption
        <5> QED
          BY <1>4, <5>1, <5>2
      <4>2. CASE k < last
        <5>0. k # Len(replies) /\ k \in Nat /\ last \in Nat
          BY <1>1, <1>3, <2>1, <4>2
        <5>1. replies[k].fid = k /\ k \in Nat /\ last \in Nat
          BY <1>3, <1>6, <3>1, <5>0
        <5> QED
          BY <1>4, <2>3, <4>2, <5>1
      <4> QED
        BY <1>1, <1>3, <2>1, <3>1, <4>1, <4>2
    <3> QED
      BY <3>1
  <2>6. k = last + 1
    BY <1>1, <1>3, <2>1, <2>2, <2>4, <2>5, WordAssumption
  <2>7. k < Word
    BY <1>1, <1>3, <1>4, <2>1, <2>2, <2>3, <2>6, WordAssumption
  <2> QED
    BY <2>6, <2>7 DEF last
<1>11. ASSUME Len(replies) < Word, got # <<>>
       PROVE  got[Len(got)] < k
  <2> DEFINE last == got[Len(got)]
  <2>1. last \in 1 .. Len(replies) /\ lastSrvFid = replies[last].fid
    BY <1>9, <1>11
  <2> HIDE DEF last
  <2>2. last < Word /\ k < Word
    BY <1>1, <1>3, <1>11, <2>1, WordAssumption
  <2>3. last < k
    BY <1>3, <1>4, <1>6, <2>1, <2>2
  <2> QED
    BY <2>3 DEF last
<1> QED
  BY <1>3, <1>5, <1>8, <1>10, <1>11

(* One turn of the loop over the parsed replies keeps their order.            *)
LEMMA DeliverStep ==
  ASSUME TypeOK, ReplyFidInv, ReplyStreamInv, GotInv, RepliesInOrder, ClientDeliver,
         replies' = replies, s2c' = s2c
  PROVE  GotInv' /\ RepliesInOrder'
<1> DEFINE k == s2c[cDone + 1]
           n == Len(got)
<1>1. /\ cDone + 1 \in 1 .. Len(s2c) /\ k \in 1 .. Len(replies) /\ cState # "HANDSHAKE"
      /\ cState = "CONNECTED" /\ got = <<>> => k \in {1, 2}
      /\ cState = "CONNECTED" /\ got # <<>> => k < Word /\ k = got[n] + 1
      /\ Len(replies) < Word /\ got # <<>> => got[n] < k
  BY NextReply
<1>2. /\ lastSrvFid' = replies[k].fid /\ got' = Append(got, k) /\ cDone' = cDone + 1
      /\ cState' = cState
  BY DEF ClientDeliver
<1>3. Len(replies) \in Nat /\ DOMAIN replies = 1 .. Len(replies) /\ cDone \in Nat /\ got \in Seq(Nat)
  BY WireFacts DEF TypeOK, WireTypeOK, HistTypeOK
<1>4. /\ n \in Nat /\ Len(got') = n + 1 /\ DOMAIN got = 1 .. n /\ DOMAIN got' = 1 .. (n + 1)
      /\ \A i \in 1 .. n : got'[i] = got[i] /\ got[i] \in Nat
      /\ got'[n + 1] = k /\ (got = <<>> <=> n = 0)
  <2>1. k \in Nat
    BY <1>1, <1>3
  <2> HIDE DEF k
  <2> QED
    BY <1>2, <1>3, <2>1, AppendFacts
<1>5. got' # <<>>
  BY <1>4
<1>6. ASSUME NEW i \in 1 .. (n + 1)
      PROVE  got'[i] \in 1 .. Len(replies)
  <2>1. \A j \in 1 .. n : got[j] \in 1 .. Len(replies)
    BY <1>3, <1>4 DEF GotInv
  <2> HIDE DEF k
  <2> QED
    BY <1>1, <1>4, <1>6, <2>1
<1>7. ASSUME cState = "CONNECTED"
      PROVE  k < Word /\ \A p \in 1 .. (cDone + 1) : s2c[p] <= k
  <2>1. \A p \in 1 .. cDone : s2c[p] <= IF got = <<>> THEN 1 ELSE got[n]
    BY <1>7 DEF GotInv
  <2>2. k < Word
    BY <1>1, <1>7, WordAssumption
  <2>3. (IF got = <<>> THEN 1 ELSE got[n]) <= k /\ (IF got = <<>> THEN 1 ELSE got[n]) \in Nat
    <3>1. got # <<>> => got[n] \in Nat
      BY <1>4
    <3> HIDE DEF k, n
    <3> QED
      BY <1>1, <1>7, <3>1
  <2>4. \A p \in 1 .. cDone : s2c[p] \in Nat
    BY <1>1, <1>3, WireFacts
  <2>5. s2c[cDone + 1] = k /\ k \in Nat
    BY <1>1, <1>3
  <2> HIDE DEF k, n
  <2>6. ASSUME NEW p \in 1 .. (cDone + 1)
        PROVE  s2c[p] <= k
    <3>1. CASE p \in 1 .. cDone
      BY <2>1, <2>3, <2>4, <2>5, <3>1
    <3>2. CASE p = cDone + 1
      BY <2>5, <3>2
    <3> QED
      BY <1>3, <3>1, <3>2
  <2> QED
    BY <2>2, <2>6
<1>8. GotInv'
  <2> HIDE DEF k, n
  <2>1. \A i \in DOMAIN got' : got'[i] \in DOMAIN replies'
    BY <1>3, <1>4, <1>6
  <2>2. lastSrvFid' = replies'[got'[Len(got')]].fid
    BY <1>2, <1>4
  <2>3. cState' = "CONNECTED" =>
          got'[Len(got')] < Word /\ \A p \in 1 .. cDone' : s2c'[p] <= got'[Len(got')]
    BY <1>2, <1>4, <1>7
  <2> QED
    BY <1>1, <1>2, <1>5, <2>1, <2>2, <2>3 DEF GotInv
<1>9. RepliesInOrder'
  <2>0. n \in Nat
    BY <1>4
  <2> HIDE DEF k, n
  <2>1. ASSUME Len(replies) < Word, NEW i \in 1 .. n
        PROVE  got'[i] < got'[i + 1]
    <3>1. CASE i + 1 \in 1 .. n
      <4>1. i \in 1 .. (n - 1)
        BY <2>0, <3>1
      <4> QED
        BY <1>4, <2>1, <3>1, <4>1 DEF RepliesInOrder, n
    <3>2. CASE i = n
      BY <1>1, <1>4, <2>1, <3>2
    <3>3. i + 1 \in 1 .. n \/ i = n
      BY <2>0
    <3> QED
      BY <3>1, <3>2, <3>3
  <2>2. ASSUME cState # "CLOSED"
        PROVE  got'[1] \in {1, 2}
    <3>0. cState = "CONNECTED"
      BY <1>1, <2>2 DEF TypeOK, CliTypeOK
    <3>1. CASE got = <<>>
      BY <1>1, <1>4, <3>0, <3>1
    <3>2. CASE got # <<>>
      BY <1>4, <2>2, <3>2 DEF RepliesInOrder
    <3> QED
      BY <3>1, <3>2
  <2>3. ASSUME cState # "CLOSED", NEW i \in 1 .. n
        PROVE  got'[i + 1] = got'[i] + 1
    <3>0. cState = "CONNECTED"
      BY <1>1, <2>3 DEF TypeOK, CliTypeOK
    <3>1. CASE i + 1 \in 1 .. n
      <4>1. i \in 1 .. (n - 1)
        BY <2>0, <3>1
      <4> QED
        BY <1>4, <2>3, <3>1, <4>1 DEF RepliesInOrder, n
    <3>2. CASE i = n
      BY <1>1, <1>4, <3>0, <3>2
    <3>3. i + 1 \in 1 .. n \/ i = n
      BY <2>0
    <3> QED
      BY <3>1, <3>2, <3>3
  <2>4. Len(got') - 1 = n
    BY <1>4
  <2> QED
    BY <1>2, <2>1, <2>2, <2>3, <2>4 DEF RepliesInOrder
<1> QED
  BY <1>8, <1>9

(* Steps that hand nothing on and handle nothing keep the order.              *)
LEMMA OrderStays ==
  ASSUME TypeOK, DeliveryInv, ReplyFidInv, ReplyStreamInv, GotInv, RepliesInOrder, [Next]_vars,
         got' = got, lastSrvFid' = lastSrvFid,
         cState' # "CLOSED" => cState' = cState /\ cDone' = cDone,
         cState' = "HANDSHAKE" => cParsed' = cParsed
  PROVE  GotInv' /\ RepliesInOrder'
<1>1. /\ Len(replies) \in Nat /\ Len(replies') \in Nat /\ Len(replies) <= Len(replies')
      /\ \A i \in 1 .. Len(replies) : replies'[i] = replies[i]
      /\ \A p \in 1 .. Len(s2c) : s2c'[p] = s2c[p]
      /\ DOMAIN replies = 1 .. Len(replies) /\ Len(s2c) \in Nat
  BY ReplyStreamStep, WireFacts
<1>2. DOMAIN replies' = 1 .. Len(replies')
  BY InvStep DEF TypeOK, HistTypeOK
<1>3. cDone \in Nat /\ cDone <= Len(s2c)
  BY <1>1 DEF TypeOK, WireTypeOK
<1>4. GotInv'
  <2>1. \A i \in DOMAIN got' : got'[i] \in DOMAIN replies'
    BY <1>1, <1>2 DEF GotInv
  <2>2. got # <<>> => replies'[got[Len(got)]] = replies[got[Len(got)]]
    <3>1. got # <<>> => Len(got) \in DOMAIN got
      BY DEF TypeOK, HistTypeOK
    <3> QED
      BY <1>1, <3>1 DEF GotInv
  <2>3. \A p \in 1 .. cDone : s2c'[p] = s2c[p]
    BY <1>1, <1>3
  <2>4. lastSrvFid' = IF got' = <<>> THEN 0 ELSE replies'[got'[Len(got')]].fid
    BY <2>2 DEF GotInv
  <2>5. cState' = "CONNECTED" =>
          /\ got' # <<>> => got'[Len(got')] < Word
          /\ \A p \in 1 .. cDone' : s2c'[p] <= IF got' = <<>> THEN 1 ELSE got'[Len(got')]
    BY <2>3 DEF GotInv
  <2> QED
    BY <2>1, <2>4, <2>5 DEF GotInv
<1>5. RepliesInOrder'
  <2>1. Len(replies') < Word => Len(replies) < Word
    BY <1>1, WordAssumption
  <2> QED
    BY <2>1 DEF RepliesInOrder
<1> QED
  BY <1>4, <1>5

(* Every step keeps the order of the replies, and what is known of them.      *)
LEMMA OrderStep ==
  ASSUME TypeOK, DeliveryInv, ReplyFidInv, ReplyStreamInv, GotInv, RepliesInOrder, [Next]_vars
  PROVE  GotInv' /\ RepliesInOrder'
<1>1. CASE ClientLoop
  <2>1. replies' = replies /\ s2c' = s2c
    <3>1. s2c' = s2c /\ replies' = replies
      BY <1>1 DEF ClientLoop
    <3> QED
      BY <3>1
  <2>2. CASE ClientDeliver
    BY <2>1, <2>2, DeliverStep
  <2>3. CASE ClientRead
    <3>1. PICK n \in (cParsed + 1) .. Len(s2c) :
            /\ cParsed' = n
            /\ cDone' = cDone + (IF cState = "HANDSHAKE" THEN 1 ELSE 0)
            /\ IF cState = "HANDSHAKE" THEN cState' = "CONNECTED" ELSE cState' = cState
      BY <2>3 DEF ClientRead
    <3>2. got' = got /\ lastSrvFid' = lastSrvFid
      BY <2>3 DEF ClientRead
    <3>3. cParsed \in Nat /\ cDone \in 0 .. cParsed /\ Len(s2c) \in Nat /\ DOMAIN s2c = 1 .. Len(s2c)
          /\ \A p \in 1 .. Len(s2c) : s2c[p] \in Nat
      <4>1. /\ Len(s2c) \in Nat /\ DOMAIN s2c = 1 .. Len(s2c) /\ Len(replies) \in Nat
            /\ \A p \in 1 .. Len(s2c) : s2c[p] \in 1 .. Len(replies)
        BY WireFacts
      <4>2. cParsed \in 0 .. Len(s2c) /\ cDone \in 0 .. cParsed
        BY DEF TypeOK, WireTypeOK
      <4> QED
        BY <4>1, <4>2
    <3>4. CASE cState = "HANDSHAKE"
      <4>1. cParsed = 0 /\ got = <<>> /\ cDone = 0 /\ lastSrvFid = 0
        BY <3>3, <3>4 DEF GotInv
      <4>2. 1 \in 1 .. Len(s2c)
        BY <3>1, <3>3, <4>1
      <4>3. s2c[1] <= 1
        <5>1. s2c[1] > 1 => \E q \in 1 .. (1 - 1) : s2c[q] = s2c[1] - 1
          BY <3>3, <4>2 DEF ReplyStreamInv
        <5> QED
          BY <3>3, <4>2, <5>1
      <4>4. cDone' = 1 /\ cState' = "CONNECTED" /\ got' = <<>> /\ lastSrvFid' = 0
        BY <3>1, <3>2, <3>4, <4>1
      <4>5. GotInv'
        <5>1. \A p \in 1 .. cDone' : s2c'[p] <= 1
          BY <2>1, <4>3, <4>4
        <5> QED
          BY <4>4, <5>1 DEF GotInv
      <4>6. RepliesInOrder'
        <5>1. Len(got') - 1 = -1
          BY <4>4
        <5>2. 1 .. (Len(got') - 1) = {}
          BY <5>1
        <5> QED
          BY <4>4, <5>2 DEF RepliesInOrder
      <4> QED
        BY <4>5, <4>6
    <3>5. CASE cState # "HANDSHAKE"
      BY <3>1, <3>2, <3>3, <3>5, OrderStays
    <3> QED
      BY <3>4, <3>5
  <2>4. CASE ClientReject
    BY <2>4, OrderStays DEF ClientReject
  <2>5. CASE \/ ClientHandshake \/ ClientWake \/ ClientCommand \/ ClientDrained \/ ClientHangup
             \/ ClientLoopExit
    <3>1. got' = got /\ lastSrvFid' = lastSrvFid /\ cState' = cState /\ cDone' = cDone
          /\ cParsed' = cParsed
      BY <2>5 DEF ClientHandshake, ClientWake, ClientCommand, ClientDrained, ClientHangup,
         ClientLoopExit, cPos
    <3> QED
      BY <3>1, OrderStays
  <2> QED
    BY <1>1, <2>2, <2>3, <2>4, <2>5 DEF ClientLoop
<1>2. CASE UNCHANGED vars
  BY <1>2, OrderStays DEF vars, cliVars, posVars, cPos
<1>3. CASE \E u \in Callers : CallStep(u)
  <2>1. PICK u \in Callers : CallStep(u)
    BY <1>3
  <2> QED
    BY <2>1, OrderStays DEF CallStep, SendBegin, SendMake, SendPush, posVars, cPos
<1>4. CASE OwnerClose \/ ClientExit \/ Tick \/ RepeatRequest \/ RepeatReply
  BY <1>4, OrderStays DEF OwnerClose, ClientExit, Tick, RepeatRequest, RepeatReply, cliVars,
     posVars, cPos
<1>5. CASE ServerLoop
  BY <1>5, OrderStays DEF ServerLoop, cliVars, cPos
<1>6. CASE Workers
  BY <1>6, OrderStays DEF Workers, WorkerStep, cliVars, posVars, cPos
<1> QED
  BY <1>1, <1>2, <1>3, <1>4, <1>5, <1>6 DEF Next

(* onResponse sees the server's frames in order, without a gap until the owner *)
(* closes, however often frames are repeated and whether or not fid wraps.    *)
THEOREM RepliesArriveInOrder == Spec => []RepliesInOrder
<1>1. Init => ReplyFidInv /\ ReplyStreamInv /\ GotInv /\ RepliesInOrder
  <2>1. ASSUME Init
        PROVE  ReplyFidInv /\ ReplyStreamInv /\ GotInv /\ RepliesInOrder
    <3>1. replies = <<>> /\ s2c = <<>> /\ got = <<>>
      BY <2>1 DEF Init
    <3>2. DOMAIN replies = {} /\ DOMAIN s2c = {} /\ DOMAIN got = {} /\ 1 .. (Len(got) - 1) = {}
      BY <3>1
    <3>3. ReplyStreamInv
      BY <3>2 DEF ReplyStreamInv
    <3>4. ReplyFidInv
      BY <2>1, <3>2 DEF Init, ReplyFidInv
    <3>5. GotInv
      BY <2>1, <3>2 DEF Init, GotInv
    <3>6. RepliesInOrder
      BY <3>1, <3>2 DEF RepliesInOrder
    <3> QED
      BY <3>3, <3>4, <3>5, <3>6
  <2> QED
    BY <2>1
<1>2. TypeOK /\ DeliveryInv /\ ReplyFidInv /\ ReplyStreamInv /\ GotInv /\ RepliesInOrder /\ [Next]_vars
        => (TypeOK /\ DeliveryInv /\ ReplyFidInv /\ ReplyStreamInv /\ GotInv /\ RepliesInOrder)'
  BY InvStep, ReplyFidStep, ReplyStreamStep, OrderStep
<1> QED BY <1>1, <1>2, InvInit, PTL DEF Spec

------------------------------------------------------------------------------
(* Which request a response answers                                           *)

(* Commands and replies, with their types.                                    *)
LEMMA QueueFacts ==
  ASSUME TypeOK
  PROVE  /\ sCmds \in Seq(Commands) /\ DOMAIN sCmds = 1 .. Len(sCmds) /\ Len(sCmds) \in Nat
         /\ replies \in Seq(ReplyFrames) /\ DOMAIN replies = 1 .. Len(replies)
         /\ Len(replies) \in Nat
         /\ DOMAIN accepted = 1 .. Len(accepted) /\ Len(accepted) \in Nat
         /\ \A t \in work : /\ t.req \in 1 .. Len(accepted) /\ t.todo \in Seq(ResponderCall)
                            /\ t.todo # <<>>
<1>1. /\ DOMAIN replies = 1 .. Len(replies) /\ Len(replies) \in Nat
      /\ DOMAIN accepted = 1 .. Len(accepted) /\ Len(accepted) \in Nat
  BY WireFacts
<1>2. sCmds \in Seq(Commands) /\ replies \in Seq(ReplyFrames)
  BY DEF TypeOK, SrvTypeOK, HistTypeOK
<1>3. \A t \in work : /\ t.req \in 1 .. Len(accepted) /\ t.todo \in Seq(ResponderCall)
                      /\ t.todo # <<>>
  BY <1>1 DEF TypeOK, SrvTypeOK
<1> QED
  BY <1>1, <1>2, <1>3, LenProperties

(* What is left of the queue after its head keeps its invariant.              *)
LEMMA PopStep ==
  ASSUME TypeOK, AnswerInv, sCmds # <<>>, sCmds' = Tail(sCmds), work' = work, accepted' = accepted
  PROVE  /\ TasksInv' /\ QueuedInv'
         /\ DOMAIN sCmds' = 1 .. (Len(sCmds) - 1) /\ Len(sCmds) \in Nat
         /\ \A i \in DOMAIN sCmds' : sCmds'[i] = sCmds[i + 1] /\ i + 1 \in DOMAIN sCmds /\ i + 1 # 1
         /\ 1 \in DOMAIN sCmds /\ Head(sCmds) = sCmds[1]
<1>1. sCmds \in Seq(Commands) /\ DOMAIN sCmds = 1 .. Len(sCmds) /\ Len(sCmds) \in Nat
  BY QueueFacts
<1>2. /\ Tail(sCmds) \in Seq(Commands) /\ Len(Tail(sCmds)) = Len(sCmds) - 1
      /\ \A i \in 1 .. Len(Tail(sCmds)) : Tail(sCmds)[i] = sCmds[i + 1]
  BY <1>1, HeadTailProperties
<1>3. DOMAIN sCmds' = 1 .. (Len(sCmds) - 1) /\ Len(sCmds) > 0
  <2>1. DOMAIN Tail(sCmds) = 1 .. Len(Tail(sCmds))
    BY <1>2, LenProperties
  <2>2. Len(sCmds) # 0
    BY <1>1, EmptySeq
  <2> QED
    BY <1>1, <1>2, <2>1, <2>2
<1>4. \A i \in DOMAIN sCmds' : sCmds'[i] = sCmds[i + 1] /\ i + 1 \in DOMAIN sCmds /\ i + 1 # 1
  BY <1>1, <1>2, <1>3
<1>5. 1 \in DOMAIN sCmds /\ Head(sCmds) = sCmds[1]
  BY <1>1, <1>3
<1>6. TasksInv'
  BY DEF AnswerInv, TasksInv
<1>7. QueuedInv'
  <2>1. ASSUME NEW i \in DOMAIN sCmds', Answers(sCmds[i + 1])
        PROVE  Matches(sCmds[i + 1].frame) /\ ~Due(sCmds[i + 1].frame.for)
    BY <1>4, <2>1 DEF AnswerInv, QueuedInv
  <2>2. ASSUME NEW i \in DOMAIN sCmds', NEW j \in DOMAIN sCmds', Answers(sCmds[i + 1]),
               Answers(sCmds[j + 1]), sCmds[i + 1].frame.for = sCmds[j + 1].frame.for
        PROVE  i = j
    <3>1. i + 1 = j + 1
      BY <1>4, <2>2 DEF AnswerInv, QueuedInv
    <3>2. i \in Int /\ j \in Int
      BY <1>1, <1>3
    <3> QED
      BY <3>1, <3>2
  <2> QED
    BY <1>4, <2>1, <2>2 DEF QueuedInv, Due, Matches, Answers
<1> QED
  BY <1>1, <1>3, <1>4, <1>5, <1>6, <1>7

(* Steps that neither take on nor answer a request.                           *)
LEMMA AnswerStays ==
  ASSUME TypeOK, AnswerInv, UNCHANGED <<work, accepted>>,
         \/ sCmds' = sCmds
         \/ sCmds # <<>> /\ sCmds' = Tail(sCmds),
         \/ replies' = replies
         \/ \E f \in ReplyFrames : f.kind # "response" /\ replies' = Append(replies, f)
  PROVE  AnswerInv'
<1>1. TasksInv' /\ QueuedInv'
  <2>1. CASE sCmds' = sCmds
    BY <2>1 DEF AnswerInv, TasksInv, QueuedInv, Due, Matches, Answers
  <2>2. CASE sCmds # <<>> /\ sCmds' = Tail(sCmds)
    BY <2>2, PopStep
  <2> QED
    BY <2>1, <2>2
<1>2. \A i \in DOMAIN sCmds' : \E k \in DOMAIN sCmds : sCmds'[i] = sCmds[k]
  <2>1. CASE sCmds' = sCmds
    BY <2>1
  <2>2. CASE sCmds # <<>> /\ sCmds' = Tail(sCmds)
    BY <2>2, PopStep
  <2> QED
    BY <2>1, <2>2
<1>3. \A i \in DOMAIN replies' :
         replies'[i].kind = "response" => i \in DOMAIN replies /\ replies'[i] = replies[i]
  <2>1. CASE replies' = replies
    BY <2>1
  <2>2. CASE \E f \in ReplyFrames : f.kind # "response" /\ replies' = Append(replies, f)
    <3>1. PICK f \in ReplyFrames : f.kind # "response" /\ replies' = Append(replies, f)
      BY <2>2
    <3>2. replies \in Seq(ReplyFrames)
      BY QueueFacts
    <3>3. /\ DOMAIN replies = 1 .. Len(replies) /\ DOMAIN replies' = 1 .. (Len(replies) + 1)
          /\ \A i \in 1 .. Len(replies) : replies'[i] = replies[i]
          /\ replies'[Len(replies) + 1] = f /\ Len(replies) \in Nat
      BY <3>1, <3>2, AppendFacts
    <3>4. ASSUME NEW i \in 1 .. (Len(replies) + 1), replies'[i].kind = "response"
          PROVE  i \in 1 .. Len(replies)
      <4>1. replies'[Len(replies) + 1].kind # "response"
        BY <3>1, <3>3
      <4>2. i # Len(replies) + 1
        BY <3>4, <4>1
      <4> QED
        BY <3>3, <4>2
    <3> QED
      BY <3>3, <3>4
  <2> QED
    BY <2>1, <2>2
<1>4. AnsweredInv'
  <2>1. \A i \in DOMAIN replies' : replies'[i].kind = "response" =>
           Matches(replies[i]) /\ ~Due(replies[i].for)
    BY <1>3 DEF AnswerInv, AnsweredInv
  <2>2. \A i, j \in DOMAIN replies' :
           replies'[i].kind = "response" /\ replies'[j].kind = "response"
           /\ replies'[i].for = replies'[j].for => i = j
    BY <1>3 DEF AnswerInv, AnsweredInv
  <2>3. \A i \in DOMAIN sCmds', j \in DOMAIN replies' :
           Answers(sCmds'[i]) /\ replies'[j].kind = "response" => sCmds'[i].frame.for # replies'[j].for
    BY <1>2, <1>3 DEF AnswerInv, AnsweredInv
  <2>4. \A i \in DOMAIN replies' : replies'[i].kind = "response" =>
           Matches(replies[i])' /\ ~Due(replies[i].for)'
    BY <1>3, <2>1 DEF Matches, Due
  <2> QED
    BY <2>2, <2>3, <2>4 DEF AnsweredInv, Answers
<1> QED
  BY <1>1, <1>4 DEF AnswerInv

(* _onNewRequest: the request is new, and no answer to it exists.             *)
LEMMA TaskStep ==
  ASSUME TypeOK, AnswerInv, RespondOnce, NEW f \in SentFrames, NEW h \in Handlers,
         accepted' = Append(accepted, f), UNCHANGED <<sCmds, replies>>,
         work' = IF h = <<>> THEN work ELSE work \cup {[req |-> Len(accepted'), todo |-> h]}
  PROVE  AnswerInv'
<1>1. /\ accepted \in Seq(SentFrames) /\ Len(accepted) \in Nat
      /\ DOMAIN accepted = 1 .. Len(accepted)
      /\ \A t \in work : t.req \in 1 .. Len(accepted)
  BY QueueFacts DEF TypeOK, HistTypeOK
<1>2. /\ Len(accepted') = Len(accepted) + 1 /\ DOMAIN accepted' = 1 .. (Len(accepted) + 1)
      /\ \A i \in 1 .. Len(accepted) : accepted'[i] = accepted[i]
  BY <1>1, AppendFacts
<1>3. \A t \in work' : t \in work \/ (t.req = Len(accepted) + 1 /\ t.todo = h)
  BY <1>2
<1>4. \A t, u \in work' : t.req = u.req => t = u
  <2>1. ASSUME NEW t \in work', NEW u \in work', t.req = u.req
        PROVE  t = u
    <3>1. CASE t \in work /\ u \in work
      BY <2>1, <3>1 DEF AnswerInv, TasksInv
    <3>2. CASE t \notin work \/ u \notin work
      <4>1. t.req = Len(accepted) + 1
        BY <1>3, <2>1, <3>2
      <4>2. \A s \in work : s.req # Len(accepted) + 1
        BY <1>1
      <4> QED
        BY <1>3, <2>1, <4>1, <4>2, <1>2
    <3> QED
      BY <3>1, <3>2
  <2> QED
    BY <2>1
<1>5. TasksInv'
  <2>1. \A t \in work' : \A i, j \in DOMAIN t.todo :
           t.todo[i] = "respond" /\ t.todo[j] = "respond" => i = j
    BY <1>3 DEF AnswerInv, TasksInv, RespondOnce
  <2> QED
    BY <1>4, <2>1 DEF TasksInv
<1>6. \A r \in 1 .. Len(accepted) : Due(r)' => Due(r)
  <2>1. ASSUME NEW r \in 1 .. Len(accepted), Due(r)'
        PROVE  Due(r)
    <3>1. PICK t \in work' : t.req = r /\ \E n \in DOMAIN t.todo : t.todo[n] = "respond"
      BY <2>1 DEF Due
    <3>2. t \in work
      BY <1>1, <1>3, <3>1
    <3> QED
      BY <3>1, <3>2 DEF Due
  <2> QED
    BY <2>1
<1>7. ASSUME NEW g, Matches(g), ~Due(g.for)
      PROVE  Matches(g)' /\ ~Due(g.for)'
  <2>1. g.for \in 1 .. Len(accepted) /\ g.rid = accepted[g.for].rid
    BY <1>1, <1>7 DEF Matches
  <2>2. g.for \in 1 .. (Len(accepted) + 1)
    BY <1>1, <2>1
  <2>3. Matches(g)'
    BY <1>2, <2>1, <2>2 DEF Matches
  <2> QED
    BY <1>6, <1>7, <2>1, <2>3
<1>8. QueuedInv'
  <2>1. \A i \in DOMAIN sCmds : Answers(sCmds[i]) =>
           Matches(sCmds[i].frame)' /\ ~Due(sCmds[i].frame.for)'
    BY <1>7 DEF AnswerInv, QueuedInv
  <2> QED
    BY <2>1 DEF AnswerInv, QueuedInv, Answers, Matches, Due
<1>9. AnsweredInv'
  <2>1. \A i \in DOMAIN replies : replies[i].kind = "response" =>
           Matches(replies[i])' /\ ~Due(replies[i].for)'
    BY <1>7 DEF AnswerInv, AnsweredInv
  <2> QED
    BY <2>1 DEF AnswerInv, AnsweredInv, Answers, Matches, Due
<1> QED
  BY <1>5, <1>8, <1>9 DEF AnswerInv

(* SEND of a response: the answer moves from the queue to the wire.           *)
LEMMA AnswerSent ==
  ASSUME TypeOK, AnswerInv, sCmds # <<>>, sCmds' = Tail(sCmds), UNCHANGED <<work, accepted>>,
         Answers(Head(sCmds)), NEW f \in ReplyFrames, replies' = Append(replies, f),
         f.kind = "response", f.for = Head(sCmds).frame.for, f.rid = Head(sCmds).frame.rid
  PROVE  AnswerInv'
<1>1. /\ TasksInv' /\ QueuedInv'
      /\ \A i \in DOMAIN sCmds' : sCmds'[i] = sCmds[i + 1] /\ i + 1 \in DOMAIN sCmds /\ i + 1 # 1
      /\ 1 \in DOMAIN sCmds /\ Head(sCmds) = sCmds[1]
  BY PopStep
<1>2. /\ DOMAIN replies = 1 .. Len(replies) /\ DOMAIN replies' = 1 .. (Len(replies) + 1)
      /\ \A i \in 1 .. Len(replies) : replies'[i] = replies[i]
      /\ replies'[Len(replies) + 1] = f /\ Len(replies) \in Nat
  <2>1. replies \in Seq(ReplyFrames)
    BY QueueFacts
  <2> QED
    BY <2>1, AppendFacts
<1>3. \A i \in DOMAIN replies' : i = Len(replies) + 1 \/ i \in DOMAIN replies
  BY <1>2
<1>4. Matches(f)' /\ ~Due(f.for)'
  <2>1. Matches(Head(sCmds).frame) /\ ~Due(Head(sCmds).frame.for)
    BY <1>1 DEF AnswerInv, QueuedInv
  <2> QED
    BY <2>1 DEF Matches, Due
<1>5. ASSUME NEW i \in DOMAIN replies, replies[i].kind = "response"
      PROVE  /\ replies'[i] = replies[i] /\ Matches(replies[i])' /\ ~Due(replies[i].for)'
             /\ replies[i].for # f.for
  <2>1. Matches(replies[i]) /\ ~Due(replies[i].for)
    BY <1>5 DEF AnswerInv, AnsweredInv
  <2>2. replies[i].for # f.for
    BY <1>1, <1>5 DEF AnswerInv, AnsweredInv
  <2>3. replies'[i] = replies[i]
    BY <1>2, <1>5
  <2> QED
    BY <2>1, <2>2, <2>3 DEF Matches, Due
<1>6. ASSUME NEW i \in DOMAIN replies', replies'[i].kind = "response"
      PROVE  Matches(replies[i])' /\ ~Due(replies[i].for)'
  <2>1. CASE i = Len(replies) + 1
    <3>1. replies'[i] = f
      BY <1>2, <2>1
    <3> QED
      BY <1>4, <3>1 DEF Matches, Due
  <2>2. CASE i \in DOMAIN replies
    <3>1. replies'[i] = replies[i]
      BY <1>2, <2>2
    <3>2. Matches(replies[i])
      BY <1>6, <2>2, <3>1 DEF AnswerInv, AnsweredInv
    <3>3. ~Due(replies[i].for)
      BY <1>6, <2>2, <3>1 DEF AnswerInv, AnsweredInv
    <3> QED
      BY <3>1, <3>2, <3>3 DEF Matches, Due
  <2> QED
    BY <1>3, <2>1, <2>2
<1>7. ASSUME NEW i \in DOMAIN replies', NEW j \in DOMAIN replies', replies'[i].kind = "response",
             replies'[j].kind = "response", replies'[i].for = replies'[j].for
      PROVE  i = j
  <2>1. CASE i \in DOMAIN replies /\ j \in DOMAIN replies
    <3>1. replies'[i] = replies[i] /\ replies'[j] = replies[j]
      BY <1>2, <2>1
    <3> QED
      BY <1>7, <2>1, <3>1 DEF AnswerInv, AnsweredInv
  <2>2. CASE i = Len(replies) + 1 /\ j \in DOMAIN replies
    <3>1. replies'[i] = f /\ replies'[j] = replies[j]
      BY <1>2, <2>2
    <3> QED
      BY <1>5, <1>7, <2>2, <3>1
  <2>3. CASE j = Len(replies) + 1 /\ i \in DOMAIN replies
    <3>1. replies'[j] = f /\ replies'[i] = replies[i]
      BY <1>2, <2>3
    <3> QED
      BY <1>5, <1>7, <2>3, <3>1
  <2> QED
    BY <1>3, <2>1, <2>2, <2>3
<1>8. ASSUME NEW i \in DOMAIN sCmds', NEW j \in DOMAIN replies', Answers(sCmds'[i]),
             replies'[j].kind = "response"
      PROVE  sCmds'[i].frame.for # replies'[j].for
  <2>1. sCmds'[i] = sCmds[i + 1] /\ i + 1 \in DOMAIN sCmds /\ i + 1 # 1
    BY <1>1
  <2>2. CASE j = Len(replies) + 1
    <3>1. replies'[j] = f
      BY <1>2, <2>2
    <3>2. Answers(sCmds[i + 1]) /\ Answers(sCmds[1])
      BY <1>1, <1>8, <2>1
    <3>3. sCmds[i + 1].frame.for # sCmds[1].frame.for
      BY <1>1, <2>1, <3>2 DEF AnswerInv, QueuedInv
    <3> QED
      BY <1>1, <2>1, <3>1, <3>3
  <2>3. CASE j \in DOMAIN replies
    <3>1. replies'[j] = replies[j]
      BY <1>2, <2>3
    <3> QED
      BY <1>8, <2>1, <2>3, <3>1 DEF AnswerInv, AnsweredInv
  <2> QED
    BY <1>3, <2>2, <2>3
<1>9. AnsweredInv'
  BY <1>6, <1>7, <1>8 DEF AnsweredInv, Answers
<1> QED
  BY <1>1, <1>9 DEF AnswerInv

(* One step of a handler: what is still due shrinks, and a response is due no  *)
(* longer once it is queued.                                                  *)
LEMMA RestTasks ==
  ASSUME TypeOK, TasksInv, NEW t \in work, work' = Rest(t)
  PROVE  /\ TasksInv'
         /\ \A r : Due(r)' => Due(r)
         /\ Head(t.todo) = "respond" => Due(t.req) /\ ~Due(t.req)'
<1>1. t.todo \in Seq(ResponderCall) /\ t.todo # <<>> /\ Len(t.todo) \in Nat
  BY QueueFacts, LenProperties
<1> DEFINE tail == [t EXCEPT !.todo = Tail(t.todo)]
<1>2. /\ Len(Tail(t.todo)) = Len(t.todo) - 1 /\ DOMAIN t.todo = 1 .. Len(t.todo)
      /\ DOMAIN Tail(t.todo) = 1 .. (Len(t.todo) - 1)
      /\ \A n \in 1 .. (Len(t.todo) - 1) : Tail(t.todo)[n] = t.todo[n + 1]
      /\ Head(t.todo) = t.todo[1] /\ 1 \in 1 .. Len(t.todo)
  <2>1. /\ Tail(t.todo) \in Seq(ResponderCall) /\ Len(Tail(t.todo)) = Len(t.todo) - 1
        /\ \A n \in 1 .. Len(Tail(t.todo)) : Tail(t.todo)[n] = t.todo[n + 1]
    BY <1>1, HeadTailProperties
  <2>2. DOMAIN t.todo = 1 .. Len(t.todo) /\ DOMAIN Tail(t.todo) = 1 .. Len(Tail(t.todo))
    BY <1>1, <2>1, LenProperties
  <2>3. Len(t.todo) # 0
    BY <1>1, EmptySeq
  <2>4. Head(t.todo) = t.todo[1] /\ 1 \in 1 .. Len(t.todo)
    BY <1>1, <2>3
  <2> QED
    BY <2>1, <2>2, <2>4
<1>3. tail.req = t.req /\ tail.todo = Tail(t.todo)
  BY DEF TypeOK, SrvTypeOK
<1>4. \A u \in work' : (u \in work /\ u # t) \/ u = tail
  BY DEF Rest
<1>5. \A n \in DOMAIN tail.todo : n + 1 \in DOMAIN t.todo /\ tail.todo[n] = t.todo[n + 1] /\ n \in Nat
  BY <1>1, <1>2, <1>3
<1> HIDE DEF tail
<1>6. TasksInv'
  <2>1. ASSUME NEW u \in work', NEW v \in work', u.req = v.req
        PROVE  u = v
    BY <1>3, <1>4, <2>1 DEF TasksInv
  <2>2. ASSUME NEW u \in work', NEW i \in DOMAIN u.todo, NEW j \in DOMAIN u.todo,
               u.todo[i] = "respond", u.todo[j] = "respond"
        PROVE  i = j
    <3>1. CASE u \in work
      BY <2>2, <3>1 DEF TasksInv
    <3>2. CASE u = tail
      <4>1. /\ i + 1 \in DOMAIN t.todo /\ j + 1 \in DOMAIN t.todo /\ i \in Nat /\ j \in Nat
            /\ t.todo[i + 1] = "respond" /\ t.todo[j + 1] = "respond"
        BY <1>5, <2>2, <3>2
      <4>2. i + 1 = j + 1
        BY <4>1 DEF TasksInv
      <4> QED
        BY <4>1, <4>2
    <3> QED
      BY <1>4, <3>1, <3>2
  <2> QED
    BY <2>1, <2>2 DEF TasksInv
<1>7. ASSUME NEW r, Due(r)'
      PROVE  Due(r)
  <2>1. PICK u \in work' : u.req = r /\ \E n \in DOMAIN u.todo : u.todo[n] = "respond"
    BY <1>7 DEF Due
  <2>2. CASE u \in work
    BY <2>1, <2>2 DEF Due
  <2>3. CASE u = tail
    <3>1. t.req = r /\ \E n \in DOMAIN t.todo : t.todo[n] = "respond"
      BY <1>3, <1>5, <2>1, <2>3
    <3> QED
      BY <3>1 DEF Due
  <2> QED
    BY <1>4, <2>2, <2>3
<1>8. ASSUME Head(t.todo) = "respond"
      PROVE  Due(t.req) /\ ~Due(t.req)'
  <2>1. t.todo[1] = "respond" /\ 1 \in DOMAIN t.todo
    BY <1>2, <1>8
  <2>2. Due(t.req)
    BY <2>1 DEF Due
  <2>3. ASSUME NEW u \in work', u.req = t.req, NEW n \in DOMAIN u.todo, u.todo[n] = "respond"
        PROVE  FALSE
    <3>1. u = tail
      BY <1>4, <2>3 DEF TasksInv
    <3>2. n + 1 \in DOMAIN t.todo /\ t.todo[n + 1] = "respond" /\ n \in Nat
      BY <1>5, <2>3, <3>1
    <3>3. n \in 1 .. (Len(t.todo) - 1)
      BY <1>2, <1>3, <2>3, <3>1
    <3>4. n + 1 = 1
      BY <2>1, <3>2 DEF TasksInv
    <3> QED
      BY <1>1, <3>3, <3>4
  <2>4. ~Due(t.req)'
    BY <2>3 DEF Due
  <2> QED
    BY <2>2, <2>4
<1> QED
  BY <1>6, <1>7, <1>8

(* A handler's step: respond queues the answer that was due, push and close    *)
(* queue none.                                                                *)
LEMMA WorkerAnswer ==
  ASSUME TypeOK, AnswerInv, NEW t \in work, WorkerStep(t)
  PROVE  AnswerInv'
<1>1. /\ sCmds \in Seq(Commands) /\ DOMAIN sCmds = 1 .. Len(sCmds) /\ Len(sCmds) \in Nat
      /\ DOMAIN accepted = 1 .. Len(accepted) /\ Len(accepted) \in Nat
      /\ t.req \in 1 .. Len(accepted) /\ t.todo \in Seq(ResponderCall) /\ t.todo # <<>>
  BY QueueFacts
<1>2. accepted' = accepted /\ replies' = replies /\ work' = Rest(t)
  BY DEF WorkerStep
<1>3. /\ TasksInv'
      /\ \A r : Due(r)' => Due(r)
      /\ Head(t.todo) = "respond" => Due(t.req) /\ ~Due(t.req)'
  BY <1>2, RestTasks DEF AnswerInv
<1>4. ASSUME NEW g, Matches(g), ~Due(g.for)
      PROVE  Matches(g)' /\ ~Due(g.for)'
  BY <1>2, <1>3, <1>4 DEF Matches
<1>5. \A i \in DOMAIN replies : replies[i].kind = "response" =>
         Matches(replies[i])' /\ ~Due(replies[i].for)'
  BY <1>2, <1>4 DEF AnswerInv, AnsweredInv
<1> DEFINE answer == [op |-> "send", frame |-> MakeResp("response", t.req, accepted[t.req].rid)]
           other == {[op |-> "close"], [op |-> "send", frame |-> MakeResp("push", t.req, 0)]}
<1>6. \/ sCmds' = sCmds
      \/ \E c \in other : sCmds' = Append(sCmds, c)
      \/ Head(t.todo) = "respond" /\ sCmds' = Append(sCmds, answer)
  <2>1. Head(t.todo) \in ResponderCall /\ inTable \in BOOLEAN
    BY <1>1, HeadTailProperties DEF TypeOK, SrvTypeOK
  <2>2. CASE Head(t.todo) = "close"
    BY <2>2 DEF WorkerStep
  <2>3. CASE Head(t.todo) # "close" /\ ~inTable
    BY <2>3 DEF WorkerStep
  <2>4. CASE Head(t.todo) = "respond" /\ inTable
    BY <2>4 DEF WorkerStep
  <2>5. CASE Head(t.todo) = "push" /\ inTable
    BY <2>5 DEF WorkerStep
  <2> QED
    BY <2>1, <2>2, <2>3, <2>4, <2>5 DEF ResponderCall
<1>7. CASE sCmds' = sCmds
  <2>1. \A i \in DOMAIN sCmds : Answers(sCmds[i]) =>
           Matches(sCmds[i].frame)' /\ ~Due(sCmds[i].frame.for)'
    BY <1>4, <1>7 DEF AnswerInv, QueuedInv
  <2>2. QueuedInv'
    BY <1>7, <2>1 DEF AnswerInv, QueuedInv, Answers
  <2>3. AnsweredInv'
    BY <1>2, <1>5, <1>7 DEF AnswerInv, AnsweredInv, Answers
  <2> QED
    BY <1>3, <2>2, <2>3 DEF AnswerInv
<1>8. ASSUME NEW c, c \in Commands, sCmds' = Append(sCmds, c)
      PROVE  /\ DOMAIN sCmds' = 1 .. (Len(sCmds) + 1)
             /\ \A i \in DOMAIN sCmds : sCmds'[i] = sCmds[i]
             /\ sCmds'[Len(sCmds) + 1] = c
             /\ \A i \in DOMAIN sCmds' : i \in DOMAIN sCmds \/ i = Len(sCmds) + 1
  BY <1>1, <1>8, AppendFacts
<1>9. answer \in Commands /\ other \subseteq Commands
  <2>1. accepted[t.req].rid \in U32 /\ t.req \in Nat /\ 0 \in U32
    BY <1>1, WireFacts, WordAssumption DEF SentFrames, U32
  <2>2. /\ MakeResp("response", t.req, accepted[t.req].rid) \in ReplyFrames
        /\ MakeResp("push", t.req, 0) \in ReplyFrames
    BY <2>1, MakeRespType DEF Kinds, TypeOK
  <2> QED
    BY <2>2 DEF Commands
<1>10. ASSUME NEW c \in other, sCmds' = Append(sCmds, c)
       PROVE  AnswerInv'
  <2>1. ~Answers(c)
    BY DEF Answers, MakeResp
  <2>2. /\ \A i \in DOMAIN sCmds : sCmds'[i] = sCmds[i]
        /\ sCmds'[Len(sCmds) + 1] = c
        /\ \A i \in DOMAIN sCmds' : i \in DOMAIN sCmds \/ i = Len(sCmds) + 1
    BY <1>8, <1>9, <1>10
  <2> HIDE DEF other
  <2>3. \A i \in DOMAIN sCmds' : Answers(sCmds'[i]) => i \in DOMAIN sCmds /\ sCmds'[i] = sCmds[i]
    BY <2>1, <2>2
  <2>4. QueuedInv'
    <3>1. \A i, j \in DOMAIN sCmds' :
            Answers(sCmds'[i]) /\ Answers(sCmds'[j]) /\ sCmds'[i].frame.for = sCmds'[j].frame.for
            => i = j
      BY <2>3 DEF AnswerInv, QueuedInv
    <3>2. \A i \in DOMAIN sCmds' : Answers(sCmds'[i]) =>
            Matches(sCmds[i].frame)' /\ ~Due(sCmds[i].frame.for)'
      <4>1. ASSUME NEW i \in DOMAIN sCmds', Answers(sCmds'[i])
            PROVE  Matches(sCmds[i].frame)' /\ ~Due(sCmds[i].frame.for)'
        <5>1. i \in DOMAIN sCmds /\ sCmds'[i] = sCmds[i] /\ Answers(sCmds[i])
          BY <2>3, <4>1
        <5>2. Matches(sCmds[i].frame) /\ ~Due(sCmds[i].frame.for)
          BY <5>1 DEF AnswerInv, QueuedInv
        <5>3. Matches(sCmds[i].frame)'
          BY <1>2, <5>1, <5>2 DEF Matches
        <5>4. ~Due(sCmds[i].frame.for)'
          <6>1. ASSUME Due(sCmds[i].frame.for)'
                PROVE  Due(sCmds[i].frame.for)
            BY <1>3, <5>1, <6>1 DEF Due
          <6> QED
            BY <5>2, <6>1
        <5> QED
          BY <5>3, <5>4
      <4> QED
        BY <4>1
    <3> QED
      BY <3>1, <3>2 DEF QueuedInv, Answers
  <2>5. AnsweredInv'
    <3>1. \A i \in DOMAIN sCmds', j \in DOMAIN replies :
            Answers(sCmds'[i]) /\ replies[j].kind = "response" =>
              sCmds'[i].frame.for # replies[j].for
      BY <2>3 DEF AnswerInv, AnsweredInv
    <3> QED
      BY <1>2, <1>5, <3>1 DEF AnswerInv, AnsweredInv, Answers, Matches, Due
  <2> QED
    BY <1>3, <2>4, <2>5 DEF AnswerInv
<1>11. CASE Head(t.todo) = "respond" /\ sCmds' = Append(sCmds, answer)
  <2>1. /\ answer.op = "send" /\ answer.frame.kind = "response" /\ answer.frame.for = t.req
        /\ answer.frame.rid = accepted[t.req].rid
    BY DEF MakeResp
  <2> HIDE DEF answer
  <2>2. /\ \A i \in DOMAIN sCmds : sCmds'[i] = sCmds[i]
        /\ sCmds'[Len(sCmds) + 1] = answer
        /\ \A i \in DOMAIN sCmds' : i \in DOMAIN sCmds \/ i = Len(sCmds) + 1
    BY <1>8, <1>9, <1>11
  <2>3. Due(t.req) /\ ~Due(t.req)'
    BY <1>3, <1>11
  <2>4. /\ \A i \in DOMAIN sCmds : Answers(sCmds[i]) => sCmds[i].frame.for # t.req
        /\ \A i \in DOMAIN replies : replies[i].kind = "response" => replies[i].for # t.req
    BY <2>3 DEF AnswerInv, QueuedInv, AnsweredInv
  <2>5. QueuedInv'
    <3>1. \A i, j \in DOMAIN sCmds' :
            Answers(sCmds'[i]) /\ Answers(sCmds'[j]) /\ sCmds'[i].frame.for = sCmds'[j].frame.for
            => i = j
      <4>1. \A i, j \in DOMAIN sCmds :
              Answers(sCmds[i]) /\ Answers(sCmds[j]) /\ sCmds[i].frame.for = sCmds[j].frame.for
              => i = j
        BY DEF AnswerInv, QueuedInv
      <4> QED
        BY <2>1, <2>2, <2>4, <4>1
    <3>2. ASSUME NEW i \in DOMAIN sCmds', Answers(sCmds'[i])
          PROVE  /\ sCmds'[i].frame.for \in DOMAIN accepted
                 /\ sCmds'[i].frame.rid = accepted[sCmds'[i].frame.for].rid
                 /\ \A u \in work' : u.req = sCmds'[i].frame.for =>
                      \A n \in DOMAIN u.todo : u.todo[n] # "respond"
      <4>1. CASE i \in DOMAIN sCmds
        <5>1. sCmds'[i] = sCmds[i] /\ Answers(sCmds[i])
          BY <2>2, <3>2, <4>1
        <5>2. Matches(sCmds[i].frame) /\ ~Due(sCmds[i].frame.for)
          BY <4>1, <5>1 DEF AnswerInv, QueuedInv
        <5>3. \A r : ~Due(r) => \A u \in work' : u.req = r =>
                \A n \in DOMAIN u.todo : u.todo[n] # "respond"
          BY <1>3 DEF Due
        <5> QED
          BY <5>1, <5>2, <5>3 DEF Matches
      <4>2. CASE i = Len(sCmds) + 1
        <5>1. sCmds'[i] = answer
          BY <2>2, <4>2
        <5>2. \A u \in work' : u.req = t.req => \A n \in DOMAIN u.todo : u.todo[n] # "respond"
          BY <1>2, <2>3 DEF Due
        <5> QED
          BY <1>1, <2>1, <5>1, <5>2
      <4> QED
        BY <2>2, <4>1, <4>2
    <3> QED
      BY <1>2, <3>1, <3>2 DEF QueuedInv, Answers, Matches, Due
  <2>6. AnsweredInv'
    <3>1. \A i \in DOMAIN sCmds', j \in DOMAIN replies :
            Answers(sCmds'[i]) /\ replies[j].kind = "response" =>
              sCmds'[i].frame.for # replies[j].for
      <4>1. \A i \in DOMAIN sCmds, j \in DOMAIN replies :
              Answers(sCmds[i]) /\ replies[j].kind = "response" => sCmds[i].frame.for # replies[j].for
        BY DEF AnswerInv, AnsweredInv
      <4> QED
        BY <2>1, <2>2, <2>4, <4>1
    <3> QED
      BY <1>2, <1>5, <3>1 DEF AnswerInv, AnsweredInv, Answers, Matches, Due
  <2> QED
    BY <1>3, <2>5, <2>6 DEF AnswerInv
<1> QED
  BY <1>6, <1>7, <1>10, <1>11

(* Every step keeps the requests and their answers apart.                     *)
LEMMA AnswerStep ==
  ASSUME TypeOK, DeliveryInv, AnswerInv, RespondOnce, [Next]_vars
  PROVE  AnswerInv'
<1>1. CASE ServerLoop
  <2>1. CASE ServerAccept
    <3> DEFINE f == sent[c2s[sDone + 1]]
    <3>1. f \in SentFrames
      <4>1. /\ c2s[sDone + 1] = Len(accepted) + 1 /\ Len(accepted) + 1 <= Len(sent)
        BY <2>1, AcceptsSuccessor
      <4>2. Len(accepted) + 1 \in 1 .. Len(sent)
        BY <4>1, WireFacts
      <4> QED
        BY <4>1, <4>2, WireFacts
    <3>2. /\ accepted' = Append(accepted, f) /\ UNCHANGED <<sCmds, replies>>
          /\ \E h \in Handlers :
               work' = IF h = <<>> THEN work ELSE work \cup {[req |-> Len(accepted'), todo |-> h]}
      BY <2>1 DEF ServerAccept
    <3>3. PICK h \in Handlers :
            work' = IF h = <<>> THEN work ELSE work \cup {[req |-> Len(accepted'), todo |-> h]}
      BY <3>2
    <3> HIDE DEF f
    <3> QED
      BY <3>1, <3>2, <3>3, TaskStep
  <2>2. CASE ServerSend
    <3>1. /\ Head(sCmds) \in Commands /\ Head(sCmds).op = "send" /\ sCmds # <<>>
          /\ sCmds' = Tail(sCmds) /\ UNCHANGED <<work, accepted>>
      BY <2>2, HeadTailProperties DEF ServerSend, TypeOK, SrvTypeOK
    <3>2. CASE sState # "ACTIVE"
      <4>1. replies' = replies
        BY <2>2, <3>2 DEF ServerSend
      <4> QED
        BY <3>1, <4>1, AnswerStays
    <3>3. CASE sState = "ACTIVE"
      <4> DEFINE frame == Head(sCmds).frame
                 f == [frame EXCEPT !.fid = WireFid(@, sFid')]
      <4>1. frame \in ReplyFrames
        BY <3>1 DEF Commands
      <4>2. SendFrame(frame)
        BY <2>2, <3>3 DEF ServerSend
      <4>3. sFid' \in U32
        BY <4>1, <4>2, SendFrameFacts
      <4> HIDE DEF frame
      <4>4. /\ f \in ReplyFrames /\ f.kind = frame.kind /\ f.for = frame.for /\ f.rid = frame.rid
            /\ replies' = Append(replies, f)
        BY <4>1, <4>2, <4>3 DEF SendFrame, ReplyFrames, WireFid
      <4> HIDE DEF f
      <4>5. CASE frame.kind = "response"
        <5>1. Answers(Head(sCmds))
          BY <3>1, <4>5 DEF Answers, frame
        <5> QED
          BY <3>1, <4>4, <4>5, <5>1, AnswerSent DEF frame
      <4>6. CASE frame.kind # "response"
        BY <3>1, <4>4, <4>6, AnswerStays
      <4> QED
        BY <4>5, <4>6
    <3> QED
      BY <3>2, <3>3
  <2>3. CASE ServerHandshake \/ ServerReadFails \/ ServerReject
    <3>1. UNCHANGED <<work, accepted, sCmds>>
      BY <2>3 DEF ServerHandshake, ServerReadFails, ServerReject
    <3>2. SendRefused \/ \E frame \in ReplyFrames : frame.kind # "response" /\ SendFrame(frame)
      <4>1. MakeResp("notice", 0, 0) \in ReplyFrames /\ MakeResp("secured", 0, 0) \in ReplyFrames
        BY MakeRespType, WordAssumption DEF TypeOK, Kinds, U32
      <4>2. MakeResp("notice", 0, 0).kind = "notice"
        BY DEF MakeResp
      <4>3. CASE ServerReadFails \/ ServerReject
        <5>1. SendFrame(MakeResp("notice", 0, 0)) \/ SendRefused
          BY <4>3 DEF ServerReadFails, ServerReject, Reject
        <5> QED
          BY <4>1, <4>2, <5>1
      <4>4. CASE ServerHandshake
        <5> DEFINE f == [MakeResp("secured", 0, 0) EXCEPT !.ssid = sSsid']
        <5>1. f \in ReplyFrames
          BY <4>1, <4>4 DEF ServerHandshake, ReplyFrames, Ssids
        <5>2. f.kind = "secured"
          BY DEF MakeResp
        <5>3. SendFrame(f)
          BY <4>4 DEF ServerHandshake
        <5> HIDE DEF f
        <5> QED
          BY <5>1, <5>2, <5>3
      <4> QED
        BY <2>3, <4>3, <4>4
    <3>3. replies' = replies \/ \E f \in ReplyFrames : f.kind # "response" /\ replies' = Append(replies, f)
      <4>1. CASE SendRefused
        BY <4>1, RefusedFacts
      <4>2. CASE ~SendRefused
        <5>1. PICK frame \in ReplyFrames : frame.kind # "response" /\ SendFrame(frame)
          BY <3>2, <4>2
        <5> DEFINE f == [frame EXCEPT !.fid = WireFid(@, sFid')]
        <5>2. sFid' \in U32
          BY <5>1, SendFrameFacts
        <5>3. f \in ReplyFrames /\ f.kind = frame.kind /\ replies' = Append(replies, f)
          BY <5>1, <5>2 DEF SendFrame, ReplyFrames, WireFid
        <5> HIDE DEF f
        <5> QED
          BY <5>1, <5>3
      <4> QED
        BY <4>1, <4>2
    <3> QED
      BY <3>1, <3>3, AnswerStays
  <2>6. CASE ServerSendRefused
    <3>1. UNCHANGED <<work, accepted>> /\ sCmds # <<>> /\ sCmds' = Tail(sCmds) /\ SendRefused
      BY <2>6 DEF ServerSendRefused
    <3>2. replies' = replies \/ \E f \in ReplyFrames : f.kind # "response" /\ replies' = Append(replies, f)
      BY <3>1, RefusedFacts
    <3> QED
      BY <3>1, <3>2, AnswerStays
  <2>4. CASE ServerClose \/ ServerUnknown
    BY <2>4, AnswerStays DEF ServerClose, ServerUnknown
  <2>5. CASE \/ ServerHandshakeFails \/ ServerRead \/ ServerHangup \/ ServerWake
             \/ ServerSendFails \/ ServerDrained
    BY <2>5, AnswerStays DEF ServerHandshakeFails, ServerRead, ServerHangup, ServerWake,
       ServerSendFails, ServerDrained
  <2> QED
    BY <1>1, <2>1, <2>2, <2>3, <2>4, <2>5, <2>6 DEF ServerLoop
<1>2. CASE UNCHANGED vars
  BY <1>2, AnswerStays DEF vars, srvVars
<1>3. CASE \E u \in Callers : CallStep(u)
  BY <1>3, AnswerStays DEF CallStep, srvVars
<1>4. CASE OwnerClose \/ ClientLoop \/ ClientExit \/ Tick \/ RepeatRequest \/ RepeatReply
  BY <1>4, AnswerStays DEF OwnerClose, ClientLoop, ClientExit, Tick, RepeatRequest, RepeatReply,
     srvVars
<1>5. CASE Workers
  BY <1>5, WorkerAnswer DEF Workers
<1> QED
  BY <1>1, <1>2, <1>3, <1>4, <1>5 DEF Next

(* onResponse is never given a reply twice: the number it compares with only   *)
(* grows.                                                                     *)
LEMMA GotOnceStep ==
  ASSUME TypeOK, DeliveryInv, ReplyFidInv, ReplyStreamInv, GotOnceInv, [Next]_vars
  PROVE  GotOnceInv'
<1>1. /\ Len(replies) \in Nat /\ Len(replies') \in Nat /\ Len(replies) <= Len(replies')
      /\ \A i \in 1 .. Len(replies) : replies'[i] = replies[i]
      /\ DOMAIN replies = 1 .. Len(replies)
  BY ReplyStreamStep, WireFacts
<1>2. DOMAIN replies' = 1 .. Len(replies')
  BY InvStep DEF TypeOK, HistTypeOK
<1>3. \A i \in DOMAIN replies : i \in DOMAIN replies' /\ replies'[i] = replies[i]
  BY <1>1, <1>2
<1>4. CASE got' = got /\ lastSrvFid' = lastSrvFid
  BY <1>3, <1>4 DEF GotOnceInv
<1>5. CASE ClientDeliver
  <2> DEFINE k == s2c[cDone + 1]
  <2>1. cDone + 1 \in 1 .. Len(s2c)
    <3>1. /\ cParsed \in 0 .. Len(s2c) /\ cDone \in 0 .. cParsed /\ cDone < cParsed
      BY <1>5 DEF ClientDeliver, TypeOK, WireTypeOK
    <3>2. Len(s2c) \in Nat
      BY WireFacts
    <3> QED
      BY <3>1, <3>2
  <2>2. k \in 1 .. Len(replies)
    BY <2>1, WireFacts
  <2>3. /\ replies[k].fid > lastSrvFid /\ lastSrvFid' = replies[k].fid /\ got' = Append(got, k)
    BY <1>5 DEF ClientDeliver, ReplyValid
  <2> HIDE DEF k
  <2>4. k \in Nat /\ got \in Seq(Nat)
    BY <1>1, <2>2 DEF TypeOK, HistTypeOK
  <2>5. /\ DOMAIN got = 1 .. Len(got) /\ DOMAIN got' = 1 .. (Len(got) + 1) /\ Len(got) \in Nat
        /\ \A i \in 1 .. Len(got) : got'[i] = got[i]
        /\ got'[Len(got) + 1] = k
    BY <2>3, <2>4, AppendFacts
  <2>6. \A i \in DOMAIN got' : \/ i \in DOMAIN got /\ got'[i] = got[i]
                               \/ i = Len(got) + 1 /\ got'[i] = k
    BY <2>5
  <2>7. /\ replies[k].fid \in Nat /\ lastSrvFid \in Nat
        /\ \A i \in DOMAIN got : replies[got[i]].fid \in Nat
    <3>1. \A i \in DOMAIN replies : replies[i].fid \in Nat
      BY <1>1, WireFacts, WordAssumption DEF ReplyFrames, U32
    <3>2. lastSrvFid \in Nat
      BY WordAssumption DEF TypeOK, CliTypeOK, U32
    <3> QED
      BY <1>1, <2>2, <3>1, <3>2 DEF GotOnceInv
  <2>8. \A i \in DOMAIN got : replies[got[i]].fid < replies[k].fid
    BY <2>3, <2>7 DEF GotOnceInv
  <2>9. ASSUME NEW i \in DOMAIN got'
        PROVE  got'[i] \in DOMAIN replies' /\ replies'[got'[i]].fid <= lastSrvFid'
    <3>1. CASE i \in DOMAIN got /\ got'[i] = got[i]
      <4>1. got[i] \in DOMAIN replies
        BY <3>1 DEF GotOnceInv
      <4>2. replies[got[i]].fid <= replies[k].fid
        BY <2>7, <2>8, <3>1
      <4> QED
        BY <1>3, <2>3, <3>1, <4>1, <4>2
    <3>2. CASE got'[i] = k
      <4>1. k \in DOMAIN replies
        BY <1>1, <2>2
      <4> QED
        BY <1>3, <2>3, <2>7, <3>2, <4>1
    <3> QED
      BY <2>6, <3>1, <3>2
  <2>10. \A i \in DOMAIN got : got[i] # k
    BY <2>7, <2>8
  <2>11. \A i, j \in DOMAIN got' : got'[i] = got'[j] => i = j
    BY <2>6, <2>10 DEF GotOnceInv
  <2> QED
    BY <2>9, <2>11 DEF GotOnceInv
<1>6. CASE ClientLoop /\ ~ClientDeliver
  <2>1. got' = got /\ lastSrvFid' = lastSrvFid
    BY <1>6 DEF ClientLoop, ClientHandshake, ClientWake, ClientCommand, ClientDrained, ClientRead,
       ClientReject, ClientHangup, ClientLoopExit
  <2> QED
    BY <1>4, <2>1
<1>7. CASE UNCHANGED vars
  BY <1>4, <1>7 DEF vars, cliVars
<1>8. CASE \E u \in Callers : CallStep(u)
  <2>1. PICK u \in Callers : CallStep(u)
    BY <1>8
  <2> QED
    BY <1>4, <2>1 DEF CallStep, SendBegin, SendMake, SendPush
<1>9. CASE OwnerClose \/ ClientExit \/ Tick \/ RepeatRequest \/ RepeatReply
  BY <1>4, <1>9 DEF OwnerClose, ClientExit, Tick, RepeatRequest, RepeatReply, cliVars
<1>10. CASE ServerLoop
  BY <1>4, <1>10 DEF ServerLoop, cliVars
<1>11. CASE Workers
  BY <1>4, <1>11 DEF Workers, WorkerStep, cliVars
<1> QED
  BY <1>5, <1>6, <1>7, <1>8, <1>9, <1>10, <1>11 DEF Next

(* When every handler responds at most once, a response handed to onResponse   *)
(* answers a request the server accepted, under its rid, and no other response *)
(* handed to it answers the same request.                                     *)
THEOREM AnswersAreMatched ==
  ASSUME RespondOnce
  PROVE  Spec => []AnswersMatch
<1>1. Init => ReplyFidInv /\ ReplyStreamInv /\ AnswerInv /\ GotOnceInv
  <2>1. ASSUME Init
        PROVE  ReplyFidInv /\ ReplyStreamInv /\ AnswerInv /\ GotOnceInv
    <3>1. replies = <<>> /\ s2c = <<>> /\ got = <<>> /\ sCmds = <<>> /\ work = {} /\ sFid = 0
      BY <2>1 DEF Init
    <3>2. DOMAIN replies = {} /\ DOMAIN s2c = {} /\ DOMAIN got = {} /\ DOMAIN sCmds = {}
      BY <3>1
    <3>3. ReplyFidInv
      BY <3>1, <3>2 DEF ReplyFidInv
    <3>4. ReplyStreamInv /\ GotOnceInv
      BY <3>2 DEF ReplyStreamInv, GotOnceInv
    <3>5. AnswerInv
      BY <3>1, <3>2 DEF AnswerInv, TasksInv, QueuedInv, AnsweredInv
    <3> QED
      BY <3>3, <3>4, <3>5
  <2> QED
    BY <2>1
<1>2. TypeOK /\ DeliveryInv /\ ReplyFidInv /\ ReplyStreamInv /\ AnswerInv /\ GotOnceInv /\ [Next]_vars
        => (TypeOK /\ DeliveryInv /\ ReplyFidInv /\ ReplyStreamInv /\ AnswerInv /\ GotOnceInv)'
  BY InvStep, ReplyFidStep, ReplyStreamStep, AnswerStep, GotOnceStep
<1>3. AnswerInv /\ GotOnceInv => AnswersMatch
  BY DEF AnswerInv, AnsweredInv, GotOnceInv, Matches, AnswersMatch
<1> QED BY <1>1, <1>2, <1>3, InvInit, PTL DEF Spec

------------------------------------------------------------------------------
(* Why the server ends                                                        *)

\* For ServerEndsForCause: why a connection is no longer in the table, and what
\* the client's first frame on the wire is.
EndInv ==
  /\ ~inTable => ClientClosed \/ badPos # 0
  /\ cAt = "start" => c2s = <<>> /\ cState # "CONNECTED"
  /\ cAt \notin {"start", "gone"} => c2s # <<>>
  /\ c2s # <<>> /\ c2s[1] # 0 => cState = "CLOSED"

(* A client that has closed its socket, or ended, never comes back, and _state *)
(* is CLOSED for good.                                                        *)
LEMMA ClosedStays ==
  ASSUME [Next]_vars
  PROVE  /\ ClientClosed => ClientClosed'
         /\ cState = "CLOSED" => cState' = "CLOSED"
<1>1. CASE ClientLoop
  BY <1>1 DEF ClientLoop, ClientHandshake, ClientWake, ClientCommand, ClientDrained, ClientRead,
     ClientDeliver, ClientReject, ClientHangup, ClientLoopExit, ClientClosed
<1>2. CASE ServerLoop
  BY <1>2 DEF ServerLoop, cliVars, ClientClosed
<1>3. CASE UNCHANGED vars
  BY <1>3 DEF vars, cliVars, ClientClosed
<1>4. CASE \E u \in Callers : CallStep(u)
  BY <1>4 DEF CallStep, SendBegin, SendMake, SendPush, ClientClosed
<1>5. CASE OwnerClose \/ ClientExit \/ Tick \/ RepeatRequest \/ RepeatReply
  BY <1>5 DEF OwnerClose, ClientExit, Tick, RepeatRequest, RepeatReply, cliVars, ClientClosed
<1>6. CASE Workers
  BY <1>6 DEF Workers, WorkerStep, cliVars, ClientClosed
<1> QED
  BY <1>1, <1>2, <1>3, <1>4, <1>5, <1>6 DEF Next

(* A rejection is at a position of the wire, and stays.                        *)
LEMMA BadPosStays ==
  ASSUME TypeOK, [Next]_vars, badPos # 0
  PROVE  badPos' # 0
<1>1. sParsed \in Nat /\ sDone \in Nat
  BY DEF TypeOK, WireTypeOK
<1>2. CASE ServerLoop
  <2>1. CASE ServerReadFails
    BY <1>1, <2>1 DEF ServerReadFails, Reject
  <2>2. CASE ServerReject
    BY <1>1, <2>2 DEF ServerReject, Reject
  <2>3. CASE ~ServerReadFails /\ ~ServerReject
    BY <1>2, <2>3 DEF ServerLoop, ServerHandshake, ServerHandshakeFails, ServerRead,
       ServerAccept, ServerHangup, ServerWake, ServerSend, ServerSendRefused, ServerSendFails,
       ServerClose,
       ServerUnknown, ServerDrained
  <2> QED
    BY <2>1, <2>2, <2>3
<1>3. CASE UNCHANGED vars
  BY <1>3 DEF vars
<1>4. CASE \E u \in Callers : CallStep(u)
  BY <1>4 DEF CallStep
<1>5. CASE OwnerClose \/ ClientLoop \/ ClientExit \/ Tick \/ RepeatRequest \/ RepeatReply
  BY <1>5 DEF OwnerClose, ClientLoop, ClientExit, Tick, RepeatRequest, RepeatReply
<1>6. CASE Workers
  BY <1>6 DEF Workers, WorkerStep
<1> QED
  BY <1>2, <1>3, <1>4, <1>5, <1>6 DEF Next

(* EndInv is kept.                                                             *)
LEMMA EndStep ==
  ASSUME TypeOK, DeliveryInv, EndInv, [Next]_vars
  PROVE  EndInv'
<1>1. ~inTable' => ClientClosed' \/ badPos' # 0
  <2>1. CASE ~inTable
    BY <2>1, ClosedStays, BadPosStays DEF EndInv
  <2>2. CASE ServerLoop /\ inTable
    <3>1. sParsed \in Nat /\ sDone \in Nat
      BY DEF TypeOK, WireTypeOK
    <3>2. CASE ServerReadFails
      BY <3>1, <3>2 DEF ServerReadFails, Reject
    <3>3. CASE ServerReject
      BY <3>1, <3>3 DEF ServerReject, Reject
    <3>4. CASE ServerHangup
      BY <3>4, ClosedStays DEF ServerHangup
    <3>5. CASE ~ServerReadFails /\ ~ServerReject /\ ~ServerHangup
      BY <2>2, <3>5 DEF ServerLoop, ServerHandshake, ServerHandshakeFails, ServerRead,
         ServerAccept, ServerWake, ServerSend, ServerSendRefused, ServerSendFails, ServerClose,
         ServerUnknown, ServerDrained
    <3> QED
      BY <3>2, <3>3, <3>4, <3>5
  <2>3. CASE ~ServerLoop /\ inTable
    <3>1. inTable' = inTable
      BY <2>3 DEF Next, vars, srvVars, CallStep, OwnerClose, ClientLoop, ClientExit, Tick,
         RepeatRequest, RepeatReply, Workers, WorkerStep
    <3> QED
      BY <2>3, <3>1
  <2> QED
    BY <2>1, <2>2, <2>3 DEF TypeOK, SrvTypeOK
<1>2. /\ Len(c2s) \in Nat /\ Len(c2s') \in Nat /\ Len(c2s) <= Len(c2s')
      /\ (c2s = <<>> <=> Len(c2s) = 0) /\ (c2s' = <<>> <=> Len(c2s') = 0)
      /\ Len(c2s) > 0 => c2s'[1] = c2s[1]
  <2>1. c2s \in Seq(Nat) /\ c2s' \in Seq(Nat)
    BY InvStep DEF TypeOK, WireTypeOK
  <2>2. \A s \in Seq(Nat) : Len(s) \in Nat /\ (s = <<>> <=> Len(s) = 0)
    OBVIOUS
  <2>3. Len(c2s) > 0 => 1 \in 1 .. Len(c2s)
    BY <2>1, <2>2
  <2> QED
    BY <2>1, <2>2, <2>3, WiresGrow
<1>3. ASSUME UNCHANGED <<cAt, c2s>>, cState' \in {cState, "CLOSED"}
      PROVE  EndInv'
  BY <1>1, <1>3, ClosedStays DEF EndInv
<1>4. CASE ClientLoop
  <2>1. CASE ClientHandshake
    <3>1. c2s = <<>> /\ cAt' = "wait" /\ cState' = cState
      BY <2>1 DEF ClientHandshake, EndInv
    <3>2. CASE cState = "HANDSHAKE"
      <4>1. c2s' = <<0>>
        BY <2>1, <3>1, <3>2 DEF ClientHandshake
      <4> QED
        BY <1>1, <3>1, <4>1 DEF EndInv
    <3>3. CASE cState # "HANDSHAKE"
      <4>1. cState = "CLOSED"
        BY <2>1, <3>3 DEF ClientHandshake, EndInv, TypeOK, CliTypeOK
      <4>2. c2s' = Append(c2s, Len(sent')) /\ c2s' # <<>>
        BY <2>1, <3>1, <3>3, SMTT(20) DEF ClientHandshake, Transmit
      <4> QED
        BY <1>1, <3>1, <4>1, <4>2 DEF EndInv
    <3> QED
      BY <3>2, <3>3
  <2>2. CASE \/ ClientWake \/ ClientCommand \/ ClientDrained \/ ClientRead \/ ClientDeliver
             \/ ClientReject \/ ClientHangup \/ ClientLoopExit
    <3>1. cAt \in {"wait", "drain", "deliver"} /\ cAt' # "start"
      BY <2>2 DEF ClientWake, ClientCommand, ClientDrained, ClientRead, ClientDeliver,
         ClientReject, ClientHangup, ClientLoopExit, After
    <3>2. c2s # <<>> /\ c2s' # <<>> /\ c2s'[1] = c2s[1]
      BY <1>2, <3>1 DEF EndInv
    <3> QED
      BY <1>1, <3>1, <3>2, ClosedStays DEF EndInv
  <2> QED
    BY <1>4, <2>1, <2>2 DEF ClientLoop
<1>5. CASE ServerLoop
  BY <1>3, <1>5 DEF ServerLoop, cliVars
<1>6. CASE UNCHANGED vars
  BY <1>3, <1>6 DEF vars, cliVars
<1>7. CASE \E u \in Callers : CallStep(u)
  BY <1>3, <1>7 DEF CallStep, SendBegin, SendMake, SendPush
<1>8. CASE OwnerClose \/ Tick \/ RepeatReply \/ Workers
  BY <1>3, <1>8 DEF OwnerClose, Tick, RepeatReply, Workers, WorkerStep, cliVars
<1>9. CASE ClientExit
  <2>1. cAt' = "gone" /\ c2s' = c2s
    BY <1>9 DEF ClientExit
  <2> QED
    BY <1>1, <2>1, ClosedStays DEF EndInv
<1>10. CASE RepeatRequest
  <2>1. cAt' = cAt /\ c2s # <<>>
    BY <1>10 DEF RepeatRequest, cliVars
  <2>2. cAt # "start" /\ c2s' # <<>> /\ c2s'[1] = c2s[1]
    BY <1>2, <2>1 DEF EndInv
  <2> QED
    BY <1>1, <2>1, <2>2, ClosedStays DEF EndInv
<1> QED
  BY <1>4, <1>5, <1>6, <1>7, <1>8, <1>9, <1>10 DEF Next

(* A step at which the server ends is one of three, and has one of the causes. *)
LEMMA DownStep ==
  ASSUME TypeOK, EndInv, [Next]_vars, sAt # "down", sAt' = "down"
  PROVE  \/ ClientClosed \/ cParsed < Len(s2c)
         \/ badPos # 0 /\ ~ErrHandled
         \/ sState = "HANDSHAKE" /\ (~Fresh \/ (c2s[1] # 0 /\ cState = "CLOSED"))
<1>1. ServerLoop
  BY DEF Next, vars, srvVars, CallStep, OwnerClose, ClientLoop, ClientExit, Tick, RepeatRequest,
     RepeatReply, Workers, WorkerStep
<1>2. CASE ServerHandshakeFails
  <2>1. c2s # <<>>
    BY <1>2 DEF ServerHandshakeFails, TypeOK, WireTypeOK
  <2> QED
    BY <1>2, <2>1 DEF ServerHandshakeFails, EndInv
<1>3. CASE ServerSendFails
  BY <1>3 DEF ServerSendFails
<1>4. CASE ServerUnknown
  BY <1>4 DEF ServerUnknown, EndInv
<1>5. CASE \/ ServerHandshake \/ ServerRead \/ ServerReadFails \/ ServerAccept \/ ServerReject
           \/ ServerHangup \/ ServerWake \/ ServerSend \/ ServerSendRefused \/ ServerClose
           \/ ServerDrained
  BY <1>5 DEF ServerHandshake, ServerRead, ServerReadFails, ServerAccept, ServerReject,
     ServerHangup, ServerWake, ServerSend, ServerSendRefused, ServerClose, ServerDrained, Reject,
     After
<1> QED
  BY <1>1, <1>2, <1>3, <1>4, <1>5 DEF ServerLoop

(* The server process ends only at a step at which the client has left or is   *)
(* behind with reading, at a client closed before its hello or a hello that is *)
(* not fresh, or, with setOnError's default, at a command for a session that   *)
(* was refused; a handler's own close, and a late command after it, is none.   *)
THEOREM EndsHaveCause == Spec => ServerEndsForCause
<1>1. Init => EndInv
  BY DEF Init, EndInv
<1>2. TypeOK /\ DeliveryInv /\ EndInv /\ [Next]_vars => (TypeOK /\ DeliveryInv /\ EndInv)'
  BY InvStep, EndStep
<1>3. TypeOK /\ EndInv /\ [Next]_vars =>
        (sAt # "down" /\ sAt' = "down" =>
           \/ ClientClosed \/ cParsed < Len(s2c)
           \/ badPos # 0 /\ ~ErrHandled
           \/ sState = "HANDSHAKE" /\ (~Fresh \/ (c2s[1] # 0 /\ cState = "CLOSED")))
  BY DownStep
<1> QED BY <1>1, <1>2, <1>3, InvInit, PTL DEF Spec, ServerEndsForCause

------------------------------------------------------------------------------
(* What a rid names                                                           *)

\* The frames caller u has made and the connection has not dropped, from the
\* first that was sent to the one in its hands, and how many are not yet numbered.
Pending(u) == Len(cmds) + (IF call[u].pc = "made" THEN 1 ELSE 0)
MadeCount(u) == Len(sent) + Pending(u)

MadeFrame(u, n) ==
  IF n <= Len(sent) THEN [rid |-> sent[n].rid, ssid |-> sent[n].ssid]
  ELSE IF n <= Len(sent) + Len(cmds) THEN cmds[n - Len(sent)]
  ELSE call[u].frame

\* The lead of a frame that was sent, or that it will have if those before it go
\* out or are refused, and the lead the next frame will be made with.
MadeLead(u, n) ==
  IF n <= Len(sent) THEN Lead(sent[n])
  ELSE (MadeFrame(u, n).rid - (cFid + (n - Len(sent)))) % Word

Ahead(u) == (cRid - (cFid + Pending(u))) % Word

\* Before the session id is known every frame is made without one.
EarlyInv(u) ==
  /\ cState = "HANDSHAKE" \/ cAt = "start" => cSsid = 0
  /\ cSsid = 0 => \A n \in 1 .. MadeCount(u) : MadeFrame(u, n).ssid = 0

\* From the first frame that carries it on, a caller that is alone makes all its
\* frames with the same lead.
LeadInv(u) ==
  \A i \in 1 .. MadeCount(u) : MadeFrame(u, i).ssid # 0 =>
    /\ MadeLead(u, i) = Ahead(u)
    /\ call[u].pc = "loaded" => call[u].frame.rid = cRid

\* What is accepted carries the session id.
AcceptedSsid == \A i \in DOMAIN accepted : accepted[i].ssid = SessionId

(* A remainder is the only one.                                                *)
LEMMA OneRemainder ==
  ASSUME NEW p \in Int, NEW q \in Int, NEW a \in 0 .. (Word - 1), NEW b \in 0 .. (Word - 1),
         Word * p + a = Word * q + b
  PROVE  a = b
<1>1. Word \in Nat /\ Word > 2
  BY WordAssumption
<1>2. PICK e \in Int : e = p - q
  OBVIOUS
<1>3. Word * e = b - a
  BY <1>1, <1>2
<1>4. CASE e >= 1
  <2>1. Word * e >= Word
    BY <1>1, <1>4
  <2> QED
    BY <1>1, <1>3, <2>1
<1>5. CASE e <= -1
  <2>1. Word * e <= 0 - Word
    BY <1>1, <1>5
  <2> QED
    BY <1>1, <1>3, <2>1
<1>6. CASE e = 0
  BY <1>1, <1>3, <1>6
<1> QED
  BY <1>4, <1>5, <1>6

(* What % is.                                                                  *)
LEMMA ModFacts ==
  ASSUME NEW x \in Int
  PROVE  x % Word \in 0 .. (Word - 1) /\ x \div Word \in Int /\ x = Word * (x \div Word) + (x % Word)
BY WordAssumption

(* A whole turn of the counter does not matter.                                *)
LEMMA TurnFacts ==
  ASSUME NEW x \in Int
  PROVE  (x + Word) % Word = x % Word
<1> DEFINE y == x + Word
<1>1. Word \in Nat /\ y \in Int
  BY WordAssumption
<1>2. x % Word \in 0 .. (Word - 1) /\ x \div Word \in Int /\ x = Word * (x \div Word) + (x % Word)
  BY ModFacts
<1>3. y % Word \in 0 .. (Word - 1) /\ y \div Word \in Int /\ y = Word * (y \div Word) + (y % Word)
  BY <1>1, ModFacts
<1>4. Word * ((x \div Word) + 1) + (x % Word) = Word * (y \div Word) + (y % Word)
  BY <1>1, <1>2, <1>3
<1> HIDE DEF y
<1>5. x % Word = y % Word
  <2>1. (x \div Word) + 1 \in Int
    BY <1>2
  <2> QED
    BY <1>2, <1>3, <1>4, <2>1, OneRemainder
<1> QED
  BY <1>5 DEF y

(* The one counter goes on with one more frame pending, or the other with one  *)
(* less: the lead stays.                                                       *)
LEMMA LeadStays ==
  ASSUME NEW rid \in U32, NEW fid \in U32, NEW k \in Nat
  PROVE  /\ (Succ(rid) - (fid + (k + 1))) % Word = (rid - (fid + k)) % Word
         /\ (rid - (Succ(fid) + k)) % Word = (rid - (fid + (k + 1))) % Word
<1>1. Word \in Nat /\ rid \in Nat /\ fid \in Nat /\ rid < Word /\ fid < Word
  BY WordAssumption DEF U32
<1>2. (Succ(rid) - (fid + (k + 1))) % Word = (rid - (fid + k)) % Word
  <2>1. CASE rid + 1 < Word
    <3>1. Succ(rid) - (fid + (k + 1)) = rid - (fid + k)
      BY <1>1, <2>1, SuccFacts
    <3> QED
      BY <3>1
  <2>2. CASE rid + 1 = Word
    <3> DEFINE x == 0 - (fid + (k + 1))
    <3>1. x \in Int /\ Succ(rid) - (fid + (k + 1)) = x /\ rid - (fid + k) = x + Word
      BY <1>1, <2>2, SuccFacts
    <3> HIDE DEF x
    <3> QED
      BY <3>1, TurnFacts
  <2> QED
    BY <1>1, <2>1, <2>2
<1>3. (rid - (Succ(fid) + k)) % Word = (rid - (fid + (k + 1))) % Word
  <2>1. CASE fid + 1 < Word
    <3>1. rid - (Succ(fid) + k) = rid - (fid + (k + 1))
      BY <1>1, <2>1, SuccFacts
    <3> QED
      BY <3>1
  <2>2. CASE fid + 1 = Word
    <3> DEFINE x == rid - (fid + (k + 1))
    <3>1. x \in Int /\ rid - (Succ(fid) + k) = x + Word
      BY <1>1, <2>2, SuccFacts
    <3> HIDE DEF x
    <3>2. (x + Word) % Word = x % Word
      BY <3>1, TurnFacts
    <3> QED
      BY <3>1, <3>2 DEF x
  <2> QED
    BY <1>1, <2>1, <2>2
<1> QED
  BY <1>2, <1>3

(* The frames made are frames, and where each of them is.                      *)
LEMMA MadeFacts ==
  ASSUME TypeOK, NEW u \in Callers
  PROVE  /\ Len(sent) \in Nat /\ Len(cmds) \in Nat /\ MadeCount(u) \in Nat
         /\ \A n \in 1 .. Len(sent) : sent[n] \in SentFrames
         /\ \A n \in 1 .. Len(cmds) : cmds[n] \in Frames
         /\ call[u].frame \in Frames
         /\ \A n \in 1 .. MadeCount(u) : MadeFrame(u, n) \in Frames
         /\ Len(sent) + Len(cmds) <= MadeCount(u)
<1>1. /\ sent \in Seq(SentFrames) /\ cmds \in Seq(Frames)
      /\ call[u] \in [pc : {"idle", "loaded", "made"}, frame : Frames]
  BY DEF TypeOK, CliTypeOK, HistTypeOK
<1>2. /\ Len(sent) \in Nat /\ Len(cmds) \in Nat /\ MadeCount(u) \in Nat
      /\ \A n \in 1 .. Len(sent) : sent[n] \in SentFrames
      /\ \A n \in 1 .. Len(cmds) : cmds[n] \in Frames
      /\ call[u].frame \in Frames
      /\ Len(sent) + Len(cmds) <= MadeCount(u)
  BY <1>1 DEF MadeCount, Pending
<1>3. ASSUME NEW n \in 1 .. MadeCount(u)
      PROVE  MadeFrame(u, n) \in Frames
  <2>1. CASE n <= Len(sent)
    <3>1. n \in 1 .. Len(sent)
      BY <1>2, <2>1
    <3>2. sent[n] \in SentFrames
      BY <1>2, <3>1
    <3> QED
      BY <2>1, <3>2 DEF MadeFrame, Frames, SentFrames
  <2>2. CASE ~(n <= Len(sent)) /\ n <= Len(sent) + Len(cmds)
    <3>1. n - Len(sent) \in 1 .. Len(cmds)
      BY <1>2, <2>2
    <3> QED
      BY <1>2, <2>2, <3>1 DEF MadeFrame
  <2>3. CASE ~(n <= Len(sent)) /\ ~(n <= Len(sent) + Len(cmds))
    BY <1>2, <2>3 DEF MadeFrame
  <2> QED
    BY <2>1, <2>2, <2>3
<1> QED
  BY <1>2, <1>3

(* A step that makes no frame and changes no lead keeps both.                  *)
LEMMA SameFrames ==
  ASSUME TypeOK, NEW u \in Callers, EarlyInv(u), LeadInv(u),
         cRid' = cRid, cSsid' = cSsid, Ahead(u)' = Ahead(u),
         \A n \in 1 .. MadeCount(u)' : \E m \in 1 .. MadeCount(u) :
           MadeFrame(u, n)' = MadeFrame(u, m) /\ MadeLead(u, n)' = MadeLead(u, m),
         call'[u] = call[u] \/ (call'[u].pc = "loaded" => call'[u].frame.rid = cRid),
         cState' = "HANDSHAKE" => cState = "HANDSHAKE", cAt' = "start" => cAt = "start"
  PROVE  EarlyInv(u)' /\ LeadInv(u)'
<1>1. EarlyInv(u)'
  BY DEF EarlyInv
<1>2. ASSUME NEW n \in 1 .. MadeCount(u)', MadeFrame(u, n)'.ssid # 0
      PROVE  /\ MadeLead(u, n)' = Ahead(u)'
             /\ call'[u].pc = "loaded" => call'[u].frame.rid = cRid
  <2>1. PICK m \in 1 .. MadeCount(u) :
          MadeFrame(u, n)' = MadeFrame(u, m) /\ MadeLead(u, n)' = MadeLead(u, m)
    OBVIOUS
  <2>2. MadeLead(u, m) = Ahead(u) /\ (call[u].pc = "loaded" => call[u].frame.rid = cRid)
    BY <1>2, <2>1 DEF LeadInv
  <2> QED
    BY <2>1, <2>2
<1>3. LeadInv(u)'
  BY <1>2 DEF LeadInv
<1> QED
  BY <1>1, <1>3

(* The same frames in the same places, and nothing sent: the leads are the same.*)
LEMMA SameLeads ==
  ASSUME NEW u \in Callers, UNCHANGED <<sent, cFid, cRid>>,
         Pending(u)' = Pending(u),
         \A n \in 1 .. MadeCount(u) : MadeFrame(u, n)' = MadeFrame(u, n)
  PROVE  /\ Ahead(u)' = Ahead(u)
         /\ \A n \in 1 .. MadeCount(u)' : \E m \in 1 .. MadeCount(u) :
              MadeFrame(u, n)' = MadeFrame(u, m) /\ MadeLead(u, n)' = MadeLead(u, m)
<1>1. Ahead(u)' = Ahead(u) /\ MadeCount(u)' = MadeCount(u)
  BY DEF Ahead, MadeCount
<1>2. ASSUME NEW n \in 1 .. MadeCount(u)
      PROVE  MadeLead(u, n)' = MadeLead(u, n)
  <2>1. MadeFrame(u, n)' = MadeFrame(u, n)
    OBVIOUS
  <2> QED
    BY <2>1 DEF MadeLead, Lead
<1> QED
  BY <1>1, <1>2

(* As long as no frame carries a session id there is nothing to count.         *)
LEMMA EarlyFrames ==
  ASSUME TypeOK', NEW u \in Callers,
         \A n \in 1 .. Len(sent') : sent'[n].ssid = 0,
         \A n \in 1 .. Len(cmds') : cmds'[n].ssid = 0,
         call'[u].pc = "made" => call'[u].frame.ssid = 0,
         cState' = "HANDSHAKE" \/ cAt' = "start" => cSsid' = 0
  PROVE  EarlyInv(u)' /\ LeadInv(u)'
<1>1. Len(sent') \in Nat /\ Len(cmds') \in Nat
  BY DEF TypeOK, CliTypeOK, HistTypeOK
<1>2. ASSUME NEW n \in 1 .. MadeCount(u)'
      PROVE  MadeFrame(u, n)'.ssid = 0
  <2>1. CASE n <= Len(sent')
    <3>1. n \in 1 .. Len(sent')
      BY <1>1, <2>1
    <3> QED
      BY <2>1, <3>1 DEF MadeFrame
  <2>2. CASE ~(n <= Len(sent')) /\ n <= Len(sent') + Len(cmds')
    <3>1. n - Len(sent') \in 1 .. Len(cmds')
      BY <1>1, <2>2 DEF MadeCount
    <3> QED
      BY <2>2, <3>1 DEF MadeFrame
  <2>3. CASE ~(n <= Len(sent')) /\ ~(n <= Len(sent') + Len(cmds'))
    <3>1. call'[u].pc = "made"
      BY <1>1, <2>3 DEF MadeCount, Pending
    <3> QED
      BY <2>3, <3>1 DEF MadeFrame
  <2> QED
    BY <2>1, <2>2, <2>3
<1> QED
  BY <1>2 DEF EarlyInv, LeadInv

(* What EarlyInv says of the parts.                                            *)
LEMMA EarlyParts ==
  ASSUME TypeOK, NEW u \in Callers, EarlyInv(u), cSsid = 0
  PROVE  /\ \A n \in 1 .. Len(sent) : sent[n].ssid = 0
         /\ \A n \in 1 .. Len(cmds) : cmds[n].ssid = 0
         /\ call[u].pc = "made" => call[u].frame.ssid = 0
<1>1. Len(sent) \in Nat /\ Len(cmds) \in Nat /\ MadeCount(u) \in Nat
      /\ Len(sent) + Len(cmds) <= MadeCount(u)
  BY MadeFacts
<1>2. \A n \in 1 .. MadeCount(u) : MadeFrame(u, n).ssid = 0
  BY DEF EarlyInv
<1>3. ASSUME NEW n \in 1 .. Len(sent)
      PROVE  sent[n].ssid = 0
  <2>1. n \in 1 .. MadeCount(u)
    BY <1>1
  <2>2. MadeFrame(u, n).ssid = sent[n].ssid
    BY <1>1 DEF MadeFrame
  <2> QED
    BY <1>2, <2>1, <2>2
<1>4. ASSUME NEW n \in 1 .. Len(cmds)
      PROVE  cmds[n].ssid = 0
  <2>1. Len(sent) + n \in 1 .. MadeCount(u)
    BY <1>1
  <2>2. ~(Len(sent) + n <= Len(sent)) /\ Len(sent) + n <= Len(sent) + Len(cmds)
        /\ (Len(sent) + n) - Len(sent) = n
    BY <1>1
  <2>3. MadeFrame(u, Len(sent) + n) = cmds[n]
    BY <2>2 DEF MadeFrame
  <2> QED
    BY <1>2, <2>1, <2>3
<1>5. ASSUME call[u].pc = "made"
      PROVE  call[u].frame.ssid = 0
  <2>1. MadeCount(u) = Len(sent) + Len(cmds) + 1
    BY <1>1, <1>5 DEF MadeCount, Pending
  <2>2. MadeCount(u) \in 1 .. MadeCount(u) /\ ~(MadeCount(u) <= Len(sent))
        /\ ~(MadeCount(u) <= Len(sent) + Len(cmds))
    BY <1>1, <2>1
  <2>3. MadeFrame(u, MadeCount(u)) = call[u].frame
    BY <2>2 DEF MadeFrame
  <2> QED
    BY <1>2, <2>2, <2>3
<1> QED
  BY <1>3, <1>4, <1>5

(* SendMake: the caller that is alone makes the next frame with the same lead. *)
LEMMA MakeLeads ==
  ASSUME TypeOK, NEW u \in Callers, EarlyInv(u), LeadInv(u), SendMake(u), sent' = sent, cFid' = cFid
  PROVE  EarlyInv(u)' /\ LeadInv(u)'
<1>0. PICK L \in Nat : L = MadeCount(u)
  BY MadeFacts
<1> DEFINE made == [rid |-> Succ(call[u].frame.rid), ssid |-> cSsid]
<1>1. /\ Len(sent) \in Nat /\ Len(cmds) \in Nat /\ L = MadeCount(u)
      /\ call[u].frame \in Frames /\ cRid \in U32 /\ cFid \in U32
      /\ \A n \in 1 .. L : MadeFrame(u, n) \in Frames
  BY <1>0, MadeFacts DEF TypeOK, CliTypeOK
<1>2. /\ call[u].pc = "loaded" /\ cmds' = cmds /\ cSsid' = cSsid /\ cState' = cState /\ cAt' = cAt
      /\ cRid' = made.rid /\ call'[u].pc = "made" /\ call'[u].frame = made
  BY DEF SendMake, TypeOK, CliTypeOK
<1>3. L = Len(sent) + Len(cmds) /\ MadeCount(u)' = L + 1
      /\ Pending(u) = Len(cmds) /\ Pending(u)' = Len(cmds) + 1
  BY <1>1, <1>2 DEF MadeCount, Pending
<1>4. ASSUME NEW n \in 1 .. L
      PROVE  MadeFrame(u, n)' = MadeFrame(u, n) /\ MadeLead(u, n)' = MadeLead(u, n)
  <2>1. MadeFrame(u, n)' = MadeFrame(u, n)
    BY <1>1, <1>2, <1>3 DEF MadeFrame
  <2> QED
    BY <2>1 DEF MadeLead, Lead
<1>5. MadeFrame(u, L + 1)' = made
  <2>1. ~(L + 1 <= Len(sent)) /\ ~(L + 1 <= Len(sent) + Len(cmds))
    BY <1>1, <1>3
  <2> QED
    BY <1>2, <2>1 DEF MadeFrame
<1>6. MadeLead(u, L + 1)' = Ahead(u)'
  <2>1. ~(L + 1 <= Len(sent)) /\ (L + 1) - Len(sent) = Len(cmds) + 1
    BY <1>1, <1>3
  <2>2. MadeLead(u, L + 1)' = (made.rid - (cFid + (Len(cmds) + 1))) % Word
    BY <1>5, <2>1 DEF MadeLead
  <2> QED
    BY <1>2, <1>3, <2>2 DEF Ahead
<1>7. EarlyInv(u)'
  <2>1. ASSUME cSsid = 0, NEW n \in 1 .. (L + 1)
        PROVE  MadeFrame(u, n)'.ssid = 0
    <3>1. CASE n \in 1 .. L
      BY <1>1, <1>4, <2>1, <3>1 DEF EarlyInv
    <3>2. CASE n = L + 1
      BY <1>5, <2>1, <3>2
    <3> QED
      BY <1>1, <3>1, <3>2
  <2>2. cSsid' = 0 => \A n \in 1 .. MadeCount(u)' : MadeFrame(u, n)'.ssid = 0
    BY <1>2, <1>3, <2>1
  <2>3. cState' = "HANDSHAKE" \/ cAt' = "start" => cSsid' = 0
    BY <1>2 DEF EarlyInv
  <2> QED
    BY <2>2, <2>3 DEF EarlyInv
<1>8. ASSUME NEW n \in 1 .. (L + 1), MadeFrame(u, n)'.ssid # 0
      PROVE  MadeLead(u, n)' = Ahead(u)'
  <2>1. CASE n \in 1 .. L
    <3>1. MadeLead(u, n) = Ahead(u) /\ call[u].frame.rid = cRid
      BY <1>1, <1>2, <1>4, <1>8, <2>1 DEF LeadInv
    <3>2. Ahead(u)' = (Succ(cRid) - (cFid + (Len(cmds) + 1))) % Word
      BY <1>2, <1>3, <3>1 DEF Ahead
    <3>3. Ahead(u)' = Ahead(u)
      BY <1>1, <1>3, <3>2, LeadStays DEF Ahead
    <3> QED
      BY <1>4, <2>1, <3>1, <3>3
  <2>2. CASE n = L + 1
    BY <1>6, <2>2
  <2> QED
    BY <1>1, <2>1, <2>2
<1>9. LeadInv(u)'
  BY <1>2, <1>3, <1>8 DEF LeadInv
<1> QED
  BY <1>7, <1>9

(* _handleCommand: the epoll thread takes the next number for the frame at the *)
(* head of the queue, which leaves every lead as it is.                        *)
LEMMA TakesNumber ==
  ASSUME TypeOK, NEW u \in Callers, ClientCommand, cState # "HANDSHAKE", call' = call
  PROVE  /\ Len(cmds) \in Nat /\ Len(cmds) > 0 /\ cmds[1] \in Frames /\ Head(cmds) = cmds[1]
         /\ Len(cmds') = Len(cmds) - 1 /\ \A n \in 1 .. (Len(cmds) - 1) : cmds'[n] = cmds[n + 1]
         /\ cAt' = cAt /\ cState' = cState /\ cSsid' = cSsid /\ cRid' = cRid
         /\ cFid' = Succ(cFid) /\ cFid \in U32
         /\ Pending(u) \in Nat /\ Pending(u) >= Len(cmds) /\ Pending(u)' = Pending(u) - 1
         /\ Ahead(u)' = Ahead(u)
         /\ Transmit(Head(cmds)) \/ TransmitFails
<1>1. /\ cmds \in Seq(Frames) /\ cmds # <<>> /\ cmds' = Tail(cmds) /\ cFid \in U32 /\ cRid \in U32
      /\ cAt' = cAt /\ cState' = cState /\ cSsid' = cSsid /\ cRid' = cRid
      /\ Transmit(Head(cmds)) \/ TransmitFails
  BY DEF ClientCommand, TypeOK, CliTypeOK
<1>2. /\ Len(cmds) \in Nat /\ Len(cmds) > 0 /\ cmds[1] \in Frames /\ Head(cmds) = cmds[1]
      /\ Len(cmds') = Len(cmds) - 1 /\ \A n \in 1 .. (Len(cmds) - 1) : cmds'[n] = cmds[n + 1]
  BY <1>1
<1>3. cFid' = Succ(cFid)
  BY <1>1 DEF Transmit, TransmitFails
<1>4. Pending(u) \in Nat /\ Pending(u) >= Len(cmds) /\ Pending(u)' = Pending(u) - 1
  BY <1>2 DEF Pending
<1>5. Ahead(u)' = Ahead(u)
  <2>1. PICK k \in Nat : Pending(u)' = k /\ Pending(u) = k + 1
    BY <1>2, <1>4
  <2>2. (cRid - (Succ(cFid) + k)) % Word = (cRid - (cFid + (k + 1))) % Word
    BY <1>1, LeadStays
  <2> QED
    BY <1>1, <1>3, <2>1, <2>2 DEF Ahead
<1> QED
  BY <1>1, <1>2, <1>3, <1>4, <1>5

(* A frame that goes out is the one that was queued, with the lead it had.     *)
LEMMA SendKeepsLeads ==
  ASSUME TypeOK, NEW u \in Callers, EarlyInv(u), LeadInv(u), ClientCommand, cState # "HANDSHAKE",
         call' = call, Transmit(Head(cmds))
  PROVE  EarlyInv(u)' /\ LeadInv(u)'
<1>1. /\ Len(cmds) \in Nat /\ Len(cmds) > 0 /\ cmds[1] \in Frames /\ Head(cmds) = cmds[1]
      /\ Len(cmds') = Len(cmds) - 1 /\ \A n \in 1 .. (Len(cmds) - 1) : cmds'[n] = cmds[n + 1]
      /\ cAt' = cAt /\ cState' = cState /\ cSsid' = cSsid /\ cRid' = cRid
      /\ cFid' = Succ(cFid) /\ cFid \in U32
      /\ Pending(u) \in Nat /\ Pending(u) >= Len(cmds) /\ Pending(u)' = Pending(u) - 1
      /\ Ahead(u)' = Ahead(u)
  BY TakesNumber
<1>2. /\ Len(sent) \in Nat /\ Len(sent') = Len(sent) + 1
      /\ \A n \in 1 .. Len(sent) : sent'[n] = sent[n]
      /\ sent'[Len(sent) + 1] = [rid |-> cmds[1].rid, ssid |-> cmds[1].ssid, fid |-> Succ(cFid)]
  <2>1. /\ Len(sent) \in Nat /\ Len(sent') = Len(sent) + 1 /\ \A n \in 1 .. Len(sent) : sent'[n] = sent[n]
    BY <1>1, TransmitFacts
  <2>2. /\ sent \in Seq(SentFrames)
        /\ sent' = Append(sent, [rid |-> cmds[1].rid, ssid |-> cmds[1].ssid, fid |-> cFid'])
    BY <1>1 DEF Transmit, TypeOK, HistTypeOK
  <2>3. sent'[Len(sent) + 1] = [rid |-> cmds[1].rid, ssid |-> cmds[1].ssid, fid |-> cFid']
    BY <2>2
  <2> QED
    BY <1>1, <2>1, <2>3
<1>3. MadeCount(u)' = MadeCount(u) /\ MadeCount(u) = Len(sent) + Pending(u)
  BY <1>1, <1>2 DEF MadeCount
<1>4. ASSUME NEW n \in 1 .. MadeCount(u)
      PROVE  MadeFrame(u, n)' = MadeFrame(u, n) /\ MadeLead(u, n)' = MadeLead(u, n)
  <2>1. CASE n <= Len(sent)
    <3>1. n <= Len(sent') /\ sent'[n] = sent[n]
      BY <1>1, <1>2, <1>3, <2>1
    <3> QED
      BY <2>1, <3>1 DEF MadeFrame, MadeLead, Lead
  <2>2. CASE n = Len(sent) + 1
    <3>1. ~(n <= Len(sent)) /\ n <= Len(sent) + Len(cmds) /\ n - Len(sent) = 1 /\ n <= Len(sent')
      BY <1>1, <1>2, <2>2
    <3>2. cmds[1] = [rid |-> cmds[1].rid, ssid |-> cmds[1].ssid] /\ cmds[1].rid \in U32
      BY <1>1 DEF Frames
    <3>3. MadeFrame(u, n)' = cmds[1] /\ MadeFrame(u, n) = cmds[1]
      BY <1>2, <2>2, <3>1, <3>2 DEF MadeFrame
    <3>4. MadeLead(u, n)' = (cmds[1].rid - Succ(cFid)) % Word
      BY <1>2, <2>2, <3>1 DEF MadeLead, Lead
    <3>5. MadeLead(u, n) = (cmds[1].rid - (cFid + 1)) % Word
      BY <3>1, <3>3 DEF MadeLead
    <3>6. (cmds[1].rid - (Succ(cFid) + 0)) % Word = (cmds[1].rid - (cFid + (0 + 1))) % Word
      BY <1>1, <3>2, LeadStays
    <3>7. Succ(cFid) + 0 = Succ(cFid) /\ 0 + 1 = 1
      BY <1>1, SuccFacts DEF U32
    <3> QED
      BY <3>3, <3>4, <3>5, <3>6, <3>7
  <2>3. CASE n > Len(sent) + 1
    <3>1. /\ ~(n <= Len(sent)) /\ ~(n <= Len(sent'))
          /\ n <= Len(sent') + Len(cmds') <=> n <= Len(sent) + Len(cmds)
      BY <1>1, <1>2, <2>3
    <3>2. MadeFrame(u, n)' = MadeFrame(u, n)
      <4>1. CASE n <= Len(sent) + Len(cmds)
        <5>1. n - Len(sent') \in 1 .. (Len(cmds) - 1) /\ (n - Len(sent')) + 1 = n - Len(sent)
          BY <1>1, <1>2, <2>3, <4>1
        <5>2. cmds'[n - Len(sent')] = cmds[n - Len(sent)]
          BY <1>1, <5>1
        <5> QED
          BY <3>1, <4>1, <5>2 DEF MadeFrame
      <4>2. CASE ~(n <= Len(sent) + Len(cmds))
        BY <3>1, <4>2 DEF MadeFrame
      <4> QED
        BY <4>1, <4>2
    <3>3. PICK k \in Nat : n - Len(sent') = k /\ n - Len(sent) = k + 1
      BY <1>2, <2>3
    <3>4. MadeFrame(u, n).rid \in U32
      BY MadeFacts DEF Frames
    <3>5. (MadeFrame(u, n).rid - (Succ(cFid) + k)) % Word = (MadeFrame(u, n).rid - (cFid + (k + 1))) % Word
      BY <1>1, <3>4, LeadStays
    <3>6. MadeLead(u, n)' = (MadeFrame(u, n).rid - (Succ(cFid) + k)) % Word
      BY <1>1, <3>1, <3>2, <3>3 DEF MadeLead
    <3>7. MadeLead(u, n) = (MadeFrame(u, n).rid - (cFid + (k + 1))) % Word
      BY <3>1, <3>3 DEF MadeLead
    <3> QED
      BY <3>2, <3>5, <3>6, <3>7
  <2> QED
    BY <1>1, <1>2, <1>3, <2>1, <2>2, <2>3
<1> QED
  BY <1>1, <1>3, <1>4, SameFrames

(* A frame that is refused takes its number with it: those behind it keep the  *)
(* lead they had.                                                             *)
LEMMA RefusalKeepsLeads ==
  ASSUME TypeOK, NEW u \in Callers, EarlyInv(u), LeadInv(u), ClientCommand, cState # "HANDSHAKE",
         call' = call, TransmitFails
  PROVE  EarlyInv(u)' /\ LeadInv(u)'
<1>1. /\ Len(cmds) \in Nat /\ Len(cmds) > 0
      /\ Len(cmds') = Len(cmds) - 1 /\ \A n \in 1 .. (Len(cmds) - 1) : cmds'[n] = cmds[n + 1]
      /\ cAt' = cAt /\ cState' = cState /\ cSsid' = cSsid /\ cRid' = cRid
      /\ cFid' = Succ(cFid) /\ cFid \in U32
      /\ Pending(u) \in Nat /\ Pending(u)' = Pending(u) - 1 /\ Ahead(u)' = Ahead(u)
  BY TakesNumber
<1>2. sent' = sent /\ Len(sent) \in Nat
  BY MadeFacts DEF TransmitFails
<1>3. MadeCount(u)' = MadeCount(u) - 1 /\ MadeCount(u) = Len(sent) + Pending(u)
  BY <1>1, <1>2 DEF MadeCount
<1>4. ASSUME NEW n \in 1 .. MadeCount(u)'
      PROVE  \E m \in 1 .. MadeCount(u) :
               MadeFrame(u, n)' = MadeFrame(u, m) /\ MadeLead(u, n)' = MadeLead(u, m)
  <2>1. CASE n <= Len(sent)
    <3>1. n \in 1 .. MadeCount(u)
      BY <1>1, <1>2, <1>3
    <3>2. MadeFrame(u, n)' = MadeFrame(u, n) /\ MadeLead(u, n)' = MadeLead(u, n)
      BY <1>2, <2>1 DEF MadeFrame, MadeLead, Lead
    <3> QED
      BY <3>1, <3>2
  <2>2. CASE ~(n <= Len(sent))
    <3>1. PICK m \in 1 .. MadeCount(u) : m = n + 1
      BY <1>1, <1>2, <1>3
    <3>2. /\ ~(m <= Len(sent)) /\ n <= Len(sent) + Len(cmds') <=> m <= Len(sent) + Len(cmds)
          /\ m - Len(sent) = (n - Len(sent)) + 1 /\ n - Len(sent) \in Nat
      BY <1>1, <1>2, <1>3, <2>2, <3>1
    <3>3. MadeFrame(u, n)' = MadeFrame(u, m)
      <4>1. CASE n <= Len(sent) + Len(cmds')
        <5>1. n - Len(sent) \in 1 .. (Len(cmds) - 1)
          BY <1>1, <1>2, <1>3, <2>2, <4>1
        <5>2. cmds'[n - Len(sent)] = cmds[m - Len(sent)]
          BY <1>1, <3>2, <5>1
        <5> QED
          BY <1>2, <2>2, <3>2, <4>1, <5>2 DEF MadeFrame
      <4>2. CASE ~(n <= Len(sent) + Len(cmds'))
        BY <1>2, <2>2, <3>2, <4>2 DEF MadeFrame
      <4> QED
        BY <4>1, <4>2
    <3>4. MadeFrame(u, m).rid \in U32
      BY MadeFacts DEF Frames
    <3>5. PICK k \in Nat : n - Len(sent) = k /\ m - Len(sent) = k + 1
      BY <3>2
    <3>6. (MadeFrame(u, m).rid - (Succ(cFid) + k)) % Word = (MadeFrame(u, m).rid - (cFid + (k + 1))) % Word
      BY <1>1, <3>4, LeadStays
    <3>7. MadeLead(u, n)' = (MadeFrame(u, m).rid - (Succ(cFid) + k)) % Word
      BY <1>1, <1>2, <2>2, <3>3, <3>5 DEF MadeLead
    <3>8. MadeLead(u, m) = (MadeFrame(u, m).rid - (cFid + (k + 1))) % Word
      BY <3>2, <3>5 DEF MadeLead
    <3> QED
      BY <3>1, <3>3, <3>6, <3>7, <3>8
  <2> QED
    BY <2>1, <2>2
<1> QED
  BY <1>1, <1>4, SameFrames

(* What is accepted carries the session id.                                    *)
LEMMA SsidStep ==
  ASSUME TypeOK, DeliveryInv, CauseInv, AcceptedSsid, [Next]_vars
  PROVE  AcceptedSsid'
<1>1. CASE accepted' = accepted
  BY <1>1 DEF AcceptedSsid
<1>2. CASE ServerAccept
  <2>1. /\ accepted' = Append(accepted, sent[c2s[sDone + 1]])
        /\ sent[c2s[sDone + 1]].ssid = sSsid /\ sAt = "deliver"
    BY <1>2 DEF ServerAccept, RequestValid
  <2>2. sSsid = SessionId
    BY <2>1 DEF DeliveryInv, BatchInv, CauseInv
  <2>3. accepted \in Seq(SentFrames) /\ accepted' \in Seq(SentFrames)
    BY InvStep DEF TypeOK, HistTypeOK
  <2>4. ASSUME NEW i \in DOMAIN accepted'
        PROVE  accepted'[i].ssid = SessionId
    <3>1. i \in DOMAIN accepted \/ i = Len(accepted) + 1
      BY <2>1, <2>3
    <3>2. i \in DOMAIN accepted => accepted'[i] = accepted[i]
      BY <2>1, <2>3
    <3>3. i = Len(accepted) + 1 => accepted'[i] = sent[c2s[sDone + 1]]
      BY <2>1, <2>3
    <3> QED
      BY <2>1, <2>2, <3>1, <3>2, <3>3 DEF AcceptedSsid
  <2> QED
    BY <2>4 DEF AcceptedSsid
<1>3. accepted' = accepted \/ ServerAccept
  BY DEF Next, vars, srvVars, CallStep, OwnerClose, ClientLoop, ClientExit, Tick, RepeatRequest,
     RepeatReply, Workers, WorkerStep, ServerLoop, ServerHandshake, ServerHandshakeFails,
     ServerRead, ServerReadFails, ServerReject, ServerHangup, ServerWake, ServerSend,
     ServerSendRefused, ServerSendFails, ServerClose, ServerUnknown, ServerDrained
<1> QED
  BY <1>1, <1>2, <1>3

(* A caller that is alone: every step keeps the lead of its frames.           *)
LEMMA LeadStep ==
  ASSUME TypeOK, DeliveryInv, NEW u \in Callers, \A v \in Callers : v = u,
         EarlyInv(u), LeadInv(u), [Next]_vars
  PROVE  EarlyInv(u)' /\ LeadInv(u)'
<1>1. TypeOK'
  BY InvStep
<1>2. ASSUME UNCHANGED <<sent, cmds, call, cRid, cFid, cSsid>>,
             cState' = "HANDSHAKE" => cState = "HANDSHAKE", cAt' = "start" => cAt = "start"
      PROVE  EarlyInv(u)' /\ LeadInv(u)'
  <2>1. Pending(u)' = Pending(u) /\ \A n \in 1 .. MadeCount(u) : MadeFrame(u, n)' = MadeFrame(u, n)
    BY <1>2 DEF Pending, MadeFrame
  <2>2. /\ Ahead(u)' = Ahead(u)
        /\ \A n \in 1 .. MadeCount(u)' : \E m \in 1 .. MadeCount(u) :
             MadeFrame(u, n)' = MadeFrame(u, m) /\ MadeLead(u, n)' = MadeLead(u, m)
    BY <1>2, <2>1, SameLeads
  <2> QED
    BY <1>2, <2>2, SameFrames
<1>3. CASE \E v \in Callers : CallStep(v)
  <2>1. CallStep(u)
    BY <1>3
  <2>2. sent' = sent /\ call[u] \in [pc : {"idle", "loaded", "made"}, frame : Frames]
    BY <2>1 DEF CallStep, TypeOK, CliTypeOK
  <2>3. CASE SendBegin(u)
    <3>1. /\ cmds' = cmds /\ cRid' = cRid /\ cSsid' = cSsid /\ cState' = cState /\ cAt' = cAt
          /\ call[u].pc = "idle" /\ call'[u].pc = "loaded" /\ call'[u].frame.rid = cRid
          /\ cFid' = cFid
      BY <2>3 DEF SendBegin, TypeOK, CliTypeOK
    <3>2. Pending(u)' = Pending(u)
      BY <3>1 DEF Pending
    <3>3. ASSUME NEW n \in 1 .. MadeCount(u)
          PROVE  MadeFrame(u, n)' = MadeFrame(u, n)
      <4>1. n <= Len(sent) + Len(cmds)
        BY <3>1, MadeFacts DEF MadeCount, Pending
      <4> QED
        BY <2>2, <3>1, <4>1 DEF MadeFrame
    <3>4. /\ Ahead(u)' = Ahead(u)
          /\ \A n \in 1 .. MadeCount(u)' : \E m \in 1 .. MadeCount(u) :
               MadeFrame(u, n)' = MadeFrame(u, m) /\ MadeLead(u, n)' = MadeLead(u, m)
      BY <2>2, <3>1, <3>2, <3>3, SameLeads
    <3> QED
      BY <3>1, <3>4, SameFrames
  <2>4. CASE SendMake(u)
    <3>1. cFid' = cFid
      BY <2>4 DEF SendMake
    <3> QED
      BY <2>2, <2>4, <3>1, MakeLeads
  <2>5. CASE SendPush(u)
    <3>1. /\ cmds' = Append(cmds, call[u].frame) /\ cmds \in Seq(Frames) /\ Len(sent) \in Nat
          /\ cRid' = cRid /\ cSsid' = cSsid /\ cState' = cState /\ cAt' = cAt
          /\ call[u].pc = "made" /\ call'[u].pc = "idle" /\ cFid' = cFid
      BY <2>5 DEF SendPush, TypeOK, CliTypeOK, HistTypeOK
    <3>2. /\ Len(cmds) \in Nat /\ Len(cmds') = Len(cmds) + 1
          /\ \A n \in 1 .. Len(cmds) : cmds'[n] = cmds[n]
          /\ cmds'[Len(cmds) + 1] = call[u].frame
      BY <2>2, <3>1, AppendFacts
    <3>3. Pending(u)' = Pending(u) /\ MadeCount(u) = Len(sent) + Len(cmds) + 1
      BY <2>2, <3>1, <3>2 DEF MadeCount, Pending
    <3>4. ASSUME NEW n \in 1 .. MadeCount(u)
          PROVE  MadeFrame(u, n)' = MadeFrame(u, n)
      <4>1. CASE n <= Len(sent)
        BY <2>2, <4>1 DEF MadeFrame
      <4>2. CASE ~(n <= Len(sent)) /\ n <= Len(sent) + Len(cmds)
        <5>1. n - Len(sent) \in 1 .. Len(cmds) /\ n <= Len(sent) + Len(cmds')
          BY <3>1, <3>2, <4>2
        <5> QED
          BY <2>2, <3>2, <4>2, <5>1 DEF MadeFrame
      <4>3. CASE n = Len(sent) + Len(cmds) + 1
        <5>1. /\ ~(n <= Len(sent)) /\ ~(n <= Len(sent) + Len(cmds)) /\ n <= Len(sent) + Len(cmds')
              /\ n - Len(sent) = Len(cmds) + 1
          BY <3>1, <3>2, <4>3
        <5>2. MadeFrame(u, n) = call[u].frame
          BY <5>1 DEF MadeFrame
        <5>3. MadeFrame(u, n)' = cmds'[n - Len(sent)]
          BY <2>2, <5>1 DEF MadeFrame
        <5> QED
          BY <3>2, <5>1, <5>2, <5>3
      <4> QED
        BY <3>1, <3>2, <3>3, <4>1, <4>2, <4>3, SMTT(40)
    <3>5. /\ Ahead(u)' = Ahead(u)
          /\ \A n \in 1 .. MadeCount(u)' : \E m \in 1 .. MadeCount(u) :
               MadeFrame(u, n)' = MadeFrame(u, m) /\ MadeLead(u, n)' = MadeLead(u, m)
      BY <2>2, <3>1, <3>3, <3>4, SameLeads
    <3> QED
      BY <3>1, <3>5, SameFrames
  <2> QED
    BY <2>1, <2>3, <2>4, <2>5 DEF CallStep
<1>4. CASE ClientLoop
  <2>1. call' = call
    BY <1>4 DEF ClientLoop
  <2>2. CASE ClientHandshake
    <3>1. cAt' = "wait" /\ cSsid' = cSsid /\ cmds' = cmds /\ cSsid = 0 /\ cState' = cState
      BY <2>2 DEF ClientHandshake, EarlyInv
    <3>2. /\ \A n \in 1 .. Len(sent) : sent[n].ssid = 0
          /\ \A n \in 1 .. Len(cmds) : cmds[n].ssid = 0
          /\ call[u].pc = "made" => call[u].frame.ssid = 0
      BY <3>1, EarlyParts
    <3>3. sent \in Seq(SentFrames)
      BY DEF TypeOK, HistTypeOK
    <3>4. sent' = sent \/ \E f \in SentFrames : f.ssid = 0 /\ sent' = Append(sent, f)
      <4>1. CASE cState # "HANDSHAKE"
        <5>1. cFid' \in U32 /\ cRid' \in U32
          BY <1>1 DEF TypeOK, CliTypeOK
        <5> DEFINE f == [rid |-> cRid', ssid |-> 0, fid |-> cFid']
        <5>2. f \in SentFrames /\ f.ssid = 0
          BY <5>1 DEF SentFrames, Ssids
        <5>3. sent' = Append(sent, f)
          BY <2>2, <3>1, <4>1 DEF ClientHandshake, Transmit
        <5> QED
          BY <5>2, <5>3
      <4>2. CASE cState = "HANDSHAKE"
        BY <2>2, <4>2 DEF ClientHandshake
      <4> QED
        BY <4>1, <4>2
    <3>5. \A n \in 1 .. Len(sent') : sent'[n].ssid = 0
      <4>1. CASE sent' = sent
        BY <3>2, <4>1
      <4>2. CASE \E f \in SentFrames : f.ssid = 0 /\ sent' = Append(sent, f)
        <5>1. PICK f \in SentFrames : f.ssid = 0 /\ sent' = Append(sent, f)
          BY <4>2
        <5>2. /\ Len(sent) \in Nat /\ Len(sent') = Len(sent) + 1 /\ sent'[Len(sent) + 1] = f
              /\ \A n \in 1 .. Len(sent) : sent'[n] = sent[n]
          BY <3>3, <5>1, AppendFacts
        <5>3. \A n \in 1 .. (Len(sent) + 1) : n \in 1 .. Len(sent) \/ n = Len(sent) + 1
          BY <5>2
        <5> QED
          BY <3>2, <5>1, <5>2, <5>3
      <4> QED
        BY <3>4, <4>1, <4>2
    <3> QED
      BY <1>1, <2>1, <3>1, <3>2, <3>5, EarlyFrames
  <2>3. CASE ClientCommand /\ cState = "HANDSHAKE"
    <3>1. /\ cmds' = Tail(cmds) /\ sent' = sent /\ cAt' = cAt /\ cState' = cState /\ cSsid' = cSsid
          /\ cmds # <<>> /\ cmds \in Seq(Frames) /\ cSsid = 0
      BY <2>3 DEF ClientCommand, EarlyInv, TypeOK, CliTypeOK
    <3>2. /\ \A n \in 1 .. Len(sent) : sent[n].ssid = 0
          /\ \A n \in 1 .. Len(cmds) : cmds[n].ssid = 0
          /\ call[u].pc = "made" => call[u].frame.ssid = 0
      BY <3>1, EarlyParts
    <3>3. \A n \in 1 .. Len(cmds') : cmds'[n] = cmds[n + 1] /\ n + 1 \in 1 .. Len(cmds)
      BY <3>1
    <3> QED
      BY <1>1, <2>1, <3>1, <3>2, <3>3, EarlyFrames
  <2>4. CASE ClientCommand /\ cState # "HANDSHAKE"
    BY <2>1, <2>4, TakesNumber, SendKeepsLeads, RefusalKeepsLeads
  <2>5. CASE ClientRead /\ cState = "HANDSHAKE"
    <3>1. sent' = sent /\ cmds' = cmds /\ cSsid = 0 /\ cState' = "CONNECTED" /\ cAt' # "start"
      BY <2>5 DEF ClientRead, EarlyInv, After
    <3> QED
      BY <1>1, <2>1, <3>1, EarlyParts, EarlyFrames
  <2>6. CASE \/ ClientRead /\ cState # "HANDSHAKE"
             \/ ClientWake \/ ClientDrained \/ ClientDeliver \/ ClientReject \/ ClientHangup
             \/ ClientLoopExit
    <3>1. /\ UNCHANGED <<sent, cmds, cRid, cFid, cSsid>>
          /\ (cState' = "HANDSHAKE" => cState = "HANDSHAKE") /\ (cAt' = "start" => cAt = "start")
      BY <2>6 DEF ClientRead, ClientWake, ClientDrained, ClientDeliver, ClientReject, ClientHangup,
         ClientLoopExit, After
    <3> QED
      BY <1>2, <2>1, <3>1
  <2> QED
    BY <1>4, <2>2, <2>3, <2>4, <2>5, <2>6 DEF ClientLoop
<1>5. CASE UNCHANGED vars
  BY <1>2, <1>5 DEF vars, cliVars
<1>6. CASE OwnerClose \/ ClientExit \/ Tick \/ RepeatRequest \/ RepeatReply \/ ServerLoop \/ Workers
  BY <1>2, <1>6 DEF OwnerClose, ClientExit, Tick, RepeatRequest, RepeatReply, ServerLoop, Workers,
     WorkerStep, cliVars
<1> QED
  BY <1>3, <1>4, <1>5, <1>6 DEF Next

(* What the invariant says of the requests that were accepted.                 *)
LEMMA LeadsOfRequests ==
  ASSUME TypeOK, DeliveryInv, AcceptedSsid, NEW u \in Callers, LeadInv(u)
  PROVE  \A i, j \in DOMAIN accepted :
           /\ Lead(accepted[i]) = Lead(accepted[j])
           /\ accepted[i].rid = accepted[j].rid => i = j
<1>1. /\ DOMAIN accepted = 1 .. Len(accepted) /\ Len(accepted) \in Nat /\ Len(accepted) <= Len(sent)
      /\ Len(sent) \in Nat /\ Len(sent) <= MadeCount(u) /\ MadeCount(u) \in Nat
      /\ \A i \in 1 .. Len(accepted) : accepted[i] \in SentFrames
  <2>1. Len(accepted) <= Len(sent)
    BY DEF DeliveryInv, AcceptInv
  <2>2. Len(sent) \in Nat /\ Len(cmds) \in Nat /\ MadeCount(u) \in Nat /\ Len(sent) + Len(cmds) <= MadeCount(u)
    BY MadeFacts
  <2> QED
    BY <2>1, <2>2, WireFacts
<1>2. ASSUME NEW i \in 1 .. Len(accepted)
      PROVE  Lead(accepted[i]) = Ahead(u)
  <2>1. accepted[i] = sent[i] /\ i <= Len(sent) /\ i \in 1 .. MadeCount(u)
    BY <1>1 DEF DeliveryInv, AcceptInv
  <2>2. accepted[i].ssid # 0
    BY <1>1, SessionIdAssumption DEF AcceptedSsid
  <2>3. MadeFrame(u, i).ssid # 0 /\ MadeLead(u, i) = Lead(accepted[i])
    BY <2>1, <2>2 DEF MadeFrame, MadeLead
  <2> QED
    BY <2>1, <2>3 DEF LeadInv
<1>3. ASSUME NEW i \in 1 .. Len(accepted), NEW j \in 1 .. Len(accepted),
             accepted[i].rid = accepted[j].rid
      PROVE  accepted[i].fid = accepted[j].fid
  <2> DEFINE r == accepted[i].rid
             f == accepted[i].fid
             g == accepted[j].fid
             x == r - f
             y == r - g
  <2>1. r \in U32 /\ f \in U32 /\ g \in U32
    BY <1>1 DEF SentFrames
  <2>2. x % Word = y % Word
    BY <1>2, <1>3 DEF Lead
  <2>3. Word \in Nat /\ x \in Int /\ y \in Int /\ f \in 0 .. (Word - 1) /\ g \in 0 .. (Word - 1)
        /\ x + f = y + g
    BY <2>1, WordAssumption DEF U32
  <2> HIDE DEF r, f, g, x, y
  <2>4. x % Word \in 0 .. (Word - 1) /\ x \div Word \in Int /\ x = Word * (x \div Word) + (x % Word)
    BY <2>3, ModFacts
  <2>5. y % Word \in 0 .. (Word - 1) /\ y \div Word \in Int /\ y = Word * (y \div Word) + (y % Word)
    BY <2>3, ModFacts
  <2>6. Word * (x \div Word) + f = Word * (y \div Word) + g
    BY <2>2, <2>3, <2>4, <2>5, SMTT(40)
  <2>7. f = g
    BY <2>3, <2>4, <2>5, <2>6, OneRemainder
  <2> QED
    BY <2>7 DEF f, g
<1>4. ASSUME NEW i \in 1 .. Len(accepted), NEW j \in 1 .. Len(accepted),
             accepted[i].rid = accepted[j].rid
      PROVE  i = j
  <2>1. accepted[i].fid = accepted[j].fid /\ accepted[i].fid \in Nat
    BY <1>1, <1>3, <1>4, WordAssumption DEF SentFrames, U32
  <2>2. ~(i < j) /\ ~(j < i)
    BY <1>1, <2>1 DEF DeliveryInv, AcceptInv
  <2> QED
    BY <2>2
<1> QED
  BY <1>1, <1>2, <1>4

(* With one calling thread every accepted request has the same lead, and a rid *)
(* names one of them, whatever is dropped, refused, cut short, repeated or     *)
(* closed and through a wrap of either counter: send() and the epoll thread's  *)
(* handshake only race before the confirmation.                               *)
THEOREM RidsNameRequests == Spec => []RidsIdentify
<1>1. CASE ~\E u \in Callers : Callers = {u}
  <2>1. RidsIdentify
    BY <1>1 DEF RidsIdentify
  <2> QED
    BY <2>1, PTL
<1>2. ASSUME NEW CONSTANT u \in Callers, Callers = {u}
      PROVE  Spec => []RidsIdentify
  <2> DEFINE I == TypeOK /\ DeliveryInv /\ CauseInv /\ RejectionCause /\ AcceptedSsid
                  /\ EarlyInv(u) /\ LeadInv(u)
  <2>1. Init => I
    <3>1. ASSUME Init
          PROVE  CauseInv /\ RejectionCause /\ AcceptedSsid
      BY <3>1 DEF Init, CauseInv, RejectionCause, AcceptedSsid
    <3>2. ASSUME Init
          PROVE  EarlyInv(u) /\ LeadInv(u)
      <4>1. MadeCount(u) = 0 /\ cSsid = 0
        BY <3>2 DEF Init, MadeCount, Pending
      <4>2. 1 .. MadeCount(u) = {}
        BY <4>1
      <4> QED
        BY <4>1, <4>2 DEF EarlyInv, LeadInv
    <3> QED
      BY <3>1, <3>2, InvInit
  <2>2. I /\ [Next]_vars => I'
    BY <1>2, InvStep, CauseStep, SsidStep, LeadStep
  <2>3. I => RidsIdentify
    BY LeadsOfRequests DEF RidsIdentify
  <2> QED
    BY <2>1, <2>2, <2>3, PTL DEF Spec
<1> QED
  BY <1>1, <1>2

------------------------------------------------------------------------------
(* Which hellos are accepted                                                  *)

\* age stands still once the server has read the hello, so what let it through
\* still holds.
HelloInv == age <= MaxAge /\ (sTaken > 0 => Fresh)

\* A hello that was read and not refused was not made in the server's past.
HelloNotPast == sTaken > 0 => age <= Skew /\ Skew - age <= Window

(* `timestamp - getTimestamp() > 60` on two uint32_t: a negative difference    *)
(* counts as a large one, as long as it is not nearly a turn of the clock.    *)
LEMMA FreshFacts ==
  ASSUME NEW d \in Int, d < Word, 0 - d < Word - Window, d % Word <= Window
  PROVE  0 <= d /\ d <= Window
<1>1. Word \in Nat /\ Word > 0 /\ Window \in Nat
  BY WordAssumption, WindowAssumption
<1>2. CASE d >= 0
  <2>1. d % Word = d
    BY <1>1, <1>2
  <2> QED
    BY <1>2, <2>1
<1>3. CASE d < 0
  <2>1. 0 <= d + Word /\ d + Word < Word
    BY <1>1, <1>3
  <2>2. d % Word = d + Word
    BY <1>1, <2>1
  <2> QED
    BY <1>1, <1>3, <2>2
<1> QED
  BY <1>2, <1>3

(* HelloInv is kept.                                                           *)
LEMMA HelloStep ==
  ASSUME TypeOK, CauseInv, HelloInv, [Next]_vars
  PROVE  HelloInv'
<1>1. age \in Nat /\ sTaken \in Nat /\ MaxAge \in Nat /\ sDone \in Nat /\ sDone <= sTaken
  BY BoundsAssumption DEF TypeOK, HistTypeOK, WireTypeOK
<1>2. ASSUME age' = age, sTaken' = sTaken \/ sTaken > 0 \/ Fresh
      PROVE  HelloInv'
  <2>1. Fresh' <=> Fresh
    BY <1>2 DEF Fresh
  <2> QED
    BY <1>2, <2>1 DEF HelloInv
<1>3. CASE Tick
  <2>1. sTaken = 0 /\ age < MaxAge /\ age' = age + 1 /\ sTaken' = sTaken
    BY <1>3 DEF Tick, posVars, sPos
  <2> QED
    BY <1>1, <2>1 DEF HelloInv
<1>4. CASE ServerLoop
  <2>1. age' = age
    BY <1>4 DEF ServerLoop, envVars
  <2>2. CASE ServerHandshake
    BY <1>2, <2>1, <2>2 DEF ServerHandshake
  <2>3. CASE ServerRead \/ ServerReadFails
    <3>1. sState = "ACTIVE"
      BY <2>3 DEF ServerRead, ServerReadFails
    <3>2. sTaken > 0
      BY <1>1, <3>1 DEF CauseInv
    <3> QED
      BY <1>2, <2>1, <3>2
  <2>4. CASE \/ ServerHandshakeFails \/ ServerAccept \/ ServerReject \/ ServerHangup \/ ServerWake
             \/ ServerSend \/ ServerSendRefused \/ ServerSendFails \/ ServerClose \/ ServerUnknown \/ ServerDrained
    <3>1. sTaken' = sTaken
      BY <2>4 DEF ServerHandshakeFails, ServerAccept, ServerReject, ServerHangup, ServerWake,
         ServerSend, ServerSendRefused, ServerSendFails, ServerClose, ServerUnknown, ServerDrained, sPos
    <3> QED
      BY <1>2, <2>1, <3>1
  <2> QED
    BY <1>4, <2>2, <2>3, <2>4 DEF ServerLoop
<1>5. CASE UNCHANGED vars
  BY <1>2, <1>5 DEF vars, posVars, sPos, envVars
<1>6. CASE \E u \in Callers : CallStep(u)
  BY <1>2, <1>6 DEF CallStep, posVars, sPos, envVars
<1>7. CASE OwnerClose \/ ClientLoop \/ ClientExit \/ RepeatRequest \/ RepeatReply
  BY <1>2, <1>7 DEF OwnerClose, ClientLoop, ClientExit, RepeatRequest, RepeatReply, posVars, sPos,
     envVars
<1>8. CASE Workers
  BY <1>2, <1>8 DEF Workers, WorkerStep, posVars, sPos, envVars
<1> QED
  BY <1>3, <1>4, <1>5, <1>6, <1>7, <1>8 DEF Next

(* Unless the clocks differ by nearly a turn of 2^32 seconds, a hello that the *)
(* server has read and not refused carries a timestamp that is not in the past *)
(* of the server's clock, and at most Window ahead of it: the test bounds how  *)
(* far ahead the client's clock is, not how old the hello is.                 *)
THEOREM HellosAreNotPast ==
  ASSUME Skew < Word, MaxAge - Skew < Word - Window
  PROVE  Spec => []HelloNotPast
<1>1. Init => CauseInv /\ RejectionCause /\ HelloInv
  BY BoundsAssumption DEF Init, CauseInv, RejectionCause, HelloInv
<1>2. TypeOK /\ DeliveryInv /\ CauseInv /\ RejectionCause /\ HelloInv /\ [Next]_vars
        => (TypeOK /\ DeliveryInv /\ CauseInv /\ RejectionCause /\ HelloInv)'
  BY InvStep, CauseStep, HelloStep
<1>3. TypeOK /\ HelloInv => HelloNotPast
  <2>1. ASSUME TypeOK, HelloInv, sTaken > 0
        PROVE  age <= Skew /\ Skew - age <= Window
    <3>1. age \in Nat /\ age <= MaxAge /\ MaxAge \in Nat /\ Skew \in Int /\ Word \in Nat /\ Window \in Nat
      BY <2>1, BoundsAssumption, WindowAssumption, WordAssumption DEF TypeOK, HistTypeOK, HelloInv
    <3>2. (Skew - age) % Word <= Window
      BY <2>1 DEF HelloInv, Fresh
    <3>3. Skew - age \in Int /\ Skew - age < Word /\ 0 - (Skew - age) < Word - Window
      BY <3>1
    <3>4. 0 <= Skew - age /\ Skew - age <= Window
      BY <3>2, <3>3, FreshFacts
    <3> QED
      BY <3>1, <3>4
  <2> QED
    BY <2>1 DEF HelloNotPast
<1> QED BY <1>1, <1>2, <1>3, InvInit, PTL DEF Spec
============================================================================
