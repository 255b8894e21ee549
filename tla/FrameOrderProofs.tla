--------------------------- MODULE FrameOrderProofs ---------------------------
(* Proofs about FrameStream: the order of what is put together, what lies in   *)
(* the stream meanwhile, and why a connection is closed.  The stream is cut    *)
(* and moved, so the invariant says of every unit in it that the whole of what *)
(* went out of its frame lies around it.                                       *)
EXTENDS FrameStreamProofs

------------------------------------------------------------------------------
(* The inductive invariant                                                    *)

\* The stream that is still to be parsed, and the frames put together in all.
Wire == buf \o socket
Delivered == handled \o frames

\* No more of a frame goes out than there is.
WrittenInv == \A f \in DOMAIN sent : sent[f].written <= EncodedSize(sent[f].shape)

\* All that was sent of a frame lies in the stream in one piece, or none of it.
PieceInv ==
  \A i \in DOMAIN Wire :
    LET f == Wire[i][1]
        k == Wire[i][2] IN
      /\ k <= sent[f].written /\ k <= i /\ i - k + sent[f].written <= Len(Wire)
      /\ \A m \in 1 .. sent[f].written : Wire[i - k + m] = <<f, m>>

\* The frames lie in the stream in the order sent, each once.
OrderInv ==
  \A i, j \in DOMAIN Wire :
    i < j => \/ Wire[i][1] < Wire[j][1]
             \/ Wire[i][1] = Wire[j][1] /\ Wire[j][2] = Wire[i][2] + (j - i)

\* What was put together came before what is still in the stream, and until the
\* connection is closed nothing that was sent is missing.
AheadInv ==
  /\ \A d \in DOMAIN Delivered, i \in DOMAIN Wire : Delivered[d].frame < Wire[i][1]
  /\ at # "closed" =>
       \A g \in DOMAIN sent :
         \/ Unsent(g)
         \/ \E d \in DOMAIN Delivered : Delivered[d].frame = g
         \/ \E i \in DOMAIN Wire : Wire[i][1] = g

OInv ==
  /\ IInv /\ WrittenInv /\ PieceInv /\ OrderInv /\ AheadInv
  /\ InOrder(Delivered) /\ ClosedForCause

\* The stream is the buffer and what the socket holds behind it.
LEMMA WireType ==
  ASSUME IInv
  PROVE  /\ Wire \in Seq(Known) /\ Len(Wire) = Len(buf) + Len(socket) /\ Len(Wire) \in Nat
         /\ DOMAIN Wire = 1 .. Len(Wire) /\ Len(buf) \in Nat /\ Len(socket) \in Nat
         /\ \A i \in 1 .. Len(buf) : Wire[i] = buf[i]
         /\ \A i \in 1 .. Len(socket) : Wire[Len(buf) + i] = socket[i]
         /\ \A i \in 1 .. Len(Wire) :
              Wire[i] = IF i <= Len(buf) THEN buf[i] ELSE socket[i - Len(buf)]
<1>1. buf \in Seq(Known) /\ socket \in Seq(Known)
  BY DEF IInv, UnitsInv
<1>2. Len(buf) \in Nat /\ Len(socket) \in Nat
  BY <1>1
<1>3. /\ Wire \in Seq(Known) /\ Len(Wire) = Len(buf) + Len(socket)
      /\ \A i \in 1 .. Len(buf) + Len(socket) :
           Wire[i] = IF i <= Len(buf) THEN buf[i] ELSE socket[i - Len(buf)]
  BY <1>1, ConcatProperties DEF Wire
<1>4. \A i \in 1 .. Len(buf) : Wire[i] = buf[i]
  BY <1>2, <1>3
<1>5. ASSUME NEW i \in 1 .. Len(socket)
      PROVE  Wire[Len(buf) + i] = socket[i]
  <2>1. Len(buf) + i \in 1 .. Len(buf) + Len(socket) /\ ~(Len(buf) + i <= Len(buf))
        /\ Len(buf) + i - Len(buf) = i
    BY <1>2
  <2> QED
    BY <1>3, <2>1
<1> QED
  BY <1>2, <1>3, <1>4, <1>5

\* Every unit of the stream is of a frame that was sent, of a part that went out.
LEMMA WireUnit ==
  ASSUME OInv, NEW i \in DOMAIN Wire
  PROVE  /\ Wire[i][1] \in 1 .. Len(sent) /\ Wire[i][2] \in Nat \ {0} /\ i \in Nat \ {0}
         /\ Wire[i] = <<Wire[i][1], Wire[i][2]>>
         /\ sent[Wire[i][1]] \in Sent /\ sent[Wire[i][1]].written \in Nat \ {0}
         /\ EncodedSize(sent[Wire[i][1]].shape) \in Nat
         /\ sent[Wire[i][1]].written <= EncodedSize(sent[Wire[i][1]].shape)
<1>1. Wire \in Seq(Known) /\ i \in 1 .. Len(Wire)
  BY WireType DEF OInv
<1>2. Wire[i] \in Known
  BY <1>1, ElementOfSeq
<1>3. sent \in Seq(Sent) /\ Wire[i][1] \in 1 .. Len(sent) /\ Len(sent) \in Nat
  BY <1>2 DEF Known, OInv, IInv, TypeOK, Sent
<1>4. sent[Wire[i][1]] \in Sent
  BY <1>3, ElementOfSeq
<1>5. sent[Wire[i][1]].shape \in Shapes /\ sent[Wire[i][1]].written \in Nat
  BY <1>4 DEF Sent
<1>6. EncodedSize(sent[Wire[i][1]].shape) \in Nat
  BY <1>5, CodecTypes
<1>7. Wire[i][2] <= sent[Wire[i][1]].written /\ Wire[i][2] \in Nat \ {0}
  BY <1>2 DEF OInv, PieceInv, Known
<1>8. sent[Wire[i][1]].written <= EncodedSize(sent[Wire[i][1]].shape)
  BY <1>3 DEF OInv, WrittenInv
<1> QED
  BY <1>1, <1>2, <1>3, <1>4, <1>5, <1>6, <1>7, <1>8 DEF Known

\* The first unit of the stream is the first of its frame, and what went out of
\* that frame lies behind it.
LEMMA FrontOfWire ==
  ASSUME OInv, 1 \in DOMAIN Wire
  PROVE  /\ Wire[1][2] = 1 /\ sent[Wire[1][1]].written <= Len(Wire)
         /\ \A m \in 1 .. sent[Wire[1][1]].written : Wire[m] = <<Wire[1][1], m>>
<1> DEFINE f == Wire[1][1]
           k == Wire[1][2]
           w == sent[f].written
<1>1. /\ k <= w /\ k <= 1 /\ 1 - k + w <= Len(Wire)
      /\ \A m \in 1 .. w : Wire[1 - k + m] = <<f, m>>
  BY DEF OInv, PieceInv
<1>2. k \in Nat \ {0} /\ w \in Nat \ {0} /\ Len(Wire) \in Nat
  BY WireUnit, WireType DEF OInv
<1>3. k = 1
  BY <1>1, <1>2
<1> HIDE DEF f, k, w
<1>4. w <= Len(Wire) /\ \A m \in 1 .. w : 1 - k + m = m
  BY <1>1, <1>2, <1>3
<1>5. \A m \in 1 .. w : Wire[m] = <<f, m>>
  BY <1>1, <1>4
<1> QED
  BY <1>3, <1>4, <1>5 DEF f, k, w

\* ::send puts the front of the frame at the end of the stream.
LEMMA SendWire ==
  ASSUME IInv, NEW s \in Shapes, Send(s)
  PROVE  \E n \in Nat :
           /\ n <= EncodedSize(s)
           /\ Len(sent') = Len(sent) + 1
           /\ \A f \in 1 .. Len(sent) : sent'[f] = sent[f]
           /\ sent'[Len(sent) + 1] = [shape |-> s, written |-> n]
           /\ Len(Wire') = Len(Wire) + n
           /\ \A i \in 1 .. Len(Wire) : Wire'[i] = Wire[i]
           /\ \A i \in 1 .. n : Wire'[Len(Wire) + i] = <<Len(sent) + 1, i>>
<1> DEFINE n == Least(EncodedSize(s), SocketSize - Len(socket))
           m == Len(sent) + 1
           new == SubSeq(Encode(m, s), 1, n)
<1>1. Len(sent) \in Nat /\ Len(socket) \in Nat /\ m \in Nat \ {0} /\ sent \in Seq(Sent)
  BY DEF IInv, TypeOK, Sent
<1>2. /\ EncodedSize(s) \in Nat /\ Encode(m, s) \in Seq(Units) /\ Len(Encode(m, s)) = EncodedSize(s)
      /\ \A k \in 1 .. EncodedSize(s) : Encode(m, s)[k] = <<m, k>>
  BY <1>1, CodecTypes
<1>3. n \in 0 .. Len(Encode(m, s)) /\ n \in Nat /\ n <= EncodedSize(s)
  BY <1>1, <1>2, SizesAssumption DEF Least, IInv, UnitsInv
<1>4. new \in Seq(Units) /\ Len(new) = n /\ \A i \in 1 .. n : new[i] = <<m, i>>
  <2>1. new \in Seq(Units) /\ Len(new) = n /\ \A i \in 1 .. n : new[i] = Encode(m, s)[i]
    BY <1>2, <1>3, Cut
  <2> QED
    BY <1>2, <1>3, <2>1
<1>5. [shape |-> s, written |-> n] \in Sent
  BY <1>3 DEF Sent
<1>6. /\ sent' = Append(sent, [shape |-> s, written |-> n])
      /\ socket' = socket \o new /\ buf' = buf
  BY DEF Send
<1> HIDE DEF n, new
<1>7. /\ Len(sent') = m /\ \A f \in 1 .. Len(sent) : sent'[f] = sent[f]
      /\ sent'[m] = [shape |-> s, written |-> n]
  BY <1>1, <1>5, <1>6, AppendProperties
<1>8. Wire' = Wire \o new
  <2>1. buf \in Seq(Units) /\ socket \in Seq(Units)
    BY DEF IInv, TypeOK
  <2>2. (buf \o socket) \o new = buf \o (socket \o new)
    BY <1>4, <2>1, ConcatAssociative
  <2> QED
    BY <1>6, <2>2 DEF Wire
<1>9. Wire \in Seq(Units) /\ Len(Wire) \in Nat
  BY WireType, KnownUnits DEF IInv
<1>10. /\ Len(Wire') = Len(Wire) + n
       /\ \A i \in 1 .. Len(Wire) + n :
            Wire'[i] = IF i <= Len(Wire) THEN Wire[i] ELSE new[i - Len(Wire)]
  BY <1>4, <1>8, <1>9, ConcatProperties
<1>11. \A i \in 1 .. Len(Wire) : Wire'[i] = Wire[i]
  BY <1>3, <1>9, <1>10
<1>12. ASSUME NEW i \in 1 .. n
       PROVE  Wire'[Len(Wire) + i] = <<m, i>>
  <2>1. Len(Wire) + i \in 1 .. Len(Wire) + n /\ ~(Len(Wire) + i <= Len(Wire))
        /\ Len(Wire) + i - Len(Wire) = i
    BY <1>3, <1>9
  <2> QED
    BY <1>4, <1>10, <2>1
<1> QED
  BY <1>3, <1>7, <1>10, <1>11, <1>12

\* recv moves a chunk within the stream.
LEMMA RecvWire ==
  ASSUME IInv, Recv
  PROVE  Wire' = Wire
<1> DEFINE n == Least(RecvSize, Len(socket))
<1>1. socket \in Seq(Known) /\ buf \in Seq(Known) /\ Len(socket) \in Nat /\ n \in 0 .. Len(socket)
  BY SizesAssumption DEF IInv, UnitsInv, Least
<1>2. buf' = buf \o SubSeq(socket, 1, n) /\ socket' = SubSeq(socket, n + 1, Len(socket))
  BY DEF Recv
<1> HIDE DEF n
<1> DEFINE a == SubSeq(socket, 1, n)
           b == SubSeq(socket, n + 1, Len(socket))
<1>3. /\ a \in Seq(Known) /\ Len(a) = n /\ \A i \in 1 .. n : a[i] = socket[i]
      /\ b \in Seq(Known) /\ Len(b) = Len(socket) - n
      /\ \A i \in 1 .. Len(socket) - n : b[i] = socket[n + i]
  BY <1>1, Cut
<1> HIDE DEF a, b
<1>4. a \o b \in Seq(Known) /\ Len(a \o b) = Len(a) + Len(b)
      /\ \A i \in 1 .. Len(a) + Len(b) : (a \o b)[i] = IF i <= Len(a) THEN a[i] ELSE b[i - Len(a)]
  BY <1>3, ConcatProperties
<1>5. Len(a \o b) = Len(socket)
  BY <1>1, <1>3, <1>4
<1>6. ASSUME NEW i \in 1 .. Len(a \o b)
      PROVE  (a \o b)[i] = socket[i]
  <2>1. i \in 1 .. Len(a) + Len(b)
    BY <1>4
  <2>2. CASE i <= n
    BY <1>1, <1>3, <1>4, <2>1, <2>2
  <2>3. CASE ~(i <= n)
    <3>1. i - n \in 1 .. Len(socket) - n /\ n + (i - n) = i
      BY <1>1, <1>5, <2>3
    <3> QED
      BY <1>3, <1>4, <2>1, <2>3, <3>1
  <2> QED
    BY <2>2, <2>3
<1>7. a \o b = socket
  BY <1>1, <1>4, <1>5, <1>6, SeqEqual
<1>8. (buf \o a) \o b = buf \o (a \o b)
  BY <1>1, <1>3, ConcatAssociative
<1> QED
  BY <1>2, <1>7, <1>8 DEF Wire, a, b

\* A frame that is put together leaves the front of the stream.
LEMMA ParseWire ==
  ASSUME IInv, ParseFrame, NEW n, n = BodyLen + HeaderSize
  PROVE  /\ n \in Nat \ {0} /\ n <= Len(buf) /\ n <= Len(Wire)
         /\ Len(Wire') = Len(Wire) - n
         /\ \A i \in 1 .. Len(Wire) - n : Wire'[i] = Wire[n + i]
<1>1. /\ Complete /\ Len(buf) >= MinFrameSize
      /\ buf' = SubSeq(buf, n + 1, Len(buf)) /\ socket' = socket /\ sent' = sent
  BY DEF ParseFrame, Complete
<1>2. BodyLen \in Nat
  BY <1>1, BodyLenType DEF IInv
<1>3. buf \in Seq(Known) /\ Len(buf) \in Nat /\ n \in Nat \ {0} /\ n <= Len(buf)
  BY <1>1, <1>2 DEF IInv, UnitsInv, Complete, HeaderSize
<1>4. /\ Len(buf') = Len(buf) - n
      /\ \A i \in 1 .. Len(buf) - n : buf'[i] = buf[n + i]
  BY <1>1, <1>3, Cut
<1>5. /\ Len(Wire) = Len(buf) + Len(socket) /\ Len(socket) \in Nat
      /\ \A i \in 1 .. Len(buf) : Wire[i] = buf[i]
      /\ \A i \in 1 .. Len(socket) : Wire[Len(buf) + i] = socket[i]
  BY WireType
<1>6. IInv'
  BY ParseFrameKeeps
<1>7. buf' \in Seq(Known') /\ socket' \in Seq(Known')
  BY <1>6 DEF IInv, UnitsInv
<1>8. /\ Len(Wire') = Len(buf') + Len(socket')
      /\ \A i \in 1 .. Len(buf') + Len(socket') :
           Wire'[i] = IF i <= Len(buf') THEN buf'[i] ELSE socket'[i - Len(buf')]
  BY <1>7, ConcatProperties DEF Wire
<1>9. Len(Wire') = Len(Wire) - n
  BY <1>1, <1>3, <1>4, <1>5, <1>8
<1>10. ASSUME NEW i \in 1 .. Len(Wire) - n
       PROVE  Wire'[i] = Wire[n + i]
  <2>1. i \in 1 .. Len(buf') + Len(socket')
    <3>1. Len(buf') + Len(socket') = Len(Wire) - n
      BY <1>8, <1>9
    <3> QED
      BY <3>1
  <2>2. CASE i <= Len(buf')
    <3>1. n + i \in 1 .. Len(buf) /\ i \in 1 .. Len(buf) - n
      BY <1>3, <1>4, <2>2
    <3> QED
      BY <1>4, <1>5, <1>8, <2>1, <2>2, <3>1
  <2>3. CASE ~(i <= Len(buf'))
    <3>1. i - Len(buf') \in 1 .. Len(socket) /\ n + i = Len(buf) + (i - Len(buf'))
      <4>1. Len(buf') = Len(buf) - n /\ Len(Wire) = Len(buf) + Len(socket)
        BY <1>4, <1>5
      <4>2. Len(socket) \in Nat /\ i \in Nat
        BY <1>5
      <4>3. i <= Len(Wire) - n /\ 1 <= i /\ i > Len(buf')
        <5>1. Len(Wire) \in Nat
          BY WireType
        <5>2. Len(buf') \in Nat
          BY <1>3, <4>1
        <5> QED
          BY <1>3, <2>3, <4>2, <5>1, <5>2
      <4> QED
        BY <1>3, <4>1, <4>2, <4>3
    <3>2. Wire'[i] = socket[i - Len(buf')]
      <4>1. Wire'[i] = socket'[i - Len(buf')]
        BY <1>8, <2>1, <2>3
      <4>2. socket' = socket
        BY <1>1
      <4> QED
        BY <4>1, <4>2
    <3>3. Wire[Len(buf) + (i - Len(buf'))] = socket[i - Len(buf')]
      BY <1>5, <3>1
    <3> QED
      BY <3>1, <3>2, <3>3
  <2> QED
    BY <2>2, <2>3
<1> QED
  BY <1>3, <1>5, <1>9, <1>10

\* What was put together is a sequence of decoded frames, handed on or about to be.
LEMMA DeliveredType ==
  ASSUME IInv
  PROVE  /\ Delivered \in Seq(Framed) /\ Len(Delivered) = Len(handled) + Len(frames)
         /\ DOMAIN Delivered = 1 .. Len(Delivered) /\ Len(Delivered) \in Nat
         /\ Len(handled) \in Nat /\ Len(frames) \in Nat
         /\ \A d \in 1 .. Len(Delivered) : Delivered[d].frame \in 1 .. Len(sent)
         /\ \A d \in 1 .. Len(handled) : Delivered[d] = handled[d]
<1>1. frames \in Seq(Framed) /\ handled \in Seq(Framed) /\ Decoded(frames) /\ Decoded(handled)
  BY DEF IInv, TypeOK, FramesInv, Framed
<1>2. /\ Delivered \in Seq(Framed) /\ Len(Delivered) = Len(handled) + Len(frames)
      /\ \A i \in 1 .. Len(handled) + Len(frames) :
           Delivered[i] = IF i <= Len(handled) THEN handled[i] ELSE frames[i - Len(handled)]
  BY <1>1, ConcatProperties DEF Delivered
<1>3. Len(handled) \in Nat /\ Len(frames) \in Nat
  BY <1>1
<1>4. \A d \in 1 .. Len(handled) : Delivered[d] = handled[d]
  BY <1>2, <1>3
<1>5. ASSUME NEW d \in 1 .. Len(Delivered)
      PROVE  Delivered[d].frame \in 1 .. Len(sent)
  <2>1. CASE d <= Len(handled)
    <3>1. d \in 1 .. Len(handled) /\ Delivered[d] = handled[d]
      BY <1>3, <1>4, <2>1
    <3>2. \A i \in 1 .. Len(handled) : handled[i].frame \in 1 .. Len(sent)
      BY <1>1 DEF Decoded
    <3> QED
      BY <3>1, <3>2
  <2>2. CASE ~(d <= Len(handled))
    <3>1. d - Len(handled) \in 1 .. Len(frames) /\ Delivered[d] = frames[d - Len(handled)]
      <4>1. d \in 1 .. Len(handled) + Len(frames)
        BY <1>2
      <4>2. d - Len(handled) \in 1 .. Len(frames)
        BY <1>3, <2>2, <4>1
      <4> QED
        BY <1>2, <2>2, <4>1, <4>2
    <3> QED
      BY <1>1, <3>1 DEF Decoded
  <2> QED
    BY <2>1, <2>2
<1> QED
  BY <1>2, <1>3, <1>4, <1>5

\* A frame is sent: it comes last in the stream, whole or cut short.
LEMMA SendOrder ==
  ASSUME OInv, NEW s \in Shapes, Send(s)
  PROVE  OInv'
<1> DEFINE c == Len(sent)
           L == Len(Wire)
<1>1. IInv /\ IInv'
  BY SendKeeps DEF OInv
<1>2. PICK n \in Nat :
        /\ n <= EncodedSize(s)
        /\ Len(sent') = c + 1
        /\ \A f \in 1 .. c : sent'[f] = sent[f]
        /\ sent'[c + 1] = [shape |-> s, written |-> n]
        /\ Len(Wire') = L + n
        /\ \A i \in 1 .. L : Wire'[i] = Wire[i]
        /\ \A i \in 1 .. n : Wire'[L + i] = <<c + 1, i>>
  BY <1>1, SendWire
<1>3. c \in Nat /\ L \in Nat /\ DOMAIN sent = 1 .. c /\ DOMAIN Wire = 1 .. L
  BY <1>1, WireType DEF IInv, TypeOK
<1>4. DOMAIN sent' = 1 .. c + 1 /\ DOMAIN Wire' = 1 .. L + n
  <2>1. sent' \in Seq(Sent)
    BY <1>1 DEF IInv, TypeOK, Sent
  <2>2. buf' \in Seq(Units) /\ socket' \in Seq(Units)
    BY <1>1 DEF IInv, TypeOK
  <2>3. Wire' \in Seq(Units)
    BY <2>2, ConcatProperties DEF Wire
  <2> QED
    BY <1>2, <2>1, <2>3
<1>5. Delivered' = Delivered /\ at' = at
  BY DEF Send, Delivered
<1> HIDE DEF c, L
<1>6. WrittenInv'
  <2>1. ASSUME NEW f \in 1 .. c + 1
        PROVE  sent'[f].written <= EncodedSize(sent'[f].shape)
    <3>1. CASE f \in 1 .. c
      BY <1>2, <1>3, <3>1 DEF OInv, WrittenInv
    <3>2. CASE f = c + 1
      BY <1>2, <3>2
    <3> QED
      BY <1>3, <3>1, <3>2
  <2> QED
    BY <1>4, <2>1 DEF WrittenInv, EncodedSize, BodySize
<1>7. \A i \in 1 .. L : /\ Wire[i][1] \in 1 .. c /\ Wire[i][2] \in Nat \ {0}
                        /\ sent[Wire[i][1]].written \in Nat \ {0}
  BY <1>3, WireUnit DEF c
<1>8. \A i \in 1 .. L + n : i \in 1 .. L \/ \E j \in 1 .. n : i = L + j
  <2> TAKE i \in 1 .. L + n
  <2>1. CASE i <= L
    BY <1>3, <2>1
  <2>2. CASE i > L
    <3>1. i - L \in 1 .. n /\ i = L + (i - L)
      BY <1>3, <2>2
    <3> QED
      BY <3>1
  <2> QED
    BY <1>3, <2>1, <2>2
<1>9. PieceInv'
  <2>1. ASSUME NEW i \in 1 .. L + n
        PROVE  /\ Wire'[i][2] <= sent'[Wire'[i][1]].written /\ Wire'[i][2] <= i
               /\ i - Wire'[i][2] + sent'[Wire'[i][1]].written <= L + n
               /\ \A m \in 1 .. sent'[Wire'[i][1]].written :
                    Wire'[i - Wire'[i][2] + m] = <<Wire'[i][1], m>>
    <3>1. CASE i \in 1 .. L
      <4> DEFINE f == Wire[i][1]
                 k == Wire[i][2]
                 w == sent[f].written
      <4>1. /\ k <= w /\ k <= i /\ i - k + w <= L
            /\ \A m \in 1 .. w : Wire[i - k + m] = <<f, m>>
        BY <1>3, <3>1 DEF OInv, PieceInv, L
      <4>2. f \in 1 .. c /\ k \in Nat \ {0} /\ w \in Nat \ {0}
        BY <1>7, <3>1
      <4>3. Wire'[i] = Wire[i] /\ sent'[f] = sent[f]
        BY <1>2, <3>1, <4>2
      <4> HIDE DEF f, k, w
      <4>4. \A m \in 1 .. w : i - k + m \in 1 .. L
        BY <1>3, <3>1, <4>1, <4>2
      <4>5. \A m \in 1 .. w : Wire'[i - k + m] = <<f, m>>
        BY <1>2, <4>1, <4>4
      <4>6. i - k + w <= L + n
        BY <1>3, <3>1, <4>1, <4>2
      <4> QED
        BY <4>1, <4>3, <4>5, <4>6 DEF f, k, w
    <3>2. ASSUME NEW j \in 1 .. n, i = L + j
          PROVE  /\ Wire'[i][2] <= sent'[Wire'[i][1]].written /\ Wire'[i][2] <= i
                 /\ i - Wire'[i][2] + sent'[Wire'[i][1]].written <= L + n
                 /\ \A m \in 1 .. sent'[Wire'[i][1]].written :
                      Wire'[i - Wire'[i][2] + m] = <<Wire'[i][1], m>>
      <4>1. Wire'[i][1] = c + 1 /\ Wire'[i][2] = j /\ sent'[c + 1].written = n
        BY <1>2, <3>2
      <4>2. i - j = L /\ j <= n /\ j <= i
        BY <1>3, <3>2
      <4> QED
        BY <1>2, <1>3, <4>1, <4>2
    <3> QED
      BY <1>8, <3>1, <3>2
  <2> QED
    BY <1>2, <1>4, <2>1 DEF PieceInv
<1>10. OrderInv'
  <2>1. ASSUME NEW i \in 1 .. L + n, NEW j \in 1 .. L + n, i < j
        PROVE  \/ Wire'[i][1] < Wire'[j][1]
               \/ Wire'[i][1] = Wire'[j][1] /\ Wire'[j][2] = Wire'[i][2] + (j - i)
    <3>1. CASE j \in 1 .. L
      <4>1. i \in 1 .. L
        BY <1>3, <2>1, <3>1
      <4>2. \/ Wire[i][1] < Wire[j][1]
            \/ Wire[i][1] = Wire[j][1] /\ Wire[j][2] = Wire[i][2] + (j - i)
        BY <1>3, <2>1, <3>1, <4>1 DEF OInv, OrderInv
      <4> QED
        BY <1>2, <3>1, <4>1, <4>2
    <3>2. ASSUME NEW q \in 1 .. n, j = L + q, i \in 1 .. L
          PROVE  Wire'[i][1] < Wire'[j][1]
      <4>1. Wire'[i][1] \in 1 .. c /\ Wire'[j][1] = c + 1
        BY <1>2, <1>7, <3>2
      <4> QED
        BY <1>3, <4>1
    <3>3. ASSUME NEW q \in 1 .. n, j = L + q, NEW p \in 1 .. n, i = L + p
          PROVE  Wire'[i][1] = Wire'[j][1] /\ Wire'[j][2] = Wire'[i][2] + (j - i)
      <4>1. Wire'[i] = <<c + 1, p>> /\ Wire'[j] = <<c + 1, q>>
        BY <1>2, <3>3
      <4>2. q = p + (j - i)
        BY <1>3, <3>3
      <4> QED
        BY <4>1, <4>2
    <3> QED
      BY <1>8, <3>1, <3>2, <3>3
  <2> QED
    BY <1>4, <2>1 DEF OrderInv
<1>11. /\ DOMAIN Delivered = 1 .. Len(Delivered)
       /\ \A d \in DOMAIN Delivered : Delivered[d].frame \in 1 .. c
  BY <1>1, DeliveredType DEF c
<1>12. AheadInv'
  <2>1. ASSUME NEW d \in DOMAIN Delivered, NEW i \in 1 .. L + n
        PROVE  Delivered[d].frame < Wire'[i][1]
    <3>1. CASE i \in 1 .. L
      BY <1>2, <1>3, <3>1 DEF OInv, AheadInv
    <3>2. ASSUME NEW q \in 1 .. n, i = L + q
          PROVE  Delivered[d].frame < Wire'[i][1]
      <4>1. Wire'[i][1] = c + 1
        BY <1>2, <3>2
      <4> QED
        BY <1>3, <1>11, <4>1
    <3> QED
      BY <1>8, <3>1, <3>2
  <2>2. ASSUME at # "closed", NEW g \in 1 .. c + 1
        PROVE  \/ sent'[g].written = 0
               \/ \E d \in DOMAIN Delivered : Delivered[d].frame = g
               \/ \E i \in 1 .. L + n : Wire'[i][1] = g
    <3>1. CASE g \in 1 .. c
      <4>1. \/ sent[g].written = 0
            \/ \E d \in DOMAIN Delivered : Delivered[d].frame = g
            \/ \E i \in 1 .. L : Wire[i][1] = g
        BY <1>3, <2>2, <3>1 DEF OInv, AheadInv, Unsent
      <4>2. \A i \in 1 .. L : i \in 1 .. L + n /\ Wire'[i] = Wire[i]
        BY <1>2, <1>3
      <4> QED
        BY <1>2, <3>1, <4>1, <4>2
    <3>2. CASE g = c + 1
      <4>1. CASE n = 0
        BY <1>2, <3>2, <4>1
      <4>2. CASE n # 0
        <5>1. 1 \in 1 .. n /\ L + 1 \in 1 .. L + n
          BY <1>3, <4>2
        <5>2. Wire'[L + 1][1] = c + 1
          BY <1>2, <5>1
        <5> QED
          BY <3>2, <5>1, <5>2
      <4> QED
        BY <4>1, <4>2
    <3> QED
      BY <1>3, <3>1, <3>2
  <2> QED
    BY <1>4, <1>5, <2>1, <2>2 DEF AheadInv, Unsent
<1>13. InOrder(Delivered)'
  <2>1. \A f \in 1 .. c : (Sound(f)' <=> Sound(f)) /\ (Unsent(f)' <=> Unsent(f))
    BY <1>2 DEF Sound, Unsent, EncodedSize, BodySize
  <2>2. \A d \in DOMAIN Delivered :
          /\ Sound(Delivered[d].frame)'
          /\ \A g \in 1 .. Delivered[d].frame - 1 : Unsent(g)' <=> Unsent(g)
    <3> TAKE d \in DOMAIN Delivered
    <3>1. Delivered[d].frame \in 1 .. c /\ Sound(Delivered[d].frame)
      BY <1>11 DEF OInv, InOrder
    <3>2. \A g \in 1 .. Delivered[d].frame - 1 : g \in 1 .. c
      BY <1>3, <3>1
    <3>3. sent'[Delivered[d].frame] = sent[Delivered[d].frame]
      BY <1>2, <3>1
    <3> QED
      BY <1>5, <2>1, <3>1, <3>2, <3>3 DEF Sound, EncodedSize, BodySize
  <2> QED
    BY <1>5, <2>2 DEF OInv, InOrder
<1>14. ClosedForCause'
  <2>1. ASSUME at = "closed"
        PROVE  \E f \in DOMAIN sent' : (~Sound(f) /\ ~Unsent(f))'
    <3>1. PICK f \in 1 .. c : ~Sound(f) /\ ~Unsent(f)
      BY <1>3, <2>1 DEF OInv, ClosedForCause
    <3>2. f \in DOMAIN sent' /\ sent'[f] = sent[f]
      BY <1>2, <1>3, <1>4
    <3> QED
      BY <3>1, <3>2 DEF Sound, Unsent, EncodedSize, BodySize
  <2> QED
    BY <1>5, <2>1 DEF ClosedForCause
<1> QED
  BY <1>1, <1>6, <1>9, <1>10, <1>12, <1>13, <1>14 DEF OInv
\* Steps that leave the stream and the frames as they are: recv, the waits, and
\* handing the frames on.
LEMMA StayOrder ==
  ASSUME OInv, IInv', sent' = sent, Wire' = Wire, Delivered' = Delivered,
         at' = "closed" <=> at = "closed"
  PROVE  OInv'
<1>1. WrittenInv' /\ PieceInv' /\ OrderInv'
  BY DEF OInv, WrittenInv, PieceInv, OrderInv, EncodedSize, BodySize
<1>2. AheadInv'
  BY DEF OInv, AheadInv, Unsent
<1>3. InOrder(Delivered)' /\ ClosedForCause'
  BY DEF OInv, InOrder, ClosedForCause, Sound, Unsent, EncodedSize, BodySize
<1> QED
  BY <1>1, <1>2, <1>3 DEF OInv

\* A frame is put together: it is sound, whole, and next in order.
LEMMA ParseOrder ==
  ASSUME OInv, ParseFrame
  PROVE  OInv'
<1> DEFINE n == BodyLen + HeaderSize
           f == buf[1][1]
           c == Len(sent)
           L == Len(Wire)
           D == Len(Delivered)
<1>1. /\ IInv /\ IInv' /\ at = "parse" /\ at' = "parse" /\ sent' = sent /\ handled' = handled
      /\ frames' = Append(frames, Decode(f, sent[f].shape))
  BY ParseFrameKeeps DEF OInv, ParseFrame
<1>2. /\ n \in Nat \ {0} /\ n <= Len(buf) /\ n <= L /\ Len(Wire') = L - n
      /\ \A i \in 1 .. L - n : Wire'[i] = Wire[n + i]
  BY <1>1, ParseWire
<1>3. /\ L \in Nat /\ DOMAIN Wire = 1 .. L /\ Len(buf) \in Nat
      /\ \A i \in 1 .. Len(buf) : Wire[i] = buf[i]
  BY <1>1, WireType
<1>4. DOMAIN Wire' = 1 .. L - n
  <2>1. buf' \in Seq(Units) /\ socket' \in Seq(Units)
    BY <1>1 DEF IInv, TypeOK
  <2>2. Wire' \in Seq(Units)
    BY <2>1, ConcatProperties DEF Wire
  <2> QED
    BY <1>2, <2>2
<1>5. 1 \in 1 .. Len(buf) /\ 1 \in DOMAIN Wire /\ Wire[1] = buf[1]
  BY <1>2, <1>3
<1>6. /\ f \in 1 .. c /\ c \in Nat /\ DOMAIN sent = 1 .. c
      /\ sent[f] \in Sent /\ sent[f].written \in Nat \ {0}
      /\ EncodedSize(sent[f].shape) \in Nat /\ sent[f].written <= EncodedSize(sent[f].shape)
  <2>1. /\ f \in 1 .. c /\ sent[f] \in Sent /\ sent[f].written \in Nat \ {0}
        /\ EncodedSize(sent[f].shape) \in Nat /\ sent[f].written <= EncodedSize(sent[f].shape)
    <3>1. Wire[1][1] = f
      BY <1>5
    <3> HIDE DEF f, n, c
    <3> QED
      BY <1>5, <3>1, WireUnit DEF c
  <2>2. c \in Nat /\ DOMAIN sent = 1 .. c
    BY <1>1 DEF IInv, TypeOK
  <2> QED
    BY <2>1, <2>2
<1>7. /\ sent[f].shape.kind = "good" /\ BodyLen = BodySize(sent[f].shape)
      /\ \A k \in 1 .. n : buf[k] = <<f, k>>
  BY DEF ParseFrame, Authentic
<1>8. n = EncodedSize(sent[f].shape)
  <2>1. BodyLen \in Nat
    BY <1>1, BodyLenType DEF IInv, ParseFrame, Complete
  <2> QED
    BY <1>7, <2>1 DEF EncodedSize, HeaderSize
<1>9. \A k \in 1 .. n : Wire[k] = <<f, k>>
  BY <1>2, <1>3, <1>7
<1>10. sent[f].written = n
  <2>1. n \in DOMAIN Wire /\ Wire[n] = <<f, n>>
    BY <1>2, <1>3, <1>9
  <2>2. n <= sent[f].written
    BY <2>1 DEF OInv, PieceInv
  <2> QED
    BY <1>2, <1>6, <1>8, <2>2
<1>11. EncodedSize(sent[f].shape) <= MaxFrameSize
  <2>1. ~TooLong(BodyLen) /\ BodyLen \in Nat
    <3>1. Len(buf) >= MinFrameSize /\ ~TooLong(BodyLen)
      BY DEF ParseFrame, Complete, Readable
    <3> QED
      BY <1>1, <3>1, BodyLenType DEF IInv
  <2>2. BodyLen + HeaderSize <= MaxFrameSize
    BY <2>1, SizesAssumption DEF TooLong, HeaderSize
  <2> QED
    BY <1>8, <2>2
<1>12. Sound(f)
  BY <1>7, <1>8, <1>10, <1>11 DEF Sound
\* what follows in the stream is of later frames
<1> HIDE DEF n, f, c, L
<1>13. \A i \in 1 .. L : Wire[i][1] \in 1 .. c /\ Wire[i][2] \in Nat \ {0}
  BY <1>3, WireUnit DEF c
<1>14. ASSUME NEW i \in 1 .. L, i > n
       PROVE  Wire[i][1] > f
  <2>1. 1 \in DOMAIN Wire /\ i \in DOMAIN Wire /\ 1 < i
    BY <1>2, <1>3, <1>5, <1>14
  <2>2. Wire[1] = <<f, 1>>
    BY <1>2, <1>9
  <2>3. \/ Wire[1][1] < Wire[i][1]
        \/ Wire[1][1] = Wire[i][1] /\ Wire[i][2] = Wire[1][2] + (i - 1)
    BY <2>1 DEF OInv, OrderInv
  <2>4. CASE f = Wire[i][1] /\ Wire[i][2] = 1 + (i - 1)
    <3>1. Wire[i][2] <= sent[Wire[i][1]].written
      BY <2>1 DEF OInv, PieceInv
    <3> QED
      BY <1>2, <1>10, <1>14, <2>4, <3>1
  <2>5. f \in Nat /\ Wire[i][1] \in Nat
    BY <1>6, <1>13
  <2> QED
    BY <2>2, <2>3, <2>4, <2>5
<1>15. \A i \in 1 .. L - n : n + i \in 1 .. L /\ n + i > n
  BY <1>2, <1>3
<1>16. PieceInv'
  <2>1. ASSUME NEW i \in 1 .. L - n
        PROVE  /\ Wire'[i][2] <= sent[Wire'[i][1]].written /\ Wire'[i][2] <= i
               /\ i - Wire'[i][2] + sent[Wire'[i][1]].written <= L - n
               /\ \A m \in 1 .. sent[Wire'[i][1]].written :
                    Wire'[i - Wire'[i][2] + m] = <<Wire'[i][1], m>>
    <3> DEFINE g == Wire[n + i][1]
               k == Wire[n + i][2]
               w == sent[g].written
    <3>1. Wire'[i] = Wire[n + i] /\ n + i \in 1 .. L /\ g > f /\ k \in Nat \ {0}
      BY <1>2, <1>13, <1>14, <1>15
    <3>2. /\ k <= w /\ k <= n + i /\ (n + i) - k + w <= L
          /\ \A m \in 1 .. w : Wire[(n + i) - k + m] = <<g, m>>
      <4>1. n + i \in DOMAIN Wire
        BY <1>3, <3>1
      <4>2. PieceInv
        BY DEF OInv
      <4>3. /\ k <= w /\ k <= n + i /\ (n + i) - k + w <= Len(Wire)
            /\ \A m \in 1 .. w : Wire[(n + i) - k + m] = <<g, m>>
        BY <4>1, <4>2 DEF PieceInv
      <4> QED
        BY <4>3 DEF L
    <3>3. w \in Nat \ {0}
      <4>1. n + i \in DOMAIN Wire
        BY <1>3, <3>1
      <4>2. sent[Wire[n + i][1]].written \in Nat \ {0}
        BY <4>1, WireUnit
      <4> QED
        BY <4>2
    <3>4. f \in Nat /\ g \in Nat
      BY <1>6, <1>13, <3>1
    <3> HIDE DEF g, k, w
    <3>5. k <= i
      <4> SUFFICES ASSUME k > i PROVE FALSE
        BY <3>1
      <4>1. (n + i) - k + 1 \in 1 .. n /\ 1 \in 1 .. w
        BY <1>2, <3>1, <3>2, <3>3
      <4>2. Wire[(n + i) - k + 1] = <<g, 1>>
        BY <3>2, <4>1
      <4>3. Wire[(n + i) - k + 1][1] = f
        BY <1>9, <4>1
      <4> QED
        BY <3>1, <3>4, <4>2, <4>3
    <3>6. i - k + w <= L - n
      BY <1>2, <1>3, <3>1, <3>2, <3>3
    <3>7. ASSUME NEW m \in 1 .. w
          PROVE  Wire'[i - k + m] = <<g, m>>
      <4>1. i - k + m \in 1 .. L - n /\ n + (i - k + m) = (n + i) - k + m
        BY <1>2, <1>3, <3>1, <3>3, <3>5, <3>6
      <4> QED
        BY <1>2, <3>2, <4>1
    <3> QED
      BY <3>1, <3>2, <3>5, <3>6, <3>7 DEF g, k, w
  <2> QED
    BY <1>1, <1>2, <1>4, <2>1 DEF PieceInv
<1>17. OrderInv'
  <2>1. ASSUME NEW i \in 1 .. L - n, NEW j \in 1 .. L - n, i < j
        PROVE  \/ Wire'[i][1] < Wire'[j][1]
               \/ Wire'[i][1] = Wire'[j][1] /\ Wire'[j][2] = Wire'[i][2] + (j - i)
    <3>1. /\ n + i \in DOMAIN Wire /\ n + j \in DOMAIN Wire /\ n + i < n + j
          /\ (n + j) - (n + i) = j - i
      BY <1>2, <1>3, <2>1
    <3>2. \/ Wire[n + i][1] < Wire[n + j][1]
          \/ /\ Wire[n + i][1] = Wire[n + j][1]
             /\ Wire[n + j][2] = Wire[n + i][2] + ((n + j) - (n + i))
      BY <3>1 DEF OInv, OrderInv
    <3> QED
      BY <1>2, <3>1, <3>2
  <2> QED
    BY <1>4, <2>1 DEF OrderInv
\* the frame comes last of those put together
<1>18. /\ Delivered \in Seq(Framed) /\ DOMAIN Delivered = 1 .. D /\ D \in Nat
       /\ \A d \in 1 .. D : Delivered[d].frame \in 1 .. c
  BY <1>1, DeliveredType DEF c
<1>19. /\ Delivered' \in Seq(Framed) /\ Len(Delivered') = D + 1
       /\ \A d \in 1 .. D : Delivered'[d] = Delivered[d]
       /\ Delivered'[D + 1].frame = f
  <2>1. f \in Nat \ {0} /\ sent[f].shape \in Shapes
    BY <1>6 DEF Sent
  <2>2. Decode(f, sent[f].shape) \in Framed /\ Decode(f, sent[f].shape).frame = f
    BY <2>1, CodecTypes
  <2>3. frames' = Append(frames, Decode(f, sent[f].shape))
    BY <1>1 DEF f
  <2>4. frames \in Seq(Framed) /\ handled \in Seq(Framed)
    BY <1>1 DEF IInv, TypeOK, Framed
  <2>5. frames' = frames \o << Decode(f, sent[f].shape) >> /\ << Decode(f, sent[f].shape) >> \in Seq(Framed)
    BY <2>2, <2>3, <2>4, AppendIsConcat
  <2>6. Delivered' = Delivered \o << Decode(f, sent[f].shape) >>
    BY <1>1, <2>4, <2>5, ConcatAssociative DEF Delivered
  <2>7. Delivered' = Append(Delivered, Decode(f, sent[f].shape))
    BY <1>18, <2>2, <2>6, AppendIsConcat
  <2> QED
    BY <1>18, <2>2, <2>7, AppendProperties
<1> HIDE DEF D
<1>20. DOMAIN Delivered' = 1 .. D + 1 /\ \A d \in 1 .. D + 1 : d \in 1 .. D \/ d = D + 1
  BY <1>18, <1>19
<1>21. \A d \in 1 .. D : Delivered[d].frame < f
  <2>1. Wire[1][1] = f
    BY <1>2, <1>9
  <2> QED
    BY <1>5, <1>18, <2>1 DEF OInv, AheadInv
<1>22. AheadInv'
  <2>1. ASSUME NEW d \in 1 .. D + 1, NEW i \in 1 .. L - n
        PROVE  Delivered'[d].frame < Wire'[i][1]
    <3>1. Wire'[i] = Wire[n + i] /\ n + i \in DOMAIN Wire /\ Wire[n + i][1] > f
      BY <1>2, <1>3, <1>14, <1>15
    <3>2. CASE d \in 1 .. D
      BY <1>18, <1>19, <3>1, <3>2 DEF OInv, AheadInv
    <3>3. CASE d = D + 1
      <4>1. f \in Nat /\ Wire[n + i][1] \in Nat
        BY <1>3, <1>6, <1>13, <3>1
      <4> QED
        BY <1>19, <3>1, <3>3, <4>1
    <3> QED
      BY <1>20, <3>2, <3>3
  <2>2. ASSUME NEW g \in 1 .. c
        PROVE  \/ Unsent(g)
               \/ \E d \in 1 .. D + 1 : Delivered'[d].frame = g
               \/ \E i \in 1 .. L - n : Wire'[i][1] = g
    <3>1. \/ Unsent(g) \/ \E d \in 1 .. D : Delivered[d].frame = g
          \/ \E i \in 1 .. L : Wire[i][1] = g
      BY <1>1, <1>3, <1>6, <1>18 DEF OInv, AheadInv
    <3>2. ASSUME NEW d \in 1 .. D, Delivered[d].frame = g
          PROVE  \E e \in 1 .. D + 1 : Delivered'[e].frame = g
      BY <1>18, <1>19, <3>2
    <3>3. ASSUME NEW i \in 1 .. L, Wire[i][1] = g, i <= n
          PROVE  \E e \in 1 .. D + 1 : Delivered'[e].frame = g
      <4>1. i \in 1 .. n
        BY <3>3
      <4>2. g = f
        BY <1>9, <3>3, <4>1
      <4>3. D + 1 \in 1 .. D + 1
        BY <1>18
      <4> QED
        BY <1>19, <4>2, <4>3
    <3>4. ASSUME NEW i \in 1 .. L, Wire[i][1] = g, i > n
          PROVE  \E e \in 1 .. L - n : Wire'[e][1] = g
      <4>1. i - n \in 1 .. L - n /\ n + (i - n) = i
        BY <1>2, <1>3, <3>4
      <4> QED
        BY <1>2, <3>4, <4>1
    <3>5. \A i \in 1 .. L : i <= n \/ i > n
      BY <1>2, <1>3
    <3> QED
      BY <3>1, <3>2, <3>3, <3>4, <3>5
  <2>3. \A g \in 1 .. c : Unsent(g)' <=> Unsent(g)
    BY <1>1 DEF Unsent
  <2> QED
    BY <1>1, <1>4, <1>6, <1>20, <2>1, <2>2, <2>3 DEF AheadInv
<1>23. InOrder(Delivered)'
  <2>1. ASSUME NEW d \in 1 .. D + 1
        PROVE  /\ Sound(Delivered'[d].frame)
               /\ \A j \in 1 .. d - 1 : Delivered'[j].frame < Delivered'[d].frame
               /\ \A g \in 1 .. Delivered'[d].frame - 1 :
                    Unsent(g) \/ \E j \in 1 .. d - 1 : Delivered'[j].frame = g
    <3>1. CASE d \in 1 .. D
      <4>1. \A j \in 1 .. d - 1 : j \in 1 .. D /\ Delivered'[j] = Delivered[j]
        BY <1>18, <1>19, <3>1
      <4>2. /\ Sound(Delivered[d].frame)
            /\ \A j \in 1 .. d - 1 : Delivered[j].frame < Delivered[d].frame
            /\ \A g \in 1 .. Delivered[d].frame - 1 :
                 Unsent(g) \/ \E j \in 1 .. d - 1 : Delivered[j].frame = g
        BY <1>18, <3>1 DEF OInv, InOrder
      <4>3. Delivered'[d] = Delivered[d]
        BY <1>19, <3>1
      <4> QED
        BY <4>1, <4>2, <4>3
    <3>2. CASE d = D + 1
      <4>1. Delivered'[d].frame = f /\ d - 1 = D
        BY <1>18, <1>19, <3>2
      <4>2. \A j \in 1 .. D : Delivered'[j].frame < f
        BY <1>19, <1>21
      <4>3. ASSUME NEW g \in 1 .. f - 1
            PROVE  Unsent(g) \/ \E j \in 1 .. D : Delivered'[j].frame = g
        <5>1. g \in DOMAIN sent /\ g < f
          BY <1>6
        <5>2. \/ Unsent(g) \/ \E j \in 1 .. D : Delivered[j].frame = g
              \/ \E i \in 1 .. L : Wire[i][1] = g
          BY <1>1, <1>3, <1>18, <5>1 DEF OInv, AheadInv
        <5>3. ASSUME NEW i \in 1 .. L
              PROVE  Wire[i][1] # g
          <6>1. CASE i \in 1 .. n
            BY <1>6, <1>9, <5>1, <6>1
          <6>2. CASE i > n
            <7>1. Wire[i][1] > f /\ Wire[i][1] \in Nat /\ f \in Nat
              BY <1>6, <1>13, <1>14, <6>2
            <7> QED
              BY <5>1, <7>1
          <6> QED
            BY <1>2, <6>1, <6>2
        <5> QED
          BY <1>19, <5>2, <5>3
      <4> QED
        BY <1>12, <4>1, <4>2, <4>3
    <3> QED
      BY <1>20, <3>1, <3>2
  <2>2. \A g : (Sound(g)' <=> Sound(g)) /\ (Unsent(g)' <=> Unsent(g))
    BY <1>1 DEF Sound, Unsent, EncodedSize, BodySize
  <2>3. \A d \in 1 .. D + 1 : Sound(Delivered[d].frame)' <=> Sound(Delivered'[d].frame)
    BY <1>1 DEF Sound, EncodedSize, BodySize
  <2> QED
    BY <1>20, <2>1, <2>2, <2>3 DEF InOrder
<1>24. WrittenInv' /\ ClosedForCause'
  BY <1>1 DEF OInv, WrittenInv, ClosedForCause, EncodedSize, BodySize
<1> QED
  BY <1>1, <1>16, <1>17, <1>22, <1>23, <1>24 DEF OInv

\* A connection is closed: the frame in front is damaged, or should not be there,
\* and nothing of what was put together in this read is handed on.
LEMMA CloseOrder ==
  ASSUME OInv, ParseRefuse \/ ParseFails, IInv'
  PROVE  OInv'
<1> DEFINE f == buf[1][1]
           w == sent[f].written
           size == EncodedSize(sent[f].shape)
<1>1. /\ IInv /\ at = "parse" /\ at' = "closed" /\ frames' = <<>>
      /\ UNCHANGED <<sent, socket, buf, handled>> /\ Len(buf) >= MinFrameSize
  BY DEF OInv, ParseRefuse, ParseFails, Complete, Close
<1>2. /\ Wire' = Wire /\ Len(buf) \in Nat /\ Len(buf) >= 2 /\ 1 \in DOMAIN Wire
      /\ \A i \in 1 .. Len(buf) : Wire[i] = buf[i]
  <2>1. Len(buf) \in Nat /\ Len(buf) >= 2
    BY <1>1, SizesAssumption DEF MinFrameSize, HeaderSize, IInv, TypeOK
  <2>2. Wire' = Wire
    BY <1>1 DEF Wire
  <2> QED
    BY <1>1, <2>1, <2>2, WireType
<1>3. Wire[1] = buf[1] /\ Wire[2] = buf[2]
  BY <1>2
<1>4. f \in DOMAIN sent /\ w \in Nat \ {0} /\ size \in Nat /\ sent[f].shape \in Shapes
  <2>1. f \in 1 .. Len(sent) /\ w \in Nat \ {0} /\ size \in Nat /\ sent[f] \in Sent
    BY <1>2, <1>3, WireUnit
  <2> QED
    BY <1>1, <2>1 DEF IInv, TypeOK, Sent
<1>5. Wire[1][2] = 1 /\ \A m \in 1 .. w : Wire[m] = <<f, m>>
  BY <1>2, <1>3, FrontOfWire
<1>6. ASSUME Sound(f)
      PROVE  FALSE
  <2>1. sent[f].shape.kind = "good" /\ size <= MaxFrameSize /\ w = size
    BY <1>6 DEF Sound
  <2>2. size >= HeaderSize /\ BodySize(sent[f].shape) \in Nat /\ size = HeaderSize + BodySize(sent[f].shape)
    BY <1>1, <1>4, CodecTypes DEF EncodedSize
  <2>3. Wire[2] = <<f, 2>>
    BY <1>4, <1>5, <2>1, <2>2 DEF HeaderSize
  <2>4. BodyLen = BodySize(sent[f].shape)
    BY <1>3, <2>3 DEF BodyLen
  <2>5. Protocol
    BY <1>3, <1>5, <2>1 DEF Protocol
  <2>6. ~TooLong(BodyLen)
    BY <2>1, <2>2, <2>4, SizesAssumption DEF TooLong, HeaderSize
  <2>7. ParseFails
    BY <2>5, <2>6 DEF ParseRefuse, Readable
  <2>8. Len(buf) >= BodyLen + HeaderSize
    BY <2>7 DEF ParseFails, Complete
  <2>9. BodyLen + HeaderSize = w /\ w <= Len(buf)
    BY <1>2, <2>1, <2>2, <2>4, <2>8 DEF HeaderSize
  <2>10. \A k \in 1 .. BodyLen + HeaderSize : buf[k] = <<f, k>>
    BY <1>2, <1>4, <1>5, <2>9
  <2>11. Authentic(BodyLen + HeaderSize, f, BodyLen)
    BY <2>1, <2>4, <2>10 DEF Authentic
  <2> QED
    BY <2>7, <2>11 DEF ParseFails
<1>7. ClosedForCause'
  <2>1. ~Sound(f) /\ ~Unsent(f)
    BY <1>4, <1>6 DEF Unsent
  <2> QED
    BY <1>1, <1>4, <2>1 DEF ClosedForCause, Sound, Unsent, EncodedSize, BodySize
<1>8. /\ DOMAIN Delivered = 1 .. Len(Delivered) /\ Len(Delivered) \in Nat
      /\ Len(handled) \in Nat /\ Len(handled) <= Len(Delivered) /\ DOMAIN handled = 1 .. Len(handled)
      /\ \A d \in 1 .. Len(handled) : Delivered[d] = handled[d]
  <2>1. handled \in Seq(Framed)
    BY <1>1 DEF IInv, TypeOK, Framed
  <2> QED
    BY <1>1, <2>1, DeliveredType
<1>9. Delivered' = handled
  <2>1. handled \in Seq(Framed)
    BY <1>1 DEF IInv, TypeOK, Framed
  <2> QED
    BY <1>1, <2>1, ConcatEmptySeq DEF Delivered
<1>10. WrittenInv' /\ PieceInv' /\ OrderInv'
  BY <1>1, <1>2 DEF OInv, WrittenInv, PieceInv, OrderInv, EncodedSize, BodySize
<1>11. AheadInv'
  <2>1. \A d \in DOMAIN handled, i \in DOMAIN Wire : handled[d].frame < Wire[i][1]
    BY <1>8 DEF OInv, AheadInv
  <2> QED
    BY <1>1, <1>2, <1>9, <2>1 DEF AheadInv
<1>12. InOrder(Delivered)'
  <2>1. ASSUME NEW d \in DOMAIN handled
        PROVE  /\ Sound(handled[d].frame)
               /\ \A j \in 1 .. d - 1 : handled[j].frame < handled[d].frame
               /\ \A g \in 1 .. handled[d].frame - 1 :
                    Unsent(g) \/ \E j \in 1 .. d - 1 : handled[j].frame = g
    <3>1. d \in DOMAIN Delivered /\ Delivered[d] = handled[d]
      BY <1>8
    <3>2. \A j \in 1 .. d - 1 : Delivered[j] = handled[j]
      BY <1>8
    <3>3. /\ Sound(Delivered[d].frame)
          /\ \A j \in 1 .. d - 1 : Delivered[j].frame < Delivered[d].frame
          /\ \A g \in 1 .. Delivered[d].frame - 1 :
               Unsent(g) \/ \E j \in 1 .. d - 1 : Delivered[j].frame = g
      BY <3>1 DEF OInv, InOrder
    <3> QED
      BY <3>1, <3>2, <3>3
  <2> QED
    BY <1>1, <1>9, <2>1 DEF InOrder, Sound, Unsent, EncodedSize, BodySize
<1> QED
  BY <1>7, <1>10, <1>11, <1>12 DEF OInv

\* The invariant holds at first and every step keeps it.
LEMMA InductiveOrder ==
  /\ Init => OInv
  /\ OInv /\ [Next]_vars => OInv'
<1>1. ASSUME Init
      PROVE  OInv
  <2>1. IInv
    BY <1>1, Inductive
  <2>2. Wire = <<>> /\ Delivered = <<>> /\ sent = <<>>
    <3>1. <<>> \in Seq(Units) /\ <<>> \in Seq(Framed)
      OBVIOUS
    <3> QED
      BY <1>1, <3>1, ConcatEmptySeq DEF Init, Wire, Delivered
  <2> QED
    BY <1>1, <2>1, <2>2
       DEF Init, OInv, WrittenInv, PieceInv, OrderInv, AheadInv, InOrder, ClosedForCause
<1>2. ASSUME OInv, [Next]_vars
      PROVE  OInv'
  <2>1. IInv /\ IInv'
    BY <1>2, Inductive DEF OInv
  <2>2. ASSUME UNCHANGED <<sent, socket, buf, frames, handled>>,
               at' = "closed" <=> at = "closed"
        PROVE  OInv'
    BY <1>2, <2>1, <2>2, StayOrder DEF Wire, Delivered
  <2>3. ASSUME NEW s \in Shapes, Send(s)
        PROVE  OInv'
    BY <1>2, <2>3, SendOrder
  <2>4. CASE Wake
    BY <2>2, <2>4 DEF Wake
  <2>5. CASE Recv
    BY <1>2, <2>1, <2>5, RecvWire, StayOrder DEF Recv, Delivered
  <2>6. CASE RecvEnds
    BY <2>2, <2>6 DEF RecvEnds
  <2>7. CASE ParseWait
    BY <2>2, <2>7 DEF ParseWait
  <2>8. CASE ParseRefuse \/ ParseFails
    BY <1>2, <2>1, <2>8, CloseOrder
  <2>9. CASE ParseFrame
    BY <1>2, <2>9, ParseOrder
  <2>10. CASE Handle
    <3>1. frames \in Seq(Framed) /\ handled \in Seq(Framed)
      BY <2>1 DEF IInv, TypeOK, Framed
    <3>2. (handled \o frames) \o <<>> = handled \o frames
      BY <3>1, ConcatProperties, ConcatEmptySeq
    <3>3. Delivered' = Delivered /\ Wire' = Wire
      BY <2>10, <3>2 DEF Handle, Delivered, Wire
    <3> QED
      BY <1>2, <2>1, <2>10, <3>3, StayOrder DEF Handle
  <2>11. CASE UNCHANGED vars
    BY <2>2, <2>11 DEF vars
  <2> QED
    BY <1>2, <2>3, <2>4, <2>5, <2>6, <2>7, <2>8, <2>9, <2>10, <2>11 DEF Next, ServerStep
<1> QED
  BY <1>1, <1>2

\* readFd and _parseFrames: wherever short writes and recv cut the stream, the
\* frames handed on are sound, in the order sent, each once and without a gap.
THEOREM SoundFramesInOrder == Spec => []SoundInOrder
<1>1. ASSUME OInv
      PROVE  SoundInOrder
  <2>1. /\ DOMAIN Delivered = 1 .. Len(Delivered) /\ Len(Delivered) \in Nat
        /\ Len(handled) \in Nat /\ Len(handled) <= Len(Delivered)
        /\ DOMAIN handled = 1 .. Len(handled)
        /\ \A d \in 1 .. Len(handled) : Delivered[d] = handled[d]
    <3>1. handled \in Seq(Framed) /\ IInv
      BY <1>1 DEF OInv, IInv, TypeOK, Framed
    <3> QED
      BY <3>1, DeliveredType
  <2>2. ASSUME NEW i \in DOMAIN handled
        PROVE  /\ Sound(handled[i].frame)
               /\ \A j \in 1 .. i - 1 : handled[j].frame < handled[i].frame
               /\ \A g \in 1 .. handled[i].frame - 1 :
                    Unsent(g) \/ \E j \in 1 .. i - 1 : handled[j].frame = g
    <3>1. i \in DOMAIN Delivered /\ Delivered[i] = handled[i]
      BY <2>1
    <3>2. \A j \in 1 .. i - 1 : Delivered[j] = handled[j]
      BY <2>1
    <3>3. /\ Sound(Delivered[i].frame)
          /\ \A j \in 1 .. i - 1 : Delivered[j].frame < Delivered[i].frame
          /\ \A g \in 1 .. Delivered[i].frame - 1 :
               Unsent(g) \/ \E j \in 1 .. i - 1 : Delivered[j].frame = g
      BY <1>1, <3>1 DEF OInv, InOrder
    <3> QED
      BY <3>1, <3>2, <3>3
  <2> QED
    BY <2>2 DEF SoundInOrder, InOrder
<1> QED
  BY <1>1, InductiveOrder, PTL DEF Spec

\* closeConnection out of _parseFrames: a connection is closed only when some
\* frame went out damaged, too long or of another protocol.
THEOREM ClosedOnlyForCause == Spec => []ClosedForCause
<1>1. OInv => ClosedForCause
  BY DEF OInv
<1> QED
  BY <1>1, InductiveOrder, PTL DEF Spec
==============================================================================
