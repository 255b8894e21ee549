--------------------------- MODULE FrameStreamProofs ---------------------------
(* Proofs about FrameStream, for any sizes, any limit, any shapes of frames    *)
(* and any cut of the stream.                                                  *)
EXTENDS FrameStream, SequenceTheorems, TLAPS

------------------------------------------------------------------------------
(* The inductive invariant                                                    *)

\* Which frames the units in flight are of, the room in the socket, and what the
\* frames put together are (for the proofs).
Known == (1 .. Len(sent)) \X (Nat \ {0})

UnitsInv == socket \in Seq(Known) /\ buf \in Seq(Known) /\ Len(socket) <= SocketSize

Decoded(fs) ==
  \A i \in DOMAIN fs :
    fs[i].frame \in 1 .. Len(sent) /\ fs[i] = Decode(fs[i].frame, sent[fs[i].frame].shape)

FramesInv == Decoded(frames) /\ Decoded(handled)

\* What is left over when parsing stops is less than a frame.
RestInv ==
  at \in {"handle", "wait"} => Len(buf) < MaxFrameSize \/ Len(buf) < MinFrameSize

Sent == [shape : Shapes, written : Nat]
Framed == [frame : Nat, path : Nat, data : Nat]

------------------------------------------------------------------------------
(* The codec                                                                  *)

\* A length in its 16-bit field does not grow (`u16ToStr` of the path's size).
LEMMA PathLenBounds ==
  ASSUME NEW s \in Shapes
  PROVE  PathLen(s) \in Nat /\ PathLen(s) <= s.path
<1>1. s.path \in Nat
  BY InputsAssumption DEF Shape
<1> QED
  BY <1>1, SizesAssumption DEF PathLen

\* The sizes that encodeFrame computes, and decodeFrame's result (frame.cpp).
LEMMA CodecTypes ==
  ASSUME NEW s \in Shapes, NEW n \in Nat \ {0}
  PROVE  /\ BodySize(s) \in Nat /\ EncodedSize(s) \in Nat /\ EncodedSize(s) >= HeaderSize
         /\ Encode(n, s) \in Seq(Units) /\ Len(Encode(n, s)) = EncodedSize(s)
         /\ \A k \in 1 .. EncodedSize(s) : Encode(n, s)[k] = <<n, k>>
         /\ Decode(n, s) \in Framed /\ Decode(n, s).frame = n
<1>1. s.path \in Nat /\ s.data \in Nat
  BY InputsAssumption DEF Shape
<1>2. BodySize(s) \in Nat /\ EncodedSize(s) \in Nat /\ EncodedSize(s) >= HeaderSize
  BY <1>1, SizesAssumption DEF BodySize, EncodedSize, HeaderSize
<1>3. \A k \in 1 .. EncodedSize(s) : <<n, k>> \in Units
  BY <1>2 DEF Units
<1>4. Encode(n, s) \in [1 .. EncodedSize(s) -> Units]
  BY <1>3 DEF Encode
<1>5. Encode(n, s) \in Seq(Units) /\ Len(Encode(n, s)) = EncodedSize(s)
  BY <1>2, <1>4
<1>6. \A k \in 1 .. EncodedSize(s) : Encode(n, s)[k] = <<n, k>>
  BY DEF Encode
<1>7. Decode(n, s) \in Framed /\ Decode(n, s).frame = n
  BY <1>1, PathLenBounds DEF Decode, Framed
<1> QED
  BY <1>2, <1>5, <1>6, <1>7

------------------------------------------------------------------------------
(* Types and what is in flight                                                *)

IInv == TypeOK /\ UnitsInv /\ FramesInv /\ RestInv

\* Reading the buffer, whatever lies there, gives a size (getFrameBodySize).
LEMMA BodyLenType ==
  ASSUME TypeOK, UnitsInv, Len(buf) >= MinFrameSize
  PROVE  BodyLen \in Nat /\ buf[1][1] \in 1 .. Len(sent)
<1>1. Len(buf) \in Nat /\ Len(buf) >= 2
  BY SizesAssumption DEF MinFrameSize, HeaderSize, UnitsInv
<1>2. buf[1] \in Known /\ buf[2] \in Known
  <2>1. 1 \in 1 .. Len(buf) /\ 2 \in 1 .. Len(buf) /\ buf \in Seq(Known)
    BY <1>1 DEF UnitsInv
  <2> QED
    BY <2>1, ElementOfSeq
<1>3. sent[buf[2][1]].shape \in Shapes
  <2>1. buf[2][1] \in 1 .. Len(sent) /\ sent \in Seq(Sent)
    BY <1>2 DEF Known, TypeOK, Sent
  <2>2. sent[buf[2][1]] \in Sent
    BY <2>1, ElementOfSeq
  <2> QED
    BY <2>2 DEF Sent
<1>4. BodySize(sent[buf[2][1]].shape) \in Nat
  BY <1>3, CodecTypes
<1> QED
  BY <1>2, <1>4, InputsAssumption DEF BodyLen, Known, TypeOK

\* The units of frames that were sent are units.
LEMMA KnownUnits ==
  ASSUME TypeOK, NEW s \in Seq(Known)
  PROVE  s \in Seq(Units)
<1>1. Len(sent) \in Nat
  BY DEF TypeOK
<1>2. Known \subseteq Units
  BY <1>1 DEF Known, Units
<1> QED
  BY <1>2, SeqMonotonic

\* A sequence is cut by recv or slice: both pieces are sequences of the same kind.
LEMMA Cut ==
  ASSUME NEW S, NEW s \in Seq(S), NEW n \in 0 .. Len(s)
  PROVE  /\ SubSeq(s, 1, n) \in Seq(S) /\ Len(SubSeq(s, 1, n)) = n
         /\ \A i \in 1 .. n : SubSeq(s, 1, n)[i] = s[i]
         /\ SubSeq(s, n + 1, Len(s)) \in Seq(S) /\ Len(SubSeq(s, n + 1, Len(s))) = Len(s) - n
         /\ \A i \in 1 .. Len(s) - n : SubSeq(s, n + 1, Len(s))[i] = s[n + i]
<1>1. n \in Int /\ Len(s) \in Nat /\ \A i \in 1 .. Len(s) : s[i] \in S
  BY ElementOfSeq
<1>2. \A i \in 1 .. n : s[i] \in S
  BY <1>1
<1>3. /\ SubSeq(s, 1, n) \in Seq(S) /\ Len(SubSeq(s, 1, n)) = IF 1 <= n THEN n - 1 + 1 ELSE 0
      /\ \A i \in 1 .. n - 1 + 1 : SubSeq(s, 1, n)[i] = s[1 + i - 1]
  BY <1>1, <1>2, SubSeqProperties
<1>4. \A i \in n + 1 .. Len(s) : s[i] \in S
  BY <1>1
<1>5. /\ SubSeq(s, n + 1, Len(s)) \in Seq(S)
      /\ Len(SubSeq(s, n + 1, Len(s))) = IF n + 1 <= Len(s) THEN Len(s) - (n + 1) + 1 ELSE 0
      /\ \A i \in 1 .. Len(s) - (n + 1) + 1 : SubSeq(s, n + 1, Len(s))[i] = s[n + 1 + i - 1]
  BY <1>1, <1>4, SubSeqProperties
<1>6. \A i \in 1 .. n : i \in 1 .. n - 1 + 1 /\ 1 + i - 1 = i
  BY <1>1
<1>7. \A i \in 1 .. Len(s) - n : i \in 1 .. Len(s) - (n + 1) + 1 /\ n + 1 + i - 1 = n + i
  BY <1>1
<1>8. (\A i \in 1 .. n : SubSeq(s, 1, n)[i] = s[i])
      /\ (\A i \in 1 .. Len(s) - n : SubSeq(s, n + 1, Len(s))[i] = s[n + i])
  <2>1. \A i \in 1 .. n : SubSeq(s, 1, n)[i] = s[i]
    BY <1>3, <1>6
  <2>2. ASSUME NEW i \in 1 .. Len(s) - n
        PROVE  SubSeq(s, n + 1, Len(s))[i] = s[n + i]
    <3>1. SubSeq(s, n + 1, Len(s))[i] = s[n + 1 + i - 1]
      BY <1>5, <1>7
    <3> QED
      BY <1>7, <3>1
  <2> QED
    BY <2>1, <2>2
<1> QED
  BY <1>1, <1>3, <1>5, <1>8

\* What decodeFrame returns can be told again when more has been sent.
LEMMA DecodedStays ==
  ASSUME NEW fs \in Seq(Framed), Decoded(fs), TypeOK,
         Len(sent) <= Len(sent'), \A f \in 1 .. Len(sent) : sent'[f] = sent[f],
         Len(sent') \in Nat
  PROVE  Decoded(fs)'
<1> Len(sent) \in Nat
  BY DEF TypeOK
<1> QED
  BY DEF Decoded, Decode, PathLen

\* ::send of a frame, all or a part of it.
LEMMA SendKeeps ==
  ASSUME IInv, NEW s \in Shapes, Send(s)
  PROVE  IInv'
<1> DEFINE n == Least(EncodedSize(s), SocketSize - Len(socket))
           m == Len(sent) + 1
<1>1. Len(sent) \in Nat /\ Len(socket) \in Nat /\ m \in Nat \ {0}
  BY DEF IInv, TypeOK
<1>2. EncodedSize(s) \in Nat /\ Encode(m, s) \in Seq(Units) /\ Len(Encode(m, s)) = EncodedSize(s)
  BY <1>1, CodecTypes
<1>3. n \in 0 .. Len(Encode(m, s)) /\ n <= SocketSize - Len(socket)
  BY <1>1, <1>2, SizesAssumption DEF Least, IInv, UnitsInv
<1>4. [shape |-> s, written |-> n] \in Sent
  BY <1>2, <1>3 DEF Sent
<1>5. sent \in Seq(Sent)
  BY DEF IInv, TypeOK, Sent
<1>6. sent' = Append(sent, [shape |-> s, written |-> n])
  BY DEF Send
<1>7. sent' \in Seq(Sent) /\ Len(sent') = m /\ \A f \in 1 .. Len(sent) : sent'[f] = sent[f]
  BY <1>4, <1>5, <1>6, AppendProperties
<1>9. \A k \in 1 .. EncodedSize(s) : Encode(m, s)[k] \in Known'
  <2> TAKE k \in 1 .. EncodedSize(s)
  <2>1. Encode(m, s)[k] = <<m, k>>
    BY <1>2 DEF Encode
  <2>2. m \in 1 .. Len(sent') /\ k \in Nat \ {0}
    BY <1>1, <1>2, <1>7
  <2>3. <<m, k>> \in (1 .. Len(sent')) \X (Nat \ {0})
    BY <2>2
  <2>4. Known' = (1 .. Len(sent')) \X (Nat \ {0})
    BY DEF Known
  <2> QED
    BY <2>1, <2>3, <2>4
<1>10. Encode(m, s) \in Seq(Known')
  BY <1>2, <1>9
<1>11. SubSeq(Encode(m, s), 1, n) \in Seq(Known') /\ Len(SubSeq(Encode(m, s), 1, n)) = n
  BY <1>3, <1>10, Cut
<1>12. Known \subseteq Known'
  BY <1>1, <1>7 DEF Known
<1>13. socket \in Seq(Known') /\ buf \in Seq(Known')
  <2>1. socket \in Seq(Known) /\ buf \in Seq(Known)
    BY DEF IInv, UnitsInv
  <2> QED
    BY <1>12, <2>1, SeqMonotonic
<1>14. socket' = socket \o SubSeq(Encode(m, s), 1, n)
  BY DEF Send
<1>15. socket' \in Seq(Known') /\ Len(socket') = Len(socket) + n
  BY <1>11, <1>13, <1>14, ConcatProperties
<1>16. UnitsInv'
  BY <1>1, <1>3, <1>13, <1>15, SizesAssumption DEF UnitsInv, Send, IInv
<1>17. TypeOK'
  <2>1. Known' \subseteq Units
    BY <1>1, <1>7 DEF Known, Units
  <2> QED
    BY <1>7, <1>13, <1>15, <2>1 DEF IInv, TypeOK, Send, Sent
<1>19. FramesInv'
  <2>1. Len(sent) <= Len(sent') /\ Len(sent') \in Nat
    BY <1>1, <1>7
  <2>2. frames \in Seq(Framed) /\ handled \in Seq(Framed) /\ Decoded(frames) /\ Decoded(handled)
    BY DEF IInv, TypeOK, FramesInv, Framed
  <2>3. Decoded(frames)' /\ Decoded(handled)'
    BY <1>7, <2>1, <2>2, DecodedStays DEF IInv, Send, Decoded, Decode, PathLen
  <2> QED
    BY <2>3 DEF FramesInv
<1>20. RestInv'
  BY DEF IInv, RestInv, Send
<1> QED
  BY <1>16, <1>17, <1>19, <1>20 DEF IInv

\* recv: a chunk moves from the socket to _inFrameBuffer.
LEMMA RecvKeeps ==
  ASSUME IInv, Recv
  PROVE  IInv'
<1> DEFINE n == Least(RecvSize, Len(socket))
<1>1. socket \in Seq(Known) /\ buf \in Seq(Known) /\ Len(socket) \in Nat /\ n \in 0 .. Len(socket)
  BY SizesAssumption DEF IInv, UnitsInv, Least
<1>2. /\ buf' = buf \o SubSeq(socket, 1, n) /\ socket' = SubSeq(socket, n + 1, Len(socket))
      /\ UNCHANGED <<sent, frames, handled, at, junk>> /\ at = "recv"
  BY DEF Recv
<1>3. /\ SubSeq(socket, 1, n) \in Seq(Known) /\ socket' \in Seq(Known)
      /\ Len(socket') = Len(socket) - n
  BY <1>1, <1>2, Cut
<1>4. buf' \in Seq(Known)
  BY <1>1, <1>2, <1>3, ConcatProperties
<1>5. Known' = Known
  BY <1>2 DEF Known
<1>6. Len(socket') <= SocketSize
  BY <1>1, <1>3, SizesAssumption DEF IInv, UnitsInv
<1>7. UnitsInv'
  BY <1>3, <1>4, <1>5, <1>6 DEF UnitsInv
<1>8. TypeOK'
  <2>1. socket' \in Seq(Units) /\ buf' \in Seq(Units)
    BY <1>3, <1>4, KnownUnits DEF IInv
  <2> QED
    BY <1>2, <2>1 DEF IInv, TypeOK
<1> QED
  BY <1>2, <1>7, <1>8 DEF IInv, FramesInv, Decoded, RestInv

\* A frame is cut off the buffer and decoded (_parseFrames).
LEMMA ParseFrameKeeps ==
  ASSUME IInv, ParseFrame
  PROVE  IInv'
<1> DEFINE n == BodyLen + HeaderSize
           f == buf[1][1]
<1>1. at = "parse" /\ Complete /\ Len(buf) >= MinFrameSize
  BY DEF ParseFrame, Complete
<1>2. /\ buf' = SubSeq(buf, n + 1, Len(buf)) /\ frames' = Append(frames, Decode(f, sent[f].shape))
      /\ UNCHANGED <<sent, socket, handled, at, junk>>
  BY DEF ParseFrame
<1>3. BodyLen \in Nat /\ f \in 1 .. Len(sent)
  BY <1>1, BodyLenType DEF IInv
<1>4. buf \in Seq(Known) /\ n \in 0 .. Len(buf)
  BY <1>1, <1>3 DEF IInv, UnitsInv, Complete, HeaderSize
<1>5. buf' \in Seq(Known)
  BY <1>2, <1>4, Cut
<1>6. sent[f].shape \in Shapes
  <2>1. sent \in Seq(Sent)
    BY DEF IInv, TypeOK, Sent
  <2>2. sent[f] \in Sent
    BY <1>3, <2>1, ElementOfSeq
  <2> QED
    BY <2>2 DEF Sent
<1>7. f \in Nat \ {0}
  BY <1>3 DEF IInv, TypeOK
<1>8. Decode(f, sent[f].shape) \in Framed /\ Decode(f, sent[f].shape).frame = f
  BY <1>6, <1>7, CodecTypes
<1>9. frames \in Seq(Framed)
  BY DEF IInv, TypeOK, Framed
<1>10. /\ frames' \in Seq(Framed) /\ Len(frames') = Len(frames) + 1
       /\ \A i \in 1 .. Len(frames) : frames'[i] = frames[i]
       /\ frames'[Len(frames) + 1] = Decode(f, sent[f].shape)
  BY <1>2, <1>8, <1>9, AppendProperties
<1>11. Known' = Known
  BY <1>2 DEF Known
<1>12. UnitsInv'
  BY <1>2, <1>5, <1>11 DEF UnitsInv, IInv
<1>13. TypeOK'
  <2>1. buf' \in Seq(Units)
    BY <1>5, KnownUnits DEF IInv
  <2> QED
    BY <1>2, <1>10, <2>1 DEF IInv, TypeOK, Framed
<1>14. FramesInv'
  <2>1. \A i \in DOMAIN frames' : i \in 1 .. Len(frames) \/ i = Len(frames) + 1
    BY <1>9, <1>10
  <2>2. Decoded(frames)
    BY DEF IInv, FramesInv
  <2>3. ASSUME NEW i \in DOMAIN frames'
        PROVE  frames'[i].frame \in 1 .. Len(sent) /\ frames'[i] = Decode(frames'[i].frame, sent[frames'[i].frame].shape)
    <3>1. CASE i \in 1 .. Len(frames)
      BY <1>9, <1>10, <2>2, <3>1 DEF Decoded
    <3>2. CASE i = Len(frames) + 1
      BY <1>3, <1>8, <1>10, <3>2
    <3> QED
      BY <2>1, <3>1, <3>2
  <2>4. Decoded(frames)'
    BY <1>2, <2>3 DEF Decoded
  <2>5. Decoded(handled)'
    <3>1. Decoded(handled)
      BY DEF IInv, FramesInv
    <3> QED
      BY <1>2, <3>1 DEF Decoded
  <2> QED
    BY <2>4, <2>5 DEF FramesInv
<1>15. RestInv'
  BY <1>1, <1>2 DEF RestInv
<1> QED
  BY <1>12, <1>13, <1>14, <1>15 DEF IInv

\* The loop ends with less than one frame in the buffer.
LEMMA ParseWaitKeeps ==
  ASSUME IInv, ParseWait
  PROVE  IInv'
<1>1. UNCHANGED <<sent, socket, buf, frames, handled, junk>> /\ at' = "handle"
  BY DEF ParseWait
<1>2. RestInv'
  <2>1. Len(buf) \in Nat /\ MinFrameSize \in Nat
    BY SizesAssumption DEF IInv, TypeOK, MinFrameSize, HeaderSize
  <2>2. CASE Len(buf) >= MinFrameSize
    <3>1. BodyLen \in Nat
      BY <2>2, BodyLenType DEF IInv
    <3>2. ~TooLong(BodyLen) /\ Len(buf) < BodyLen + HeaderSize
      BY <2>2 DEF ParseWait, Readable
    <3>3. Len(buf) < MaxFrameSize
      BY <2>1, <3>1, <3>2, SizesAssumption DEF TooLong, HeaderSize
    <3> QED
      BY <1>1, <3>3 DEF RestInv
  <2>3. CASE Len(buf) < MinFrameSize
    BY <1>1, <2>3 DEF RestInv, MinFrameSize
  <2> QED
    BY <2>1, <2>2, <2>3
<1>3. UnitsInv'
  BY <1>1 DEF IInv, UnitsInv, Known
<1> QED
  BY <1>1, <1>2, <1>3 DEF IInv, TypeOK, FramesInv, Decoded, Units

\* Handing the frames on joins two sequences of decoded frames (readFd).
LEMMA HandleKeeps ==
  ASSUME IInv, Handle
  PROVE  IInv'
<1>1. /\ handled' = handled \o frames /\ frames' = <<>> /\ at = "handle" /\ at' = "wait"
      /\ UNCHANGED <<sent, socket, buf, junk>>
  BY DEF Handle
<1>2. frames \in Seq(Framed) /\ handled \in Seq(Framed) /\ Decoded(frames) /\ Decoded(handled)
  BY DEF IInv, TypeOK, FramesInv, Framed
<1>3. /\ handled' \in Seq(Framed) /\ Len(handled') = Len(handled) + Len(frames)
      /\ \A i \in 1 .. Len(handled) + Len(frames) :
           handled'[i] = IF i <= Len(handled) THEN handled[i] ELSE frames[i - Len(handled)]
  BY <1>1, <1>2, ConcatProperties
<1>4. ASSUME NEW i \in 1 .. Len(handled')
      PROVE  /\ handled'[i].frame \in 1 .. Len(sent)
             /\ handled'[i] = Decode(handled'[i].frame, sent[handled'[i].frame].shape)
  <2>1. Len(handled) \in Nat /\ Len(frames) \in Nat
    BY <1>2
  <2>2. CASE i <= Len(handled)
    BY <1>2, <1>3, <1>4, <2>1, <2>2 DEF Decoded
  <2>3. CASE i > Len(handled)
    <3>1. i - Len(handled) \in 1 .. Len(frames) /\ handled'[i] = frames[i - Len(handled)]
      BY <1>3, <2>1, <2>3
    <3>2. \A j \in 1 .. Len(frames) :
             frames[j].frame \in 1 .. Len(sent) /\ frames[j] = Decode(frames[j].frame, sent[frames[j].frame].shape)
      BY <1>2 DEF Decoded
    <3> QED
      BY <3>1, <3>2
  <2> QED
    BY <2>1, <2>2, <2>3
<1>5. FramesInv'
  <2>1. DOMAIN handled' = 1 .. Len(handled') /\ sent' = sent
    BY <1>1, <1>3
  <2>2. Decoded(handled)'
    BY <1>4, <2>1 DEF Decoded
  <2>3. Decoded(frames)'
    BY <1>1 DEF Decoded
  <2> QED
    BY <2>2, <2>3 DEF FramesInv
<1>6. TypeOK'
  BY <1>1, <1>3 DEF IInv, TypeOK, Framed, Units
<1>7. UnitsInv' /\ RestInv'
  BY <1>1 DEF IInv, UnitsInv, Known, RestInv, MinFrameSize, HeaderSize
<1> QED
  BY <1>5, <1>6, <1>7 DEF IInv

------------------------------------------------------------------------------
\* The invariant holds at first and every step keeps it.
LEMMA Inductive ==
  /\ Init => IInv
  /\ IInv /\ [Next]_vars => IInv'
<1>1. Init => IInv
  BY SizesAssumption, InputsAssumption
     DEF Init, IInv, TypeOK, UnitsInv, FramesInv, Decoded, RestInv, MinFrameSize, HeaderSize
<1>2. ASSUME IInv, [Next]_vars
      PROVE  IInv'
  <2>1. ASSUME UNCHANGED <<sent, socket, buf, handled, junk>>,
               frames' = frames \/ frames' = <<>>,
               at' \in {"recv", "parse", "closed"}
        PROVE  IInv'
    <3>1. TypeOK'
      <4>1. frames \in Seq(Framed) /\ <<>> \in Seq(Framed)
        BY <1>2 DEF IInv, TypeOK, Framed
      <4>2. frames' \in Seq(Framed)
        BY <2>1, <4>1
      <4> QED
        BY <1>2, <2>1, <4>2 DEF IInv, TypeOK, Framed, Units
    <3>2. UnitsInv'
      BY <1>2, <2>1 DEF IInv, UnitsInv, Known
    <3>3. FramesInv' /\ RestInv'
      BY <1>2, <2>1 DEF IInv, FramesInv, Decoded, Decode, PathLen, RestInv
    <3> QED
      BY <3>1, <3>2, <3>3 DEF IInv
  <2>2. ASSUME NEW s \in Shapes, Send(s)
        PROVE  IInv'
    BY <1>2, <2>2, SendKeeps
  <2>3. CASE Wake
    BY <2>1, <2>3 DEF Wake
  <2>4. CASE Recv
    BY <1>2, <2>4, RecvKeeps
  <2>5. CASE RecvEnds
    BY <2>1, <2>5 DEF RecvEnds
  <2>6. CASE ParseWait
    BY <1>2, <2>6, ParseWaitKeeps
  <2>7. CASE ParseRefuse
    BY <2>1, <2>7 DEF ParseRefuse, Close
  <2>8. CASE ParseFrame
    BY <1>2, <2>8, ParseFrameKeeps
  <2>9. CASE ParseFails
    BY <2>1, <2>9 DEF ParseFails, Close
  <2>10. CASE Handle
    BY <1>2, <2>10, HandleKeeps
  <2>11. CASE UNCHANGED vars
    BY <1>2, <2>11 DEF vars, IInv, TypeOK, UnitsInv, Known, FramesInv, Decoded, Decode, PathLen,
                       RestInv, Units
  <2> QED
    BY <1>2, <2>2, <2>3, <2>4, <2>5, <2>6, <2>7, <2>8, <2>9, <2>10, <2>11 DEF Next, ServerStep
<1> QED
  BY <1>1, <1>2

\* Types: every unit in flight is of a frame that was sent, every frame put
\* together is the decoding of one (_parseFrames, ::send).
THEOREM StreamInvariant == Spec => []IInv
BY Inductive, PTL DEF Spec

\* maxFrameSize bounds what a connection buffers between reads: _inFrameBuffer
\* holds less than the largest frame, whatever the client sent.
THEOREM BufferStaysBounded == Spec => []BufferBounded
<1>1. IInv => BufferBounded
  BY DEF IInv, RestInv, BufferBounded
<1> QED
  BY <1>1, StreamInvariant, PTL
==============================================================================
