---------------------------- MODULE MCFrameStream ----------------------------
(* FrameStream with frames on both sides of every limit: the smallest, one of *)
(* exactly maxFrameSize, one that is larger by one, a path that does not fit  *)
(* its length field, one that does not decrypt, and another protocol.         *)
EXTENDS FrameStream

MCShapes ==
  { [kind |-> "good", path |-> 0, data |-> 0],
    [kind |-> "good", path |-> 2, data |-> 1],
    [kind |-> "good", path |-> 2, data |-> 2],
    [kind |-> "good", path |-> 3, data |-> 0],
    [kind |-> "bad", path |-> 0, data |-> 0],
    [kind |-> "alien", path |-> 1, data |-> 0] }

MCJunk == {0, 3, 9}
==============================================================================
