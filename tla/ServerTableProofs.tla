-------------------------- MODULE ServerTableProofs --------------------------
(* TLAPS proofs about ServerTable, for any set of descriptors, any number of  *)
(* peers and commands, any size of a batch and of the backlog.  Identifiers    *)
(* and peers count alike, so the connection id was accepted for the peer id.   *)
EXTENDS ServerTable, SequenceTheorems, TLAPS

------------------------------------------------------------------------------
(* The inductive invariant                                                    *)

\* what _fd names is the socket that was accepted for the connection, and no
\* socket is open that is not the _fd of an open connection
SocketInv ==
  /\ \A id \in OpenIds : sockets[connFd[id]] = id
  /\ \A f \in Fds : sockets[f] # 0 => sockets[f] \in OpenIds /\ connFd[sockets[f]] = f

\* the table and the descriptors agree in both directions
TableInv ==
  /\ Reachable
  /\ \A f \in Fds : /\ fdToId[f] <= connCount
                    /\ fdToId[f] \in OpenIds => connFd[fdToId[f]] = f
  /\ SocketInv

\* what is known, queued and done is for the peer of the connection it names
PeerInv ==
  /\ \A k \in known : k[1] = k[2]
  /\ \A i \in DOMAIN cmds : cmds[i].id = cmds[i].for
  /\ OwnConnection

\* a hang-up in hand is that of the open connection with its descriptor, unless
\* that one was accepted after the events were collected
EventInv ==
  \A e \in batch : \A id \in OpenIds :
    e.hup /\ connFd[id] = e.fd /\ id <= batchStart => ~peerUp[id]

\* the steps that leave the maps and the connections as they are
Quiet ==
  \/ Collect \/ BatchDone \/ AcceptEnds
  \/ \E e \in batch : CommandEvent(e) \/ ListenEvent(e) \/ NoTarget(e) \/ \E id \in Ids : ReadFd(e, id)
  \/ CommandUnknown \/ CommandIdle \/ CommandSend \/ DrainEnds
  \/ PeerStep \/ \E k \in known : PushCommand(k)

(* A step is a quiet one, an accept, a deletion or a close by command.        *)
LEMMA NextCases ==
  ASSUME [Next]_vars
  PROVE  \/ Quiet \/ Accept \/ CommandCloses
         \/ \E e \in batch, id \in Ids : Hangup(e, id) \/ ReadFails(e, id)
         \/ UNCHANGED vars
BY DEF Next, LoopStep, EventStep, Quiet

(* A quiet step leaves the maps alone.                                        *)
LEMMA QuietTable == Quiet => UNCHANGED tableVars
BY DEF Quiet, Collect, BatchDone, AcceptEnds, CommandEvent, ListenEvent, NoTarget, ReadFd,
   CommandUnknown, CommandIdle, CommandSend, DrainEnds, PeerStep, Dial, PeerSends, PeerHangs,
   PushCommand

(* What popping a command leaves.                                             *)
LEMMA PopFacts ==
  ASSUME TypeOK, Pop
  PROVE  /\ Head(cmds) \in [op : {"send", "close"}, id : Ids, for : Peers]
         /\ cmds' \in Seq([op : {"send", "close"}, id : Ids, for : Peers])
         /\ Head(cmds) = cmds[1] /\ 1 \in DOMAIN cmds
         /\ \A i \in DOMAIN cmds' : i + 1 \in DOMAIN cmds /\ cmds'[i] = cmds[i + 1]
<1> DEFINE C == [op : {"send", "close"}, id : Ids, for : Peers]
<1>1. cmds \in Seq(C) /\ cmds # <<>> /\ cmds' = Tail(cmds)
  BY DEF TypeOK, Pop
<1> HIDE DEF C
<1>2. /\ Head(cmds) \in C /\ Tail(cmds) \in Seq(C) /\ Len(Tail(cmds)) = Len(cmds) - 1
      /\ \A i \in 1 .. Len(Tail(cmds)) : Tail(cmds)[i] = cmds[i + 1]
  BY <1>1, HeadTailProperties
<1>3. Head(cmds) = cmds[1]
  BY <1>1
<1>4. Len(cmds) \in Nat \ {0} /\ DOMAIN cmds = 1 .. Len(cmds)
  BY <1>1, EmptySeq, LenProperties
<1>5. DOMAIN Tail(cmds) = 1 .. Len(Tail(cmds))
  BY <1>2, LenProperties
<1> QED BY <1>1, <1>2, <1>3, <1>4, <1>5 DEF C

(* What the table's types say of one connection.                              *)
LEMMA EntryFacts ==
  ASSUME TypeOK, NEW id \in connections
  PROVE  id \in Ids /\ id \in Peers /\ connFd[id] \in Fds \cup {NoFd}
<1>1. id \in 1 .. connCount /\ connCount \in Nat /\ connCount <= MaxPeers
  BY BoundsAssumption DEF TypeOK
<1>2. id \in Ids /\ id \in Peers
  BY <1>1, BoundsAssumption DEF Ids, Peers
<1> QED BY <1>1, <1>2 DEF TypeOK

(* The socket of a connection that is not CLOSED is its peer's.                *)
LEMMA SocketFacts ==
  ASSUME TypeOK, SocketInv, NEW id \in connections
  PROVE  Socket(id) \in {0, id} /\ (Socket(id) # 0 <=> id \in OpenIds)
<1>1. id # 0
  BY EntryFacts DEF Ids
<1>2. CASE connFd[id] = NoFd
  BY <1>1, <1>2 DEF Socket, OpenIds
<1>3. CASE connFd[id] # NoFd
  BY <1>1, <1>3 DEF Socket, OpenIds, SocketInv
<1> QED BY <1>2, <1>3

(* What accept() does: the new identifier is above all others, its descriptor *)
(* is not that of an open connection.                                         *)
LEMMA AcceptFacts ==
  ASSUME TypeOK, Accept
  PROVE  /\ connCount' = connCount + 1 /\ connCount \in Nat /\ connCount + 1 \in Ids
         /\ connCount + 1 <= dialled /\ connCount + 1 \notin connections
         /\ \E f \in Fds \ UsedFds :
              /\ connections' = connections \cup {connCount + 1}
              /\ connFd' = [connFd EXCEPT ![connCount + 1] = f]
              /\ sockets' = [sockets EXCEPT ![f] = connCount + 1]
              /\ fdToId' = [fdToId EXCEPT ![f] = connCount + 1]
<1>1. connCount \in Nat /\ connCount < dialled /\ dialled \in Nat /\ dialled <= MaxPeers
  BY BoundsAssumption DEF Accept, TypeOK
<1>2. connCount + 1 \in Ids /\ connCount + 1 <= dialled
  BY <1>1, BoundsAssumption DEF Ids
<1>3. connCount + 1 \notin connections
  BY <1>1 DEF TypeOK
<1> QED BY <1>1, <1>2, <1>3 DEF Accept, NewId, Register

------------------------------------------------------------------------------
(* Type correctness                                                           *)

(* The kernel reports events of descriptors that the loop registered.         *)
LEMMA ReadyType ==
  ASSUME TypeOK
  PROVE  Ready \subseteq [fd : Fds \cup {CmdFd, ListenFd}, hup : BOOLEAN]
<1>2. \A f \in ReadyFds : Event(f, ~peerUp[sockets[f]]) \in [fd : Fds \cup {CmdFd, ListenFd}, hup : BOOLEAN]
  BY DEF Event, ReadyFds, UsedFds
<1>3. /\ Event(CmdFd, FALSE) \in [fd : Fds \cup {CmdFd, ListenFd}, hup : BOOLEAN]
      /\ Event(ListenFd, FALSE) \in [fd : Fds \cup {CmdFd, ListenFd}, hup : BOOLEAN]
  BY DEF Event
<1> HIDE DEF Event
<1> SUFFICES ASSUME NEW e \in Ready
             PROVE  e \in [fd : Fds \cup {CmdFd, ListenFd}, hup : BOOLEAN]
  OBVIOUS
<1>4. \/ e = Event(CmdFd, FALSE) \/ e = Event(ListenFd, FALSE)
      \/ \E f \in ReadyFds : e = Event(f, ~peerUp[sockets[f]])
  BY DEF Ready
<1> QED BY <1>2, <1>3, <1>4

(* What a call on a descriptor reaches is a peer or nothing.                  *)
LEMMA SocketType ==
  ASSUME TypeOK, NEW id \in Ids
  PROVE  Socket(id) \in 0 .. MaxPeers
BY BoundsAssumption DEF TypeOK, Socket

(* A quiet step keeps the types.                                              *)
LEMMA QuietType ==
  ASSUME TypeOK, Quiet
  PROVE  TypeOK'
<1>1. UNCHANGED <<connCount, connections, connFd, fdToId, sockets>>
  BY QuietTable DEF tableVars
<1>2. CASE Collect
  BY <1>1, <1>2, ReadyType DEF Collect, TypeOK, peerVars, workVars
<1>3. CASE BatchDone \/ AcceptEnds \/ DrainEnds
  BY <1>1, <1>3 DEF BatchDone, AcceptEnds, DrainEnds, TypeOK, peerVars, workVars
<1>4. ASSUME NEW e \in batch, CommandEvent(e) \/ ListenEvent(e) \/ NoTarget(e)
      PROVE  TypeOK'
  BY <1>1, <1>4 DEF CommandEvent, ListenEvent, NoTarget, Take, TypeOK, peerVars, workVars
<1>5. ASSUME NEW e \in batch, NEW id \in Ids, ReadFd(e, id)
      PROVE  TypeOK'
  <2>1. inbox' \in [Peers -> {"none", "good", "bad"}]
    BY <1>5 DEF ReadFd, TypeOK
  <2>2. known' \subseteq Ids \X Peers
    <3>1. Socket(id) \in 0 .. MaxPeers /\ Socket(id) # 0
      BY <1>5, SocketType DEF ReadFd, ReadEnds
    <3>2. Socket(id) \in Peers
      BY <3>1, BoundsAssumption DEF Peers
    <3> QED BY <1>5, <3>2 DEF ReadFd, TypeOK
  <2> QED BY <1>1, <1>5, <2>1, <2>2 DEF ReadFd, Take, TypeOK
<1>6. CASE CommandUnknown \/ CommandIdle \/ CommandSend
  <2>1. Pop
    BY <1>6 DEF CommandUnknown, CommandIdle, CommandSend
  <2>2. cmds' \in Seq([op : {"send", "close"}, id : Ids, for : Peers]) /\ Head(cmds).for \in Peers
    BY <2>1, PopFacts
  <2>3. at' \in {"wait", "events", "accept", "drain", "down"}
    BY <1>6 DEF CommandUnknown, CommandIdle, CommandSend, AfterSend, TypeOK
  <2>4. acted' \subseteq Peers \X (0 .. MaxPeers)
    <3>1. CASE CommandSend
      <4>1. Socket(Head(cmds).id) \in 0 .. MaxPeers
        BY <2>1, PopFacts, SocketType
      <4> QED BY <2>2, <3>1, <4>1 DEF CommandSend, Act, TypeOK
    <3> QED BY <1>6, <3>1 DEF CommandUnknown, CommandIdle, TypeOK
  <2> QED BY <1>1, <1>6, <2>2, <2>3, <2>4
          DEF CommandUnknown, CommandIdle, CommandSend, TypeOK, peerVars, workVars
<1>7. CASE PeerStep
  <2>1. dialled' \in 0 .. MaxPeers /\ dialled <= dialled'
    BY <1>7, BoundsAssumption DEF PeerStep, Dial, PeerSends, PeerHangs, TypeOK
  <2>2. peerUp' \in [Peers -> BOOLEAN] /\ inbox' \in [Peers -> {"none", "good", "bad"}]
    BY <1>7 DEF PeerStep, Dial, PeerSends, PeerHangs, TypeOK
  <2>3. UNCHANGED <<at, batch, batchStart, cmds, known, pushed, acted>>
    BY <1>7 DEF PeerStep, Dial, PeerSends, PeerHangs, workVars
  <2>4. connCount' <= dialled'
    BY <1>1, <2>1, BoundsAssumption DEF TypeOK
  <2> QED BY <1>1, <2>1, <2>2, <2>3, <2>4 DEF TypeOK
<1>8. ASSUME NEW k \in known, PushCommand(k)
      PROVE  TypeOK'
  <2>1. PICK op \in {"send", "close"} : cmds' = Append(cmds, [op |-> op, id |-> k[1], for |-> k[2]])
    BY <1>8 DEF PushCommand
  <2>2. [op |-> op, id |-> k[1], for |-> k[2]] \in [op : {"send", "close"}, id : Ids, for : Peers]
    BY DEF TypeOK
  <2>3. cmds' \in Seq([op : {"send", "close"}, id : Ids, for : Peers])
    BY <2>1, <2>2, AppendProperties DEF TypeOK
  <2> QED BY <1>1, <1>8, <2>3 DEF PushCommand, TypeOK, peerVars
<1> QED BY <1>2, <1>3, <1>4, <1>5, <1>6, <1>7, <1>8 DEF Quiet
(* An accept keeps the types.                                                 *)
LEMMA AcceptType ==
  ASSUME TypeOK, Accept
  PROVE  TypeOK'
<1>1. PICK f \in Fds \ UsedFds :
        /\ connections' = connections \cup {connCount + 1}
        /\ connFd' = [connFd EXCEPT ![connCount + 1] = f]
        /\ sockets' = [sockets EXCEPT ![f] = connCount + 1]
        /\ fdToId' = [fdToId EXCEPT ![f] = connCount + 1]
  BY AcceptFacts
<1>2. connCount' = connCount + 1 /\ connCount \in Nat /\ connCount + 1 \in Ids
  BY AcceptFacts
<1>3. connCount + 1 \in Peers /\ connCount + 1 \in 0 .. MaxPeers
  BY <1>2, BoundsAssumption DEF Ids, Peers
<1>4. UNCHANGED <<at, batch, batchStart, cmds, dialled, peerUp, inbox, known, pushed, acted>>
  BY DEF Accept, peerVars, workVars
<1>5. connections' \subseteq 1 .. connCount'
  BY <1>1, <1>2 DEF TypeOK
<1>7. /\ connFd' \in [Ids -> Fds \cup {NoFd}] /\ sockets' \in [Fds -> 0 .. MaxPeers]
      /\ fdToId' \in [Fds -> 0 .. MaxPeers]
  BY <1>1, <1>3 DEF TypeOK
<1>8. connCount' <= dialled' /\ batchStart' \in 0 .. connCount' /\ connCount' \in Nat
  BY <1>2, <1>4, AcceptFacts DEF TypeOK
<1> QED BY <1>4, <1>5, <1>7, <1>8 DEF TypeOK

(* Closing a descriptor keeps the types.                                      *)
LEMMA CloseFdType ==
  ASSUME TypeOK, NEW id \in Ids, CloseFd(id)
  PROVE  /\ connFd' = [connFd EXCEPT ![id] = NoFd]
         /\ connFd' \in [Ids -> Fds \cup {NoFd}] /\ sockets' \in [Fds -> 0 .. MaxPeers]
BY BoundsAssumption DEF TypeOK, CloseFd

(* Deleting a connection and closing one by command keep the types.           *)
LEMMA DeleteType ==
  ASSUME TypeOK, NEW e \in batch, NEW id \in Ids, Hangup(e, id) \/ ReadFails(e, id)
  PROVE  TypeOK'
<1>1. /\ connections' \subseteq connections /\ CloseFd(id)
      /\ batch' \subseteq batch
      /\ at' \in {at, "down"}
      /\ UNCHANGED <<connCount, fdToId, batchStart, cmds, dialled, peerUp, inbox,
                     known, pushed, acted>>
  BY DEF Hangup, ReadFails, AfterSend, Delete, Take, peerVars, workVars
<1>2. connFd' \in [Ids -> Fds \cup {NoFd}] /\ sockets' \in [Fds -> 0 .. MaxPeers]
  BY <1>1, CloseFdType
<1>3. /\ connections' \subseteq 1 .. connCount'
      /\ batch' \subseteq [fd : Fds \cup {CmdFd, ListenFd}, hup : BOOLEAN]
  BY <1>1 DEF TypeOK
<1> QED BY <1>1, <1>2, <1>3 DEF TypeOK

LEMMA CloseType ==
  ASSUME TypeOK, CommandCloses
  PROVE  TypeOK'
<1>1. Pop
  BY DEF CommandCloses
<1>2. /\ Head(cmds).for \in Peers /\ Head(cmds).id \in Ids
      /\ cmds' \in Seq([op : {"send", "close"}, id : Ids, for : Peers])
  BY <1>1, PopFacts
<1>3. /\ CloseFd(Head(cmds).id)
      /\ acted' = acted \cup {<<Head(cmds).for, Socket(Head(cmds).id)>>}
      /\ UNCHANGED <<connCount, connections, fdToId, at, batch, batchStart,
                     dialled, peerUp, inbox, known, pushed>>
  BY DEF CommandCloses, Act, peerVars, workVars
<1>4. connFd' \in [Ids -> Fds \cup {NoFd}] /\ sockets' \in [Fds -> 0 .. MaxPeers]
  BY <1>2, <1>3, CloseFdType
<1>5. acted' \subseteq Peers \X (0 .. MaxPeers)
  BY <1>2, <1>3, SocketType DEF TypeOK
<1> QED BY <1>2, <1>3, <1>4, <1>5 DEF TypeOK

(* The initial state has the types.                                           *)
LEMMA TypeInit == Init => TypeOK
BY BoundsAssumption DEF Init, TypeOK, Ids, Peers

(* Every step keeps the types.                                                *)
LEMMA TypeStep ==
  ASSUME TypeOK, [Next]_vars
  PROVE  TypeOK'
<1>1. CASE UNCHANGED vars
  BY <1>1 DEF vars, tableVars, peerVars, workVars, TypeOK
<1> QED BY <1>1, NextCases, QuietType, AcceptType, DeleteType, CloseType

(* The table's variables keep their types.                                    *)
THEOREM TableTypes == Spec => []TypeOK
<1>1. TypeOK /\ [Next]_vars => TypeOK'
  BY TypeStep
<1> QED BY <1>1, TypeInit, PTL DEF Spec

------------------------------------------------------------------------------
(* The maps and the descriptors                                               *)

(* Deleting or closing one connection leaves the others reachable and their   *)
(* sockets open.                                                              *)
LEMMA TableShrinks ==
  ASSUME TypeOK, TableInv, NEW id \in connections, connections' \in {connections, connections \ {id}},
         CloseFd(id), UNCHANGED <<connCount, fdToId>>
  PROVE  TableInv' /\ OpenIds' = OpenIds \ {id} /\ \A i \in OpenIds' : connFd'[i] = connFd[i]
<1>1. id \in Ids /\ connFd[id] \in Fds \cup {NoFd}
  BY EntryFacts
<1>2. connFd' = [connFd EXCEPT ![id] = NoFd]
  BY DEF CloseFd
<1>3. OpenIds' = OpenIds \ {id}
  <2>1. \A i \in connections : i # id => connFd'[i] = connFd[i]
    BY <1>2, EntryFacts DEF TypeOK
  <2>2. connFd'[id] = NoFd
    BY <1>1, <1>2 DEF TypeOK
  <2> QED BY <2>1, <2>2 DEF OpenIds
<1>4. \A i \in OpenIds' : i \in OpenIds /\ i # id /\ connFd'[i] = connFd[i]
  BY <1>2, <1>3, EntryFacts DEF OpenIds, TypeOK
<1>5. Reachable' /\ \A f \in Fds : fdToId'[f] <= connCount' /\ (fdToId'[f] \in OpenIds' => connFd'[fdToId'[f]] = f)
  BY <1>4 DEF TableInv, Reachable
<1>6. SocketInv'
  <2>1. CASE connFd[id] = NoFd
    <3>1. sockets' = sockets /\ id \notin OpenIds
      BY <2>1 DEF CloseFd, OpenIds
    <3>2. OpenIds' = OpenIds
      BY <1>3, <3>1
    <3> QED BY <1>4, <3>1, <3>2 DEF TableInv, SocketInv
  <2>2. CASE connFd[id] # NoFd
    <3>1. sockets' = [sockets EXCEPT ![connFd[id]] = 0] /\ sockets[connFd[id]] = id
      BY <2>2 DEF CloseFd, TableInv, SocketInv, OpenIds
    <3>2. ASSUME NEW i \in OpenIds' PROVE sockets'[connFd'[i]] = i
      <4>1. sockets[connFd[i]] = i /\ connFd[i] # connFd[id] /\ connFd[i] \in Fds
        BY <1>4, <3>1, EntryFacts DEF TableInv, SocketInv, OpenIds
      <4> QED BY <1>4, <3>1, <4>1 DEF TypeOK
    <3>3. ASSUME NEW f \in Fds, sockets'[f] # 0
          PROVE  sockets'[f] \in OpenIds' /\ connFd'[sockets'[f]] = f
      <4>1. f # connFd[id] /\ sockets'[f] = sockets[f]
        BY <1>1, <3>1, <3>3 DEF TypeOK
      <4>2. sockets[f] \in OpenIds /\ connFd[sockets[f]] = f
        BY <3>3, <4>1 DEF TableInv, SocketInv
      <4>3. sockets[f] # id
        BY <4>1, <4>2
      <4> QED BY <1>3, <1>4, <4>1, <4>2, <4>3
    <3> QED BY <3>2, <3>3 DEF SocketInv
  <2> QED BY <2>1, <2>2
<1> QED BY <1>3, <1>4, <1>5, <1>6 DEF TableInv

(* A new connection takes a descriptor that no open one has.                  *)
LEMMA TableGrows ==
  ASSUME TypeOK, TableInv, Accept
  PROVE  TableInv'
<1>1. PICK f \in Fds \ UsedFds :
        /\ connections' = connections \cup {connCount + 1}
        /\ connFd' = [connFd EXCEPT ![connCount + 1] = f]
        /\ sockets' = [sockets EXCEPT ![f] = connCount + 1]
        /\ fdToId' = [fdToId EXCEPT ![f] = connCount + 1]
  BY AcceptFacts
<1>2. /\ connCount' = connCount + 1 /\ connCount \in Nat /\ connCount + 1 \in Ids
      /\ connCount + 1 \notin connections
  BY AcceptFacts
<1>3. \A i \in OpenIds' : i = connCount + 1 \/ (i \in OpenIds /\ i # connCount + 1)
  BY <1>1, <1>2, EntryFacts DEF OpenIds, TypeOK
<1>4. \A i \in OpenIds : connFd[i] # f /\ connFd[i] \in Fds /\ i # 0
  BY EntryFacts DEF UsedFds, OpenIds, TableInv, SocketInv, Ids
<1>5. Reachable'
  <2> SUFFICES ASSUME NEW i \in OpenIds' PROVE fdToId'[connFd'[i]] = i
    BY DEF Reachable
  <2>1. CASE i = connCount + 1
    BY <1>1, <1>2, <2>1 DEF TypeOK
  <2>2. CASE i \in OpenIds /\ i # connCount + 1
    BY <1>1, <1>4, <2>2, EntryFacts DEF TypeOK, TableInv, Reachable
  <2> QED BY <1>3, <2>1, <2>2
<1>6. ASSUME NEW g \in Fds
      PROVE  /\ fdToId'[g] <= connCount'
             /\ fdToId'[g] \in OpenIds' => connFd'[fdToId'[g]] = g
  <2>1. CASE g = f
    BY <1>1, <1>2, <2>1 DEF TypeOK
  <2>2. CASE g # f
    <3>1. fdToId'[g] = fdToId[g] /\ fdToId[g] <= connCount /\ fdToId[g] \in Nat
      BY <1>1, <2>2, BoundsAssumption DEF TypeOK, TableInv
    <3>2. fdToId[g] # connCount + 1
      BY <1>2, <3>1
    <3>3. fdToId[g] \in OpenIds => connFd[fdToId[g]] = g
      BY DEF TableInv
    <3>4. ASSUME fdToId[g] \in OpenIds PROVE connFd'[fdToId[g]] = connFd[fdToId[g]]
      BY <1>1, <3>2, <3>4, EntryFacts DEF OpenIds, TypeOK
    <3> QED BY <1>2, <1>3, <3>1, <3>2, <3>3, <3>4
  <2> QED BY <2>1, <2>2
<1>7. OpenIds' = OpenIds \cup {connCount + 1}
  <2>1. connFd'[connCount + 1] = f /\ f # NoFd
    BY <1>1, <1>2, FdsAssumption DEF TypeOK
  <2>2. \A i \in connections : connFd'[i] = connFd[i]
    BY <1>1, <1>2, EntryFacts DEF TypeOK
  <2> QED BY <1>1, <2>1, <2>2 DEF OpenIds
<1>8. SocketInv'
  <2>1. ASSUME NEW i \in OpenIds' PROVE sockets'[connFd'[i]] = i
    <3>1. CASE i = connCount + 1
      BY <1>1, <1>2, <3>1 DEF TypeOK
    <3>2. CASE i \in OpenIds /\ i # connCount + 1
      <4>1. connFd'[i] = connFd[i]
        BY <1>1, <3>2, EntryFacts DEF TypeOK, OpenIds
      <4> QED BY <1>1, <1>4, <3>2, <4>1 DEF TypeOK, TableInv, SocketInv
    <3> QED BY <1>3, <2>1, <3>1, <3>2
  <2>2. ASSUME NEW g \in Fds, sockets'[g] # 0
        PROVE  sockets'[g] \in OpenIds' /\ connFd'[sockets'[g]] = g
    <3>1. CASE g = f
      BY <1>1, <1>2, <1>7, <3>1 DEF TypeOK
    <3>2. CASE g # f
      <4>1. sockets'[g] = sockets[g] /\ sockets[g] \in OpenIds /\ connFd[sockets[g]] = g
        BY <1>1, <2>2, <3>2 DEF TypeOK, TableInv, SocketInv
      <4>2. sockets[g] # connCount + 1
        BY <1>2, <4>1 DEF OpenIds
      <4>3. connFd'[sockets[g]] = connFd[sockets[g]]
        BY <1>1, <4>1, <4>2, EntryFacts DEF TypeOK, OpenIds
      <4> QED BY <1>7, <4>1, <4>3
    <3> QED BY <3>1, <3>2
  <2> QED BY <2>1, <2>2 DEF SocketInv
<1> QED BY <1>5, <1>6, <1>8 DEF TableInv

LEMMA TableStep ==
  ASSUME TypeOK, TableInv, [Next]_vars
  PROVE  TableInv'
<1>1. CASE UNCHANGED tableVars
  BY <1>1 DEF tableVars, TableInv, Reachable, SocketInv, OpenIds
<1>2. ASSUME NEW e \in batch, NEW id \in Ids, Hangup(e, id) \/ ReadFails(e, id)
      PROVE  TableInv'
  BY <1>2, TableShrinks DEF Hangup, ReadFails, Delete, Target
<1>3. CASE CommandCloses
  BY <1>3, TableShrinks DEF CommandCloses, Open
<1>4. UNCHANGED vars => UNCHANGED tableVars
  BY DEF vars
<1> QED BY <1>1, <1>2, <1>3, <1>4, NextCases, QuietTable, TableGrows

(* The maps agree: _fdToId leads to every open connection and never to the    *)
(* wrong one, and _fd is the socket accepted for the connection.              *)
THEOREM TableAgrees == Spec => []TableInv
<1>1. Init => TableInv
  BY DEF Init, TableInv, Reachable, SocketInv, OpenIds
<1>2. TypeOK /\ TableInv /\ [Next]_vars => TableInv'
  BY TableStep
<1> QED BY <1>1, <1>2, TableTypes, PTL DEF Spec

(* Every open connection is found through its descriptor.                     *)
THEOREM OpenReachable == Spec => []Reachable
<1>1. TableInv => Reachable
  BY DEF TableInv
<1> QED BY <1>1, TableAgrees, PTL

------------------------------------------------------------------------------
(* Commands and their peers                                                   *)

(* A command that is handled is carried out on the socket of its connection.  *)
LEMMA PeerPop ==
  ASSUME TypeOK, TableInv, PeerInv, Pop, UNCHANGED known,
         acted' = acted \/ (Act /\ Open(Head(cmds).id))
  PROVE  PeerInv'
<1>1. Head(cmds).id = Head(cmds).for
  BY PopFacts DEF PeerInv
<1>2. OwnConnection'
  <2>1. CASE acted' = acted
    BY <2>1 DEF PeerInv, OwnConnection
  <2>2. CASE Act /\ Open(Head(cmds).id)
    <3>1. Socket(Head(cmds).id) \in {0, Head(cmds).for}
      BY <1>1, <2>2, SocketFacts DEF Open, TableInv
    <3> QED BY <2>2, <3>1 DEF Act, PeerInv, OwnConnection
  <2> QED BY <2>1, <2>2
<1>3. \A i \in DOMAIN cmds' : cmds'[i].id = cmds'[i].for
  BY PopFacts DEF PeerInv
<1> QED BY <1>2, <1>3 DEF PeerInv

LEMMA PeerQuiet ==
  ASSUME TypeOK, TableInv, PeerInv, Quiet
  PROVE  PeerInv'
<1>2. CASE UNCHANGED <<known, cmds, acted>>
  BY <1>2 DEF PeerInv, OwnConnection
<1>3. CASE CommandUnknown \/ CommandIdle \/ CommandSend
  <2>1. Pop /\ UNCHANGED known /\ (acted' = acted \/ (Act /\ Open(Head(cmds).id)))
    BY <1>3 DEF CommandUnknown, CommandIdle, CommandSend, workVars
  <2> QED BY <2>1, PeerPop
<1>4. ASSUME NEW e \in batch, NEW id \in Ids, ReadFd(e, id) PROVE PeerInv'
  <2>1. /\ id \in connections /\ UNCHANGED <<cmds, acted>>
        /\ known' \subseteq known \cup {<<id, Socket(id)>>} /\ Socket(id) # 0
    BY <1>4 DEF ReadFd, ReadEnds, Target, Take
  <2>2. Socket(id) = id
    BY <2>1, SocketFacts DEF TableInv
  <2>3. \A k \in known' : k[1] = k[2]
    BY <2>1, <2>2 DEF PeerInv
  <2> QED BY <2>1, <2>3 DEF PeerInv, OwnConnection
<1>5. ASSUME NEW k \in known, PushCommand(k) PROVE PeerInv'
  <2>1. PICK op \in {"send", "close"} : cmds' = Append(cmds, [op |-> op, id |-> k[1], for |-> k[2]])
    BY <1>5 DEF PushCommand
  <2> DEFINE c == [op |-> op, id |-> k[1], for |-> k[2]]
             C == [op : {"send", "close"}, id : Ids, for : Peers]
  <2>2. c \in C /\ cmds \in Seq(C)
    BY DEF TypeOK
  <2>3. c.id = c.for
    BY DEF PeerInv
  <2>4. cmds' = Append(cmds, c)
    BY <2>1
  <2> HIDE DEF c, C
  <2>5. \A i \in DOMAIN cmds' : cmds'[i] = c \/ (i \in DOMAIN cmds /\ cmds'[i] = cmds[i])
    BY <2>2, <2>4, AppendProperties, LenProperties
  <2>6. \A i \in DOMAIN cmds' : cmds'[i].id = cmds'[i].for
    BY <2>3, <2>5 DEF PeerInv
  <2> QED BY <1>5, <2>6 DEF PushCommand, PeerInv, OwnConnection
<1> QED BY <1>2, <1>3, <1>4, <1>5
        DEF Quiet, Collect, BatchDone, AcceptEnds, CommandEvent, ListenEvent, NoTarget, DrainEnds,
            PeerStep, Dial, PeerSends, PeerHangs, workVars

LEMMA PeerInvStep ==
  ASSUME TypeOK, TableInv, PeerInv, [Next]_vars
  PROVE  PeerInv'
<1>1. CASE CommandCloses
  BY <1>1, PeerPop DEF CommandCloses, workVars
<1>2. CASE UNCHANGED <<known, cmds, acted>>
  BY <1>2 DEF PeerInv, OwnConnection
<1>3. CASE Accept \/ UNCHANGED vars
  BY <1>2, <1>3 DEF Accept, vars, workVars
<1>4. ASSUME NEW e \in batch, NEW id \in Ids, Hangup(e, id) \/ ReadFails(e, id)
      PROVE  PeerInv'
  BY <1>2, <1>4 DEF Hangup, ReadFails, workVars
<1> QED BY <1>1, <1>3, <1>4, NextCases, PeerQuiet

(* No command is ever carried out on a socket other than that of the peer it  *)
(* was meant for, whatever was closed, reused and accepted since.             *)
THEOREM CommandsActOnTheirOwn == Spec => []OwnConnection
<1>1. Init => PeerInv
  BY DEF Init, PeerInv, OwnConnection
<1>2. TypeOK /\ TableInv /\ PeerInv /\ [Next]_vars => PeerInv'
  BY PeerInvStep
<1>3. PeerInv => OwnConnection
  BY DEF PeerInv
<1> QED BY <1>1, <1>2, <1>3, TableTypes, TableAgrees, PTL DEF Spec

------------------------------------------------------------------------------
(* Deletions                                                                  *)

(* A hang-up in hand is that of the open connection it reaches, or that one   *)
(* was accepted after the events were collected.                              *)
LEMMA EventStepInv ==
  ASSUME TypeOK, TableInv, EventInv, [Next]_vars
  PROVE  EventInv'
<1>1. ASSUME batch' \subseteq batch, OpenIds' \subseteq OpenIds,
             \A id \in OpenIds' : connFd'[id] = connFd[id],
             \A p \in Peers : peerUp'[p] => peerUp[p], UNCHANGED batchStart
      PROVE  EventInv'
  <2> SUFFICES ASSUME NEW e \in batch', NEW id \in OpenIds', e.hup, connFd'[id] = e.fd,
                      id <= batchStart'
               PROVE  ~peerUp'[id]
    BY DEF EventInv
  <2>1. ~peerUp[id]
    BY <1>1 DEF EventInv
  <2>2. id \in Peers
    BY <1>1, EntryFacts DEF OpenIds
  <2> QED BY <1>1, <2>1, <2>2
<1>2. CASE Collect
  <2>1. batch' \subseteq Ready /\ UNCHANGED <<connections, connFd, peerUp>>
    BY <1>2 DEF Collect, tableVars, peerVars
  <2> SUFFICES ASSUME NEW e \in Ready, NEW id \in OpenIds, e.hup, connFd[id] = e.fd
               PROVE  ~peerUp[id]
    BY <2>1 DEF EventInv, OpenIds
  <2>2. e.fd \in Fds
    BY EntryFacts DEF OpenIds
  <2>3. PICK f \in ReadyFds : e = Event(f, ~peerUp[sockets[f]])
    BY <2>2, FdsAssumption DEF Ready, Event
  <2>4. e.fd = f /\ (e.hup <=> ~peerUp[sockets[f]])
    BY <2>3 DEF Event
  <2>5. sockets[f] = id
    BY <2>4 DEF TableInv, SocketInv
  <2> QED BY <2>4, <2>5
<1>3. CASE Accept
  <2>1. PICK f \in Fds : /\ connections' = connections \cup {connCount + 1}
                         /\ connFd' = [connFd EXCEPT ![connCount + 1] = f]
    BY <1>3, AcceptFacts
  <2>2. UNCHANGED <<batch, batchStart, peerUp>>
    BY <1>3 DEF Accept, peerVars
  <2> SUFFICES ASSUME NEW e \in batch, NEW id \in OpenIds', e.hup, connFd'[id] = e.fd,
                      id <= batchStart
               PROVE  ~peerUp[id]
    BY <2>2 DEF EventInv
  <2>3. id # connCount + 1
    BY AcceptFacts, <1>3 DEF TypeOK
  <2>4. id \in OpenIds /\ connFd'[id] = connFd[id]
    BY <2>1, <2>3, EntryFacts DEF OpenIds, TypeOK
  <2> QED BY <2>4 DEF EventInv
<1>4. CASE CommandCloses
  <2>1. OpenIds' \subseteq OpenIds /\ \A id \in OpenIds' : connFd'[id] = connFd[id]
    BY <1>4, TableShrinks DEF CommandCloses, Open
  <2> QED BY <1>1, <1>4, <2>1 DEF CommandCloses, peerVars
<1>5. ASSUME NEW e \in batch, NEW i \in Ids, Hangup(e, i) \/ ReadFails(e, i)
      PROVE  EventInv'
  <2>1. OpenIds' \subseteq OpenIds /\ \A id \in OpenIds' : connFd'[id] = connFd[id]
    BY <1>5, TableShrinks DEF Hangup, ReadFails, Delete, Target
  <2> QED BY <1>1, <1>5, <2>1 DEF Hangup, ReadFails, Take, peerVars
<1>6. CASE Quiet /\ ~Collect
  <2>1. UNCHANGED <<connections, connFd>>
    BY <1>6, QuietTable DEF tableVars
  <2>2. batch' \subseteq batch /\ UNCHANGED batchStart
    BY <1>6 DEF Quiet, BatchDone, AcceptEnds, CommandEvent, ListenEvent, NoTarget, ReadFd, Take,
       CommandUnknown, CommandIdle, CommandSend, DrainEnds, PeerStep, Dial, PeerSends, PeerHangs,
       PushCommand
  <2>3. \A p \in Peers : peerUp'[p] => peerUp[p]
    BY <1>6 DEF Quiet, BatchDone, AcceptEnds, CommandEvent, ListenEvent, NoTarget, ReadFd,
       CommandUnknown, CommandIdle, CommandSend, DrainEnds, PeerStep, Dial, PeerSends, PeerHangs,
       PushCommand, peerVars, TypeOK
  <2>4. OpenIds' = OpenIds
    BY <2>1 DEF OpenIds
  <2> QED BY <1>1, <2>1, <2>2, <2>3, <2>4
<1>7. CASE UNCHANGED vars
  BY <1>7 DEF vars, tableVars, peerVars, EventInv, OpenIds
<1> QED BY <1>2, <1>3, <1>4, <1>5, <1>6, <1>7, NextCases

(* Whatever a stale event of a reused descriptor does, a connection that was  *)
(* there when the events were collected is deleted only for a reason of its   *)
(* own.                                                                       *)
THEOREM DeletionsHaveCause == Spec => DeletedForCause
<1>1. Init => EventInv
  BY DEF Init, EventInv
<1>2. TypeOK /\ TableInv /\ EventInv /\ [Next]_vars => EventInv'
  BY EventStepInv
<1>3. TypeOK /\ TableInv /\ EventInv /\ [Next]_vars
        => [\A id \in connections \ connections' : ReadEnds(id) \/ id > batchStart]_vars
  <2> SUFFICES ASSUME TypeOK, TableInv, EventInv, [Next]_vars, ~UNCHANGED vars,
                      NEW id \in connections \ connections', ~ReadEnds(id)
               PROVE  id > batchStart
    OBVIOUS
  <2>1. PICK e \in batch : Hangup(e, id)
    <3>1. ~(UNCHANGED connections) /\ ~Accept
      BY AcceptFacts
    <3>2. ~Quiet /\ ~CommandCloses
      BY <3>1, QuietTable DEF tableVars, CommandCloses
    <3>3. PICK e \in batch, i \in Ids : Hangup(e, i) \/ ReadFails(e, i)
      BY <3>1, <3>2, NextCases
    <3>4. i = id
      BY <3>3 DEF Hangup, ReadFails, Delete
    <3> QED BY <3>3, <3>4 DEF ReadFails
  <2>2. e.hup /\ e.fd \in Fds /\ fdToId[e.fd] = id
    BY <2>1 DEF Hangup, Target
  <2>3. id \in OpenIds /\ peerUp[id]
    BY SocketFacts DEF ReadEnds, TableInv
  <2>4. connFd[id] = e.fd
    BY <2>2, <2>3 DEF TableInv
  <2>5. ~(id <= batchStart)
    BY <2>2, <2>3, <2>4 DEF EventInv
  <2>6. id \in Nat /\ batchStart \in Nat
    BY DEF TypeOK
  <2> QED BY <2>5, <2>6
<1> QED BY <1>1, <1>2, <1>3, TableTypes, TableAgrees, PTL DEF Spec, DeletedForCause
==============================================================================
