--------------------------- MODULE ServerStopProofs ---------------------------
(* TLAPS proofs about ServerStop, for any set of connections and workers: it  *)
(* is a Mailbox, which thread can meet a connection that another deleted, and *)
(* what ends the loop.                                                        *)
EXTENDS ServerStop, MailboxProofs

------------------------------------------------------------------------------
(* The inductive invariant                                                    *)

\* what the loop and the workers have looked up, and what the map still holds
LookupInv ==
  /\ erasing => loop = "wait" /\ grip # NoId /\ heap[grip] \in {"loop", "stop"}
  /\ grip # NoId /\ ~erasing => heap[grip] \notin {"unborn", "loop"}
  /\ \A id \in table : heap[id] # "unborn" /\ (heap[id] = "loop" => erasing /\ grip = id)
  /\ \A w \in Producers : held[w] # NoId => heap[held[w]] # "unborn"

\* what stop() has deleted and not yet cleared it has passed
VisitInv ==
  /\ owner = "serving" => visited = {} /\ \A id \in Ids : heap[id] # "stop"
  /\ \A id \in visited : heap[id] \in {"loop", "stop"}
  /\ \A id \in table : heap[id] = "stop" => id \in visited

\* what is live is in the map; between the end of the iteration and clear(),
\* and once the loop is over and stop() has run again, nothing is
LeakInv ==
  /\ \A id \in Ids : heap[id] = "live" => id \in table
  /\ owner \in {"clearing", "last_clearing", "gone", "destroyed"} => \A id \in Ids : heap[id] # "live"
  /\ owner \in {"destroying", "last_clearing", "gone", "destroyed"} => loop = "exited"

Lives == LookupInv /\ VisitInv /\ LeakInv /\ MisuseAcrossThreads

------------------------------------------------------------------------------
(* Every step is a step of Mailbox or leaves it alone.                        *)

LEMMA WorkerIsMailbox ==
  ASSUME NEW w \in Producers, WorkerStep(w)
  PROVE  [Next]_vars
<1>1. CASE WorkerGoesOn(w)
  BY <1>1 DEF WorkerGoesOn, WorkerSend, WorkerWake, Next, ProducerStep
<1>2. CASE WorkerLate(w)
  BY <1>2 DEF WorkerLate
<1>3. ASSUME NEW id \in Ids, WorkerFind(w, id) \/ WorkerClose(w, id)
      PROVE  [Next]_vars
  BY <1>3 DEF WorkerFind, WorkerClose, Next, ProducerStep
<1> QED BY <1>1, <1>2, <1>3 DEF WorkerStep

LEMMA LoopIsMailbox ==
  ASSUME LoopTurn
  PROVE  [Next]_vars
<1>1. CASE MailboxLoop \/ LoopAwake \/ LoopTurns
  BY <1>1 DEF MailboxLoop, LoopAwake, LoopTurns, Next, LoopStep
<1>2. CASE ReadFd \/ EventDelete \/ EventGone \/ EventErase \/ CommandFind
  BY <1>2 DEF ReadFd, EventDelete, EventGone, EventErase, CommandFind
<1>3. CASE CommandUse \/ CommandUnknown
  BY <1>3 DEF CommandUse, CommandUnknown, Next, LoopStep
<1>4. ASSUME NEW id \in Ids, Accept(id) \/ EventFor(id)
      PROVE  [Next]_vars
  BY <1>4 DEF Accept, EventFor
<1> QED BY <1>1, <1>2, <1>3, <1>4 DEF LoopTurn, LoopGoesOn

LEMMA OwnerIsMailbox ==
  ASSUME OwnerStep
  PROVE  [Next]_vars
<1>1. CASE Stop \/ Destroy \/ StopMailbox
  BY <1>1 DEF Stop, Destroy, StopMailbox, Next, StopperStep
<1>2. CASE StopScanned \/ StopTables \/ PoolJoined
  BY <1>2 DEF StopScanned, StopTables, PoolJoined
<1>3. ASSUME NEW id \in Ids, StopDelete(id)
      PROVE  [Next]_vars
  BY <1>3 DEF StopDelete
<1> QED BY <1>1, <1>2, <1>3 DEF OwnerStep, OwnerGoesOn

(* So Mailbox's theorems hold of the server's queue and eventfd.              *)
LEMMA StepIsMailbox == [ServerNext]_serverVars => [Next]_vars
BY WorkerIsMailbox, LoopIsMailbox, OwnerIsMailbox DEF ServerNext, serverVars

LEMMA ServerIsMailbox == ServerSpec => Spec
<1>1. ServerInit => Init
  BY DEF ServerInit
<1> QED BY <1>1, StepIsMailbox, PTL DEF ServerSpec, Spec

(* A response pushed by a worker is never left with the loop asleep.          *)
THEOREM ServerLosesNoWakeup == ServerSpec => []NoLostWakeup
BY ServerIsMailbox, NoWakeupIsLost

(* stop(), also when the destructor repeats it, never leaves the loop asleep. *)
THEOREM ServerLosesNoStop == ServerSpec => []NoLostStop
BY ServerIsMailbox, NoStopIsLost

(* The loop handles the workers' commands in the order of their pushes, each  *)
(* at most once, and none is passed over before stop().                       *)
THEOREM ServerHandlesInOrder == ServerSpec => []HandledInOrder
BY ServerIsMailbox, CommandsInOrder

------------------------------------------------------------------------------
(* Types                                                                      *)

LEMMA ServerTypeInit == ServerInit => ServerTypeOK
BY TypeInit, EmptySeq DEF ServerInit, ServerTypeOK, Init

(* A push appends the destination of its command.                             *)
LEMMA DestPush ==
  ASSUME ServerTypeOK, NEW w \in Producers, NEW id \in Ids,
         Push(w), dest' = Append(dest, id)
  PROVE  dest' \in Seq(Ids) /\ Len(dest') = pushed'
BY AppendProperties DEF ServerTypeOK, TypeOK, Push

(* An action that touches neither objects nor lookups.                        *)
LEMMA QuietStep ==
  ASSUME ServerTypeOK, Lives, TypeOK', dest' \in Seq(Ids), Len(dest') = pushed',
         UNCHANGED <<lifeVars, held, loopVars, ownerVars>>,
         loop = "exited" => loop' = "exited", erasing => loop' = loop
  PROVE  ServerTypeOK' /\ Lives'
BY DEF ServerTypeOK, Lives, LookupInv, VisitInv, LeakInv, MisuseAcrossThreads, Alive, lifeVars, loopVars, ownerVars

(* A worker meets what the loop or stop() has deleted.                        *)
LEMMA WorkerLives ==
  ASSUME ServerTypeOK, Lives, NEW w \in Producers, WorkerStep(w)
  PROVE  ServerTypeOK' /\ Lives'
<1>0. TypeOK'
  BY WorkerIsMailbox, TypeStep DEF ServerTypeOK
<1>a. loop' = loop
  BY DEF WorkerStep, WorkerGoesOn, WorkerSend, WorkerWake, WorkerLate, WorkerFind, WorkerClose, Push, Wake, vars
<1> USE IdsAssumption
<1>1. CASE WorkerSend(w)
  <2>1. held[w] \in Ids /\ heap[held[w]] # "unborn" /\ heap[held[w]] \in {"unborn", "live", "late", "loop", "stop"}
    BY <1>1 DEF WorkerSend, ServerTypeOK, Lives, LookupInv
  <2>2. dest' \in Seq(Ids) /\ Len(dest') = pushed'
    BY <1>1, <2>1, DestPush DEF WorkerSend
  <2>3. misused' = misused \/ (misused' = misused \cup {<<"worker", heap[held[w]]>>} /\ heap[held[w]] \in {"loop", "stop"})
    BY <1>1, <2>1 DEF WorkerSend, Uses, Alive
  <2>4. UNCHANGED <<table, heap, grip, erasing, owner, visited>> /\ held' = [held EXCEPT ![w] = NoId]
    BY <1>1 DEF WorkerSend, loopVars, ownerVars
  <2>5. ServerTypeOK'
    BY <1>0, <2>2, <2>3, <2>4 DEF ServerTypeOK
  <2>6. LookupInv' /\ VisitInv' /\ LeakInv'
    BY <1>a, <2>4 DEF Lives, LookupInv, VisitInv, LeakInv, Alive, ServerTypeOK
  <2>7. MisuseAcrossThreads'
    BY <2>1, <2>3, <2>4 DEF Lives, MisuseAcrossThreads, VisitInv
  <2> QED BY <2>5, <2>6, <2>7 DEF Lives
<1>2. CASE WorkerWake(w)
  <2>1. dest' = dest /\ pushed' = pushed
    BY <1>2 DEF WorkerWake, Wake
  <2> QED BY <1>0, <1>a, <1>2, <2>1, QuietStep DEF WorkerWake, ServerTypeOK
<1>3. CASE WorkerLate(w)
  <2>1. misused' = misused \cup {<<"worker", "destructor">>} /\ owner = "gone"
        /\ held' = [held EXCEPT ![w] = NoId]
        /\ UNCHANGED <<table, heap, grip, erasing, owner, visited, dest, pushed>>
    BY <1>3 DEF WorkerLate, loopVars, ownerVars, vars
  <2>2. ServerTypeOK'
    BY <1>0, <2>1 DEF ServerTypeOK
  <2>3. LookupInv' /\ VisitInv' /\ LeakInv'
    BY <1>a, <2>1 DEF Lives, LookupInv, VisitInv, LeakInv, Alive, ServerTypeOK
  <2>4. MisuseAcrossThreads'
    BY <2>1 DEF Lives, MisuseAcrossThreads
  <2> QED BY <2>2, <2>3, <2>4 DEF Lives
<1>4. ASSUME NEW id \in Ids, WorkerFind(w, id)
      PROVE  ServerTypeOK' /\ Lives'
  <2>1. held' = [held EXCEPT ![w] = id] /\ id \in table
        /\ UNCHANGED <<table, heap, misused, grip, erasing, owner, visited, dest, pushed>>
    BY <1>4 DEF WorkerFind, loopVars, ownerVars, vars, lifeVars
  <2>2. ServerTypeOK'
    BY <1>0, <2>1 DEF ServerTypeOK
  <2>3. LookupInv' /\ VisitInv' /\ LeakInv' /\ MisuseAcrossThreads'
    BY <1>a, <2>1 DEF Lives, LookupInv, VisitInv, LeakInv, MisuseAcrossThreads, Alive, ServerTypeOK
  <2> QED BY <2>2, <2>3 DEF Lives
<1>5. ASSUME NEW id \in Ids, WorkerClose(w, id)
      PROVE  ServerTypeOK' /\ Lives'
  <2>1. dest' \in Seq(Ids) /\ Len(dest') = pushed'
    BY <1>5, DestPush DEF WorkerClose
  <2> QED BY <1>0, <1>a, <1>5, <2>1, QuietStep DEF WorkerClose
<1> QED BY <1>1, <1>2, <1>3, <1>4, <1>5 DEF WorkerStep, WorkerGoesOn

(* The loop meets what stop() has deleted, never what it deleted itself.      *)
LEMMA LoopLives ==
  ASSUME ServerTypeOK, Lives, LoopTurn
  PROVE  ServerTypeOK' /\ Lives'
<1>0. TypeOK'
  BY LoopIsMailbox, TypeStep DEF ServerTypeOK
<1>a. loop # "exited"
  BY DEF LoopTurn, LoopGoesOn, MailboxLoop, LoopAwake, LoopTurns, ReadFd, EventDelete, EventGone, EventErase,
         CommandFind, CommandUse, CommandUnknown, Accept, EventFor, InEvents, Check, Read, TryPop, Awake,
         AwakeElsewhere, Handle, HandleThrows, ServerTypeOK, Lives, LookupInv
<1> USE IdsAssumption
<1>1. CASE MailboxLoop \/ LoopAwake \/ LoopTurns \/ CommandUnknown
  <2>1. dest' = dest /\ pushed' = pushed /\ UNCHANGED <<lifeVars, held, loopVars, ownerVars>>
    BY <1>1 DEF MailboxLoop, LoopAwake, LoopTurns, CommandUnknown, Check, Read, TryPop, Awake, AwakeElsewhere, Handle,
                HandleThrows
  <2>2. ~erasing
    BY <1>1 DEF MailboxLoop, LoopAwake, LoopTurns, CommandUnknown, Check, Read, TryPop, Awake, AwakeElsewhere,
                Handle, HandleThrows, Lives, LookupInv
  <2> QED BY <1>0, <1>a, <2>1, <2>2, QuietStep DEF ServerTypeOK
<1>2. CASE ReadFd \/ CommandUse
  <2>1. /\ grip \in Ids /\ heap[grip] \in {"live", "late", "stop"}
        /\ UNCHANGED <<table, heap, held, erasing, owner, visited, dest, pushed>> /\ grip' = NoId /\ ~erasing
        /\ Uses("loop", grip)
    <3>1. CASE ReadFd
      BY <3>1 DEF ReadFd, vars, ownerVars, ServerTypeOK, Lives, LookupInv
    <3>2. CASE CommandUse
      <4>1. ~erasing
        BY <3>2 DEF CommandUse, ServerTypeOK, Lives, LookupInv, Handle
      <4> QED BY <3>2, <4>1 DEF CommandUse, Handle, ownerVars, ServerTypeOK, Lives, LookupInv
    <3> QED BY <1>2, <3>1, <3>2
  <2>2. misused' = misused \/ (misused' = misused \cup {<<"loop", "stop">>} /\ heap[grip] = "stop")
    BY <2>1 DEF Uses, Alive
  <2>3. ServerTypeOK'
    BY <1>0, <2>1, <2>2 DEF ServerTypeOK
  <2>4. LookupInv' /\ VisitInv' /\ LeakInv'
    BY <1>a, <2>1 DEF Lives, LookupInv, VisitInv, LeakInv, Alive
  <2>5. MisuseAcrossThreads'
    BY <2>1, <2>2 DEF Lives, MisuseAcrossThreads, VisitInv
  <2> QED BY <2>3, <2>4, <2>5 DEF Lives
<1>3. CASE EventDelete
  <2>1. /\ grip \in Ids /\ heap[grip] \in {"live", "late", "stop"}
        /\ UNCHANGED <<table, held, grip, owner, visited, dest, pushed>> /\ erasing' = TRUE /\ loop' = "wait"
        /\ Deletes("loop", grip)
    BY <1>3 DEF EventDelete, vars, ownerVars, ServerTypeOK, Lives, LookupInv
  <2>2. misused' = misused \/ (misused' = misused \cup {<<"loop", "stop">>} /\ heap[grip] = "stop")
    BY <2>1 DEF Deletes, Uses, Alive
  <2>3. /\ \A id \in Ids \ {grip} : heap'[id] = heap[id]
        /\ heap'[grip] = IF heap[grip] = "stop" THEN "stop" ELSE "loop"
        /\ heap' \in [Ids -> {"unborn", "live", "late", "loop", "stop"}]
    BY <2>1 DEF Deletes, Alive, ServerTypeOK
  <2>4. ServerTypeOK'
    BY <1>0, <2>1, <2>2, <2>3 DEF ServerTypeOK
  <2>5. LookupInv'
    BY <2>1, <2>3 DEF Lives, LookupInv, Alive, ServerTypeOK
  <2>6. VisitInv' /\ LeakInv'
    BY <1>a, <2>1, <2>3 DEF Lives, VisitInv, LeakInv, Alive, ServerTypeOK
  <2>7. MisuseAcrossThreads'
    BY <2>1, <2>2 DEF Lives, MisuseAcrossThreads, VisitInv
  <2> QED BY <2>4, <2>5, <2>6, <2>7 DEF Lives
<1>4. CASE EventGone \/ EventErase
  <2>1. /\ UNCHANGED <<heap, misused, held, owner, visited, dest, pushed>> /\ grip' = NoId /\ erasing' = FALSE
        /\ \/ table' = table /\ ~erasing
           \/ table' = table \ {grip} /\ erasing
    BY <1>4 DEF EventGone, EventErase, lifeVars, vars, ownerVars, ServerTypeOK
  <2>2. ServerTypeOK'
    BY <1>0, <2>1 DEF ServerTypeOK
  <2>3. LookupInv' /\ VisitInv' /\ LeakInv' /\ MisuseAcrossThreads'
    BY <1>a, <2>1 DEF Lives, LookupInv, VisitInv, LeakInv, MisuseAcrossThreads, Alive, ServerTypeOK
  <2> QED BY <2>2, <2>3 DEF Lives
<1>5. ASSUME NEW id \in Ids, EventFor(id) \/ (CommandFind /\ id = dest[current])
      PROVE  ServerTypeOK' /\ Lives'
  <2>1. /\ UNCHANGED <<table, heap, misused, held, erasing, owner, visited, dest, pushed>>
        /\ grip' = id /\ id \in table /\ grip = NoId /\ loop' = loop
    BY <1>5 DEF EventFor, InEvents, CommandFind, lifeVars, vars, ownerVars
  <2>2. ServerTypeOK'
    BY <1>0, <2>1 DEF ServerTypeOK
  <2>3. LookupInv' /\ VisitInv' /\ LeakInv' /\ MisuseAcrossThreads'
    BY <1>a, <2>1 DEF Lives, LookupInv, VisitInv, LeakInv, MisuseAcrossThreads, Alive, ServerTypeOK
  <2> QED BY <2>2, <2>3 DEF Lives
<1>6. ASSUME NEW id \in Ids, Accept(id)
      PROVE  ServerTypeOK' /\ Lives'
  <2>1. /\ UNCHANGED <<misused, held, grip, erasing, owner, visited, dest, pushed>>
        /\ heap[id] = "unborn" /\ table' = table \cup {id} /\ grip = NoId /\ loop = "wait" /\ loop' = loop
        /\ heap' = [heap EXCEPT ![id] = IF owner = "clearing" THEN "late" ELSE "live"]
    BY <1>6 DEF Accept, InEvents, loopVars, vars, ownerVars
  <2>2. ServerTypeOK'
    BY <1>0, <2>1 DEF ServerTypeOK
  <2>3. LookupInv'
    BY <2>1 DEF Lives, LookupInv, Alive, ServerTypeOK
  <2>4. VisitInv'
    <3>1. id \notin visited
      BY <2>1 DEF Lives, VisitInv, Alive, ServerTypeOK
    <3> QED BY <2>1, <3>1 DEF Lives, VisitInv, Alive, ServerTypeOK
  <2>5. LeakInv' /\ MisuseAcrossThreads'
    BY <1>a, <2>1 DEF Lives, LeakInv, MisuseAcrossThreads, ServerTypeOK
  <2> QED BY <2>2, <2>3, <2>4, <2>5 DEF Lives
<1>7. CASE CommandFind
  BY <1>5, <1>7 DEF CommandFind, ServerTypeOK
<1> QED BY <1>1, <1>2, <1>3, <1>4, <1>5, <1>6, <1>7 DEF LoopTurn, LoopGoesOn

(* stop() meets what the loop has deleted, and passes each entry once.        *)
LEMMA OwnerLives ==
  ASSUME ServerTypeOK, Lives, OwnerStep
  PROVE  ServerTypeOK' /\ Lives'
<1>0. TypeOK'
  BY OwnerIsMailbox, TypeStep DEF ServerTypeOK
<1>a. loop' = loop
  BY DEF OwnerStep, OwnerGoesOn, Stop, Destroy, StopMailbox, StopScanned, StopTables, PoolJoined, StopDelete,
         StopRunning, StopClear, StopWake, vars
<1> USE IdsAssumption
<1>1. CASE StopMailbox
  <2>1. dest' = dest /\ pushed' = pushed /\ UNCHANGED <<lifeVars, held, loopVars, ownerVars>>
    BY <1>1 DEF StopMailbox, StopClear, StopWake
  <2> QED BY <1>0, <1>a, <2>1, QuietStep DEF ServerTypeOK
<1>2. CASE Stop \/ Destroy \/ StopScanned \/ PoolJoined
  <2>1. /\ UNCHANGED <<table, heap, misused, held, grip, erasing, visited, dest, pushed>>
        /\ \/ owner = "serving" /\ owner' = "stopping"
           \/ owner \in {"serving", "stopped"} /\ owner' = "destroying" /\ loop = "exited"
           \/ owner = "stopping" /\ owner' = "clearing" /\ table \subseteq visited
           \/ owner = "destroying" /\ owner' = "last_clearing" /\ table \subseteq visited
           \/ owner = "gone" /\ owner' = "destroyed"
    BY <1>2 DEF Stop, Destroy, StopScanned, PoolJoined, InStop, StopRunning, lifeVars, loopVars, vars
  <2>2. ServerTypeOK'
    BY <1>0, <2>1 DEF ServerTypeOK
  <2>3. LookupInv' /\ VisitInv' /\ LeakInv' /\ MisuseAcrossThreads'
    BY <1>a, <2>1 DEF Lives, LookupInv, VisitInv, LeakInv, MisuseAcrossThreads, Alive, ServerTypeOK
  <2> QED BY <2>2, <2>3 DEF Lives
<1>3. ASSUME NEW id \in Ids, StopDelete(id)
      PROVE  ServerTypeOK' /\ Lives'
  <2>1. /\ UNCHANGED <<table, held, grip, erasing, owner, dest, pushed>> /\ owner # "serving"
        /\ id \in table /\ id \notin visited /\ visited' = visited \cup {id} /\ Deletes("stop", id)
        /\ heap[id] \in {"live", "late", "loop"}
    BY <1>3 DEF StopDelete, InStop, loopVars, vars, ServerTypeOK, Lives, LookupInv, VisitInv
  <2>2. misused' = misused \/ misused' = misused \cup {<<"stop", "loop">>}
    BY <2>1 DEF Deletes, Uses, Alive
  <2>3. /\ \A i \in Ids \ {id} : heap'[i] = heap[i]
        /\ heap'[id] = IF heap[id] = "loop" THEN "loop" ELSE "stop"
        /\ heap' \in [Ids -> {"unborn", "live", "late", "loop", "stop"}]
    BY <2>1 DEF Deletes, Alive, ServerTypeOK
  <2>4. ServerTypeOK'
    BY <1>0, <2>1, <2>2, <2>3 DEF ServerTypeOK
  <2>5. LookupInv'
    BY <1>a, <2>1, <2>3 DEF Lives, LookupInv, Alive, ServerTypeOK
  <2>6. VisitInv'
    BY <2>1, <2>3 DEF Lives, VisitInv, Alive, ServerTypeOK
  <2>7. LeakInv' /\ MisuseAcrossThreads'
    BY <1>a, <2>1, <2>2, <2>3 DEF Lives, LeakInv, MisuseAcrossThreads, ServerTypeOK
  <2> QED BY <2>4, <2>5, <2>6, <2>7 DEF Lives
<1>4. CASE StopTables
  <2>1. /\ UNCHANGED <<heap, misused, held, grip, erasing, dest, pushed>> /\ table' = {} /\ visited' = {}
        /\ \/ owner = "clearing" /\ owner' = "stopped"
           \/ owner = "last_clearing" /\ owner' = "gone"
    BY <1>4 DEF StopTables, loopVars, vars
  <2>2. ServerTypeOK'
    BY <1>0, <2>1 DEF ServerTypeOK
  <2>3. LookupInv' /\ VisitInv' /\ LeakInv' /\ MisuseAcrossThreads'
    BY <1>a, <2>1 DEF Lives, LookupInv, VisitInv, LeakInv, MisuseAcrossThreads, Alive, ServerTypeOK
  <2> QED BY <2>2, <2>3 DEF Lives
<1> QED BY <1>1, <1>2, <1>3, <1>4 DEF OwnerStep, OwnerGoesOn

LEMMA ServerInduction ==
  /\ ServerInit => ServerTypeOK /\ Lives
  /\ ServerTypeOK /\ Lives /\ [ServerNext]_serverVars => (ServerTypeOK /\ Lives)'
<1>1. ServerInit => Lives
  BY DEF ServerInit, Init, Lives, LookupInv, VisitInv, LeakInv, MisuseAcrossThreads
<1>2. ASSUME ServerTypeOK, Lives, UNCHANGED serverVars
      PROVE  (ServerTypeOK /\ Lives)'
  <2>1. TypeOK' /\ dest' = dest /\ pushed' = pushed /\ UNCHANGED <<lifeVars, held, loopVars, ownerVars>>
    BY <1>2, TypeStep DEF serverVars, vars, ServerTypeOK
  <2>2. loop' = loop
    BY <1>2 DEF serverVars, vars
  <2> QED BY <1>2, <2>1, <2>2, QuietStep DEF ServerTypeOK
<1> QED BY <1>1, <1>2, ServerTypeInit, WorkerLives, LoopLives, OwnerLives DEF ServerNext

(* The types hold in every reachable state.                                   *)
THEOREM ServerTypes == ServerSpec => []ServerTypeOK
BY ServerInduction, PTL DEF ServerSpec

(* Neither the loop nor stop() meets a connection it deleted itself, and      *)
(* before stop() only a worker between lookup and use meets a deleted one.    *)
THEOREM MisuseOnlyAcrossThreads == ServerSpec => []MisuseAcrossThreads
<1>1. Lives => MisuseAcrossThreads
  BY DEF Lives
<1> QED BY <1>1, ServerInduction, PTL DEF ServerSpec

(* A destroyed server has closed every connection that was not accepted       *)
(* between the end of stop()'s iteration and its clear().                     *)
THEOREM NothingIsLeaked == ServerSpec => []NothingLeaked
<1>1. Lives => NothingLeaked
  BY DEF Lives, LeakInv, NothingLeaked
<1> QED BY <1>1, ServerInduction, PTL DEF ServerSpec
------------------------------------------------------------------------------
(* What ends the loop                                                         *)

\* before stop() nobody but the loop deletes, and what a command is for has been
\* accepted
EndInv ==
  /\ owner # "serving" => ~running
  /\ owner = "serving" => \A id \in Ids : heap[id] \notin {"late", "stop"}
  /\ \A i \in DOMAIN dest : dest[i] \in Ids /\ heap[dest[i]] # "unborn"
  /\ loop = "exited" /\ running => current \in DOMAIN dest
  /\ LoopEndsForCause

(* A worker pushes for a connection that has been accepted.                   *)
LEMMA WorkerEnds ==
  ASSUME ServerTypeOK, Lives, EndInv, NEW w \in Producers, WorkerStep(w)
  PROVE  EndInv'
<1>1. UNCHANGED <<heap, owner, running, loop, current>>
  BY DEF WorkerStep, WorkerGoesOn, WorkerSend, WorkerWake, WorkerLate, WorkerFind, WorkerClose, Push, Wake,
         vars, lifeVars, ownerVars
<1>2. ASSUME NEW id \in Ids, heap[id] # "unborn", dest' = Append(dest, id)
      PROVE  EndInv'
  <2>1. dest \in Seq(Ids)
    BY DEF ServerTypeOK
  <2>2. /\ \A i \in DOMAIN dest' : dest'[i] = id \/ (i \in DOMAIN dest /\ dest'[i] = dest[i])
        /\ \A i \in DOMAIN dest : i \in DOMAIN dest' /\ dest'[i] = dest[i]
    BY <1>2, <2>1, AppendProperties, LenProperties
  <2> QED BY <1>1, <1>2, <2>2 DEF EndInv, LoopEndsForCause
<1>3. CASE dest' = dest
  BY <1>1, <1>3 DEF EndInv, LoopEndsForCause
<1>4. CASE WorkerSend(w)
  BY <1>2, <1>4 DEF WorkerSend, ServerTypeOK, Lives, LookupInv
<1>5. ASSUME NEW id \in Ids, WorkerClose(w, id)
      PROVE  EndInv'
  BY <1>2, <1>5 DEF WorkerClose
<1>6. CASE WorkerWake(w) \/ WorkerLate(w) \/ \E id \in Ids : WorkerFind(w, id)
  BY <1>3, <1>6 DEF WorkerWake, WorkerLate, WorkerFind
<1> QED BY <1>4, <1>5, <1>6 DEF WorkerStep, WorkerGoesOn

(* The loop throws only for a connection that it has deleted.                 *)
LEMMA LoopEnds ==
  ASSUME ServerTypeOK, QueueInv, Lives, EndInv, LoopTurn
  PROVE  EndInv'
<1>1. loop # "exited" /\ UNCHANGED <<owner, running, dest>>
  BY DEF LoopTurn, LoopGoesOn, MailboxLoop, LoopAwake, LoopTurns, ReadFd, EventDelete, EventGone, EventErase,
         CommandFind, CommandUse, CommandUnknown, Accept, EventFor, InEvents, Check, Read, TryPop, Awake,
         AwakeElsewhere, Handle, HandleThrows, ServerTypeOK, Lives, LookupInv, vars, ownerVars
<1>2. ASSUME heap' \in [Ids -> {"unborn", "live", "late", "loop", "stop"}],
             \A id \in Ids : heap'[id] = "unborn" => heap[id] = "unborn",
             owner = "serving" => \A id \in Ids : heap'[id] \in {"late", "stop"} => heap'[id] = heap[id],
             loop' # "exited" \/ ~running
      PROVE  EndInv'
  BY <1>1, <1>2 DEF EndInv, LoopEndsForCause
<1>3. CASE UNCHANGED heap /\ (loop' # "exited" \/ ~running)
  BY <1>2, <1>3 DEF ServerTypeOK
<1>4. CASE MailboxLoop \/ LoopAwake \/ LoopTurns \/ CommandUse
  BY <1>3, <1>4 DEF MailboxLoop, LoopAwake, LoopTurns, CommandUse, Check, Read, TryPop, Awake,
     AwakeElsewhere, Handle, lifeVars
<1>5. CASE ReadFd \/ EventGone \/ EventErase \/ CommandFind \/ \E id \in Ids : EventFor(id)
  BY <1>1, <1>3, <1>5 DEF ReadFd, EventGone, EventErase, CommandFind, EventFor, lifeVars, vars
<1>6. CASE EventDelete
  <2>1. Deletes("loop", grip) /\ grip \in Ids /\ loop' = loop
    BY <1>6 DEF EventDelete, ServerTypeOK, vars
  <2> QED BY <1>1, <1>2, <2>1 DEF Deletes, ServerTypeOK, Alive
<1>7. ASSUME NEW id \in Ids, Accept(id)
      PROVE  EndInv'
  <2>1. /\ heap' = [heap EXCEPT ![id] = IF owner = "clearing" THEN "late" ELSE "live"] /\ loop' = loop
        /\ heap[id] = "unborn"
    BY <1>7 DEF Accept, vars
  <2> QED BY <1>1, <1>2, <2>1 DEF ServerTypeOK
<1>8. CASE CommandUnknown
  <2>1. CASE Handle
    BY <1>3, <1>8, <2>1 DEF CommandUnknown, Handle, lifeVars
  <2>2. CASE HandleThrows
    <3>1. current \in Nat /\ current # 0 /\ current <= pushed /\ current' = current /\ dest[current] \notin table
      BY <1>8, <2>2 DEF CommandUnknown, HandleThrows, QueueInv, ServerTypeOK, TypeOK
    <3>2. current \in DOMAIN dest
      BY <3>1, LenProperties DEF ServerTypeOK, TypeOK
    <3>3. running => heap[dest[current]] = "loop"
      BY <3>1, <3>2 DEF EndInv, ServerTypeOK, Lives, LeakInv
    <3> QED BY <1>1, <1>8, <3>1, <3>2, <3>3 DEF CommandUnknown, EndInv, LoopEndsForCause, lifeVars
  <2> QED BY <1>8, <2>1, <2>2 DEF CommandUnknown
<1> QED BY <1>4, <1>5, <1>6, <1>7, <1>8 DEF LoopTurn, LoopGoesOn

(* stop() and the destructor clear _running before they do anything else.     *)
LEMMA OwnerEnds ==
  ASSUME ServerTypeOK, EndInv, OwnerStep
  PROVE  EndInv'
<1>1. UNCHANGED <<loop, current, dest>>
  BY DEF OwnerStep, OwnerGoesOn, Stop, Destroy, StopMailbox, StopScanned, StopTables, PoolJoined, StopDelete,
         StopRunning, StopClear, StopWake, vars
<1>2. CASE Stop \/ Destroy
  BY <1>1, <1>2 DEF Stop, Destroy, StopRunning, lifeVars, EndInv, LoopEndsForCause
<1>3. CASE StopMailbox
  BY <1>1, <1>3 DEF StopMailbox, StopClear, StopWake, lifeVars, ownerVars, EndInv, LoopEndsForCause
<1>4. CASE StopScanned \/ StopTables \/ PoolJoined
  BY <1>1, <1>4 DEF StopScanned, StopTables, PoolJoined, InStop, lifeVars, vars, EndInv, LoopEndsForCause
<1>5. ASSUME NEW id \in Ids, StopDelete(id)
      PROVE  EndInv'
  <2>1. owner # "serving" /\ UNCHANGED <<owner, running>> /\ Deletes("stop", id)
    BY <1>5 DEF StopDelete, InStop, vars
  <2>2. \A i \in Ids : heap'[i] = "unborn" => heap[i] = "unborn"
    BY <2>1 DEF Deletes, Alive, ServerTypeOK
  <2> QED BY <1>1, <2>1, <2>2 DEF EndInv, LoopEndsForCause
<1> QED BY <1>2, <1>3, <1>4, <1>5 DEF OwnerStep, OwnerGoesOn

(* Without stop() the loop goes on until a command comes for a connection     *)
(* that it has deleted.                                                       *)
THEOREM LoopEndHasCause == ServerSpec => []LoopEndsForCause
<1>1. ServerInit => EndInv
  BY DEF ServerInit, Init, EndInv, LoopEndsForCause
<1>2. ServerTypeOK /\ QueueInv /\ Lives /\ EndInv /\ [ServerNext]_serverVars => EndInv'
  <2>1. ASSUME EndInv, UNCHANGED serverVars PROVE EndInv'
    BY <2>1 DEF serverVars, vars, lifeVars, ownerVars, EndInv, LoopEndsForCause
  <2> QED BY <2>1, WorkerEnds, LoopEnds, OwnerEnds DEF ServerNext
<1>3. EndInv => LoopEndsForCause
  BY DEF EndInv
<1> QED BY <1>1, <1>2, <1>3, ServerInduction, ServerIsMailbox, QueueOrdered, PTL DEF ServerSpec
==============================================================================
