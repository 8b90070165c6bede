-------------------------- MODULE NotifyHubProofs --------------------------
(***************************************************************************)
(* What the WebSocket hub keeps, proved for any number of senders, ids,    *)
(* connections and messages and any size of the channel.                   *)
(***************************************************************************)
EXTENDS NotifyHub, FiniteSetTheorems, TLAPS

------------------------------------------------------------------------------
(* The invariant *)

\* The senders that wait are counted against the bound before they enter.
WithinBound == sent + Cardinality(sending) <= MaxMessages

\* A connection that is in the map is there under its own id.
UnderOwnId == \A i \in Id : clients[i] # NoConn => owner[clients[i]] = i

\* A connection that has yet to be added was never written to, and the one that is
\* being written to does not come up again in the same round.
Rounds ==
  /\ \A c \in Conn : stage[c] = "new" => last[c] = 0 /\ ~Open(c)
  /\ run.step = "write" => run.to \in Conn /\ run.to \notin run.rest

\* The round has yet to come to the connection.
Due(c) == run.step = "write" /\ c \in {run.to} \cup run.rest

\* An open connection that was ever written to got the message before the one of
\* this round if the round has yet to come to it, and the one of this round if it
\* has passed.  One that was replaced may still be due, and falls behind then.
InStep ==
  \A c \in Conn : last[c] # 0 /\ Open(c) =>
    /\ Due(c) => taken = last[c] + 1
    /\ InMap(c) /\ run.step = "snapshot" => taken = last[c] + 1
    /\ InMap(c) /\ run.step # "snapshot" /\ ~Due(c) => taken = last[c]

Inductive == TypeOK /\ WithinBound /\ UnderOwnId /\ Rounds /\ InStep

\* In the beginning nobody waits and no connection is known.
LEMMA InitInductive == Init => Inductive
<1> SUFFICES ASSUME Init PROVE Inductive
  OBVIOUS
<1>1. Receiving \in Run /\ Receiving.step = "receive"
  BY DEF Receiving, Run
<1>2. TypeOK
  BY <1>1, ConstantsAssumption DEF Init, TypeOK, Stages, Lines
<1>3. WithinBound
  BY ConstantsAssumption, FS_EmptySet DEF Init, WithinBound
<1>4. UnderOwnId /\ Rounds /\ InStep
  BY <1>1 DEF Init, UnderOwnId, Rounds, InStep, Open
<1>. QED BY <1>2, <1>3, <1>4 DEF Inductive

------------------------------------------------------------------------------
(* The channel *)

\* A sender waits, or its message enters the channel.
LEMMA SenderSteps ==
  ASSUME Inductive, NEW s \in Sender, Announce(s) \/ Enqueue(s)
  PROVE  Inductive'
<1> USE DEF Inductive
<1>1. IsFiniteSet(sending) /\ Cardinality(sending) \in Nat
  BY ConstantsAssumption, FS_Subset, FS_CardinalityType DEF TypeOK
<1>2. sent \in Nat /\ taken \in Nat /\ taken <= sent /\ MaxMessages \in Nat /\ Capacity \in Nat
  BY ConstantsAssumption DEF TypeOK
<1>3. TypeOK' /\ WithinBound'
  <2>1. CASE Announce(s)
    <3>1. Cardinality(sending') = Cardinality(sending) + 1
      BY <1>1, <2>1, FS_AddElement DEF Announce
    <3>2. WithinBound'
      BY <1>1, <1>2, <2>1, <3>1 DEF Announce, WithinBound
    <3>3. TypeOK'
      BY <2>1 DEF Announce, TypeOK, conns
    <3>. QED BY <3>2, <3>3
  <2>2. CASE Enqueue(s)
    <3>1. Cardinality(sending') = Cardinality(sending) - 1
      BY <1>1, <2>2, FS_RemoveElement DEF Enqueue
    <3>2. Cardinality(sending') \in Nat
      BY <1>1, <2>2, FS_RemoveElement, FS_CardinalityType DEF Enqueue
    <3>3. WithinBound'
      BY <1>1, <1>2, <2>2, <3>1 DEF Enqueue, WithinBound
    <3>4. sent' \in 0..MaxMessages
      BY <1>1, <1>2, <2>2, <3>1, <3>2 DEF Enqueue, WithinBound
    <3>5. taken' \in 0..sent' /\ sent' - taken' <= Capacity
      BY <1>2, <2>2 DEF Enqueue
    <3>6. TypeOK'
      BY <2>2, <3>4, <3>5 DEF Enqueue, TypeOK, conns
    <3>. QED BY <3>3, <3>6
  <2>. QED BY <2>1, <2>2
<1>4. UnderOwnId' /\ Rounds' /\ InStep'
  BY DEF Announce, Enqueue, conns, UnderOwnId, Rounds, InStep, Due, InMap, Open
<1>. QED BY <1>3, <1>4

------------------------------------------------------------------------------
(* The goroutine of the hub *)

\* The loop comes to one of the connections left, and to it only once.
LEMMA ContinueEffect ==
  ASSUME NEW rest \in SUBSET Conn, Continue(rest)
  PROVE  /\ run' \in Run
         /\ run'.step = "write" => run'.to \in rest /\ run'.rest = rest \ {run'.to}
         /\ run'.step # "write" => run'.step = "receive" /\ rest = {}
         /\ run'.step # "snapshot"
<1>1. CASE rest = {}
  BY <1>1 DEF Continue, Receiving, Run
<1>2. CASE rest # {}
  <2>1. PICK c \in rest : run' = [step |-> "write", to |-> c, rest |-> rest \ {c}]
    BY <1>2 DEF Continue
  <2>. QED BY <2>1 DEF Run
<1>. QED BY <1>1, <1>2

\* run takes a message only when it has passed the one before to everybody.
LEMMA ReceiveSteps ==
  ASSUME Inductive, Receive
  PROVE  Inductive'
<1> USE DEF Inductive
<1>1. /\ run' \in Run /\ run'.step = "snapshot"
      /\ run.step = "receive"
  BY DEF Receive, Receiving, Run
<1>2. taken' = taken + 1 /\ taken \in Nat /\ sent \in Nat /\ taken < sent
  BY ConstantsAssumption DEF Receive, TypeOK
<1>3. TypeOK'
  <2>1. taken' \in 0..sent /\ sent - taken' <= Capacity
    BY <1>2, ConstantsAssumption DEF TypeOK
  <2>. QED BY <1>1, <2>1 DEF Receive, TypeOK, conns
<1>4. WithinBound' /\ UnderOwnId' /\ Rounds'
  BY <1>1 DEF Receive, conns, WithinBound, UnderOwnId, Rounds, Open
<1>5. InStep'
  BY <1>1, <1>2 DEF Receive, conns, InStep, Due, InMap, Open
<1>. QED BY <1>3, <1>4, <1>5

\* Every connection in the map is due when the round begins.
LEMMA SnapshotSteps ==
  ASSUME Inductive, Snapshot
  PROVE  Inductive'
<1> USE DEF Inductive
<1> DEFINE Known == {c \in Conn : InMap(c)}
<1>1. /\ run' \in Run
      /\ run'.step = "write" => run'.to \in Known /\ run'.rest = Known \ {run'.to}
      /\ run'.step # "write" => run'.step = "receive" /\ Known = {}
  BY ContinueEffect DEF Snapshot
<1>2. TypeOK' /\ WithinBound' /\ UnderOwnId'
  BY <1>1 DEF Snapshot, conns, TypeOK, WithinBound, UnderOwnId
<1>3. Rounds'
  BY <1>1 DEF Snapshot, conns, Rounds, Open
<1>4. InStep'
  <2> SUFFICES ASSUME NEW c \in Conn, last[c] # 0, Open(c)
               PROVE  /\ Due(c)' => taken = last[c] + 1
                      /\ InMap(c) /\ run'.step # "snapshot" /\ ~Due(c)' => taken = last[c]
                      /\ run'.step # "snapshot"
    BY DEF Snapshot, conns, InStep, InMap, Open
  <2>1. Due(c)' <=> InMap(c)
    BY <1>1 DEF Due
  <2>2. run.step = "snapshot"
    BY DEF Snapshot
  <2>. QED BY <1>1, <2>1, <2>2 DEF InStep
<1>. QED BY <1>2, <1>3, <1>4

\* The round passes a connection: it was written to, or it is gone.
LEMMA WriteSteps ==
  ASSUME Inductive, NEW c \in Conn, Write(c) \/ WriteFails(c)
  PROVE  Inductive'
<1> USE DEF Inductive
<1>1. run.step = "write" /\ run.to = c /\ c \notin run.rest /\ run.rest \in SUBSET Conn
  BY DEF Write, WriteFails, Rounds, TypeOK, Run
<1>2. /\ run' \in Run
      /\ run'.step = "write" => run'.to \in run.rest /\ run'.rest = run.rest \ {run'.to}
      /\ run'.step # "write" => run'.step = "receive" /\ run.rest = {}
      /\ run'.step # "snapshot"
  BY <1>1, ContinueEffect DEF Write, WriteFails
<1>3. \A d \in Conn : Due(d)' <=> Due(d) /\ d # c
  BY <1>1, <1>2 DEF Due
<1>4. /\ taken' = taken /\ clients' = clients /\ line' = line /\ stage' = stage
      /\ owner' = owner /\ sending' = sending /\ sent' = sent
  BY DEF Write, WriteFails, conns
<1>5. \A d \in Conn \ {c} : last'[d] = last[d]
  BY DEF Write, WriteFails, conns, TypeOK
<1>6. WithinBound' /\ UnderOwnId'
  BY <1>4 DEF WithinBound, UnderOwnId
<1>7. last' = last \/ (Open(c) /\ last' = [last EXCEPT ![c] = taken])
  BY DEF Write, WriteFails, conns, Open
<1>8. TypeOK'
  <2>1. taken \in 0..MaxMessages
    BY ConstantsAssumption DEF TypeOK
  <2>2. last' \in [Conn -> 0..MaxMessages]
    BY <1>7, <2>1 DEF TypeOK
  <2>. QED BY <1>2, <1>4, <2>2 DEF TypeOK
<1>9. Rounds'
  <2>1. \A d \in Conn : stage[d] = "new" => last'[d] = 0 /\ ~Open(d)
    BY <1>5, <1>7 DEF Rounds
  <2>2. run'.step = "write" => run'.to \in Conn /\ run'.to \notin run'.rest
    BY <1>1, <1>2
  <2>. QED BY <1>4, <2>1, <2>2 DEF Rounds, Open
<1>10. InStep'
  <2> SUFFICES ASSUME NEW d \in Conn, last'[d] # 0, Open(d)
               PROVE  /\ Due(d)' => taken = last'[d] + 1
                      /\ InMap(d) /\ ~Due(d)' => taken = last'[d]
    BY <1>2, <1>4 DEF InStep, InMap, Open
  <2>1. CASE d = c
    <3>1. last'[c] = taken
      BY <2>1 DEF Write, WriteFails, TypeOK
    <3>. QED BY <1>3, <2>1, <3>1
  <2>2. CASE d # c
    BY <1>1, <1>3, <1>5, <2>2 DEF InStep
  <2>. QED BY <2>1, <2>2
<1>. QED BY <1>6, <1>8, <1>9, <1>10

------------------------------------------------------------------------------
(* The connections *)

\* A step of a connection disturbs no round, if it brings no connection into the map
\* or up that was ever written to.
LEMMA ConnectionEffect ==
  ASSUME Inductive,
         UNCHANGED <<sending, sent, taken, run, owner, last>>,
         clients' \in [Id -> Conn \cup {NoConn}], UnderOwnId',
         stage' \in [Conn -> Stages], line' \in [Conn -> Lines],
         \A c \in Conn : stage'[c] = "new" => stage[c] = "new" /\ ~Open(c)',
         \A c \in Conn : last[c] # 0 => /\ Open(c)' => Open(c)
                                        /\ InMap(c)' => InMap(c)
  PROVE  Inductive'
<1> USE DEF Inductive
<1>1. TypeOK' /\ WithinBound'
  BY DEF TypeOK, WithinBound
<1>2. Rounds'
  BY DEF Rounds
<1>3. InStep'
  BY DEF InStep, Due
<1>. QED BY <1>1, <1>2, <1>3

\* A connection is added once, before anything is written to it.
LEMMA AddSteps ==
  ASSUME Inductive, NEW c \in Conn, AddClient(c)
  PROVE  Inductive'
<1> USE DEF Inductive
<1>1. stage[c] = "new" /\ last[c] = 0
  BY DEF AddClient, Rounds
<1>2. owner[c] \in Id
  BY DEF TypeOK
<1>3. clients' \in [Id -> Conn \cup {NoConn}]
  BY <1>2 DEF AddClient, TypeOK
<1>4. stage' \in [Conn -> Stages] /\ line' \in [Conn -> Lines]
  BY DEF AddClient, TypeOK, Stages, Lines
<1>5. UnderOwnId'
  BY <1>2 DEF AddClient, UnderOwnId, TypeOK
<1>6. \A d \in Conn : stage'[d] = "new" => stage[d] = "new" /\ ~Open(d)'
  BY DEF AddClient, TypeOK, Rounds, Open
<1>7. \A d \in Conn \ {c} : Open(d)' => Open(d)
  BY DEF AddClient, TypeOK, Open
<1>8. \A d \in Conn \ {c} : InMap(d)' => InMap(d)
  BY <1>2 DEF AddClient, TypeOK, InMap
<1>. QED BY <1>1, <1>3, <1>4, <1>5, <1>6, <1>7, <1>8, ConnectionEffect DEF AddClient

\* The greeting, and the other end, leave the map alone and bring nothing up.
LEMMA QuietSteps ==
  ASSUME Inductive, NEW c \in Conn,
         \/ LookUpSelf(c) \/ SendPeerList(c)
         \/ Stall(c) \/ Resume(c) \/ Fail(c) \/ Leave(c)
  PROVE  Inductive'
<1> USE DEF Inductive
<1>1. UNCHANGED <<sending, sent, taken, run, clients, owner, last>>
  BY DEF LookUpSelf, SendPeerList, Stall, Resume, Fail, Leave, Turn
<1>2. stage' \in [Conn -> Stages]
  BY DEF LookUpSelf, SendPeerList, Stall, Resume, Fail, Leave, Turn, TypeOK, Stages
<1>3. line' \in [Conn -> Lines]
  BY DEF LookUpSelf, SendPeerList, Stall, Resume, Fail, Leave, Turn, TypeOK, Lines
<1>4. \A d \in Conn : Open(d)' => Open(d)
  BY DEF LookUpSelf, SendPeerList, Stall, Resume, Fail, Leave, Turn, TypeOK, Open
<1>5. \A d \in Conn : stage'[d] = "new" => stage[d] = "new"
  BY DEF LookUpSelf, SendPeerList, Stall, Resume, Fail, Leave, Turn, TypeOK
<1>6. clients' \in [Id -> Conn \cup {NoConn}] /\ UnderOwnId'
  BY <1>1 DEF TypeOK, UnderOwnId
<1>7. \A d \in Conn : InMap(d)' => InMap(d)
  BY <1>1 DEF InMap
<1>8. \A d \in Conn : stage'[d] = "new" => stage[d] = "new" /\ ~Open(d)'
  BY <1>4, <1>5 DEF Rounds
<1>. QED BY <1>1, <1>2, <1>3, <1>4, <1>6, <1>7, <1>8, ConnectionEffect

\* The end of a connection takes a client out of the map or leaves it there.
LEMMA EndSteps ==
  ASSUME Inductive, NEW c \in Conn, ReadFails(c) \/ ReadEnds(c)
  PROVE  Inductive'
<1> USE DEF Inductive
<1>1. UNCHANGED <<sending, sent, taken, run, owner, last>>
  BY DEF ReadFails, ReadEnds
<1>2. clients' = clients \/ clients' = [clients EXCEPT ![owner[c]] = NoConn]
  BY DEF ReadFails, ReadEnds, RemoveClient
<1>3. clients' \in [Id -> Conn \cup {NoConn}]
  BY <1>2 DEF TypeOK
<1>4. \A i \in Id : clients'[i] \in {clients[i], NoConn}
  BY <1>2 DEF TypeOK
<1>5. UnderOwnId'
  BY <1>1, <1>4 DEF UnderOwnId
<1>6. \A d \in Conn : InMap(d)' => InMap(d)
  BY <1>4, ConstantsAssumption DEF InMap
<1>7. \A d \in Conn : line'[d] \in {line[d], "closed"}
  BY DEF ReadFails, ReadEnds, RemoveClient, TypeOK
<1>8. line' \in [Conn -> Lines]
  BY DEF ReadFails, ReadEnds, RemoveClient, TypeOK, Lines
<1>9. \A d \in Conn : Open(d)' => Open(d)
  BY <1>7 DEF Open
<1>10. stage' = [stage EXCEPT ![c] = "over"]
  BY DEF ReadFails, ReadEnds
<1>11. stage' \in [Conn -> Stages]
  BY <1>10 DEF TypeOK, Stages
<1>12. \A d \in Conn : stage'[d] = "new" => stage[d] = "new" /\ ~Open(d)'
  BY <1>9, <1>10 DEF TypeOK, Rounds
<1>. QED BY <1>1, <1>3, <1>5, <1>6, <1>8, <1>9, <1>11, <1>12, ConnectionEffect

------------------------------------------------------------------------------
(* The theorems *)

\* Every step of the hub, of its clients and of those who announce.
LEMMA NextInductive ==
  ASSUME Inductive, [Next]_vars
  PROVE  Inductive'
<1>1. CASE Next
  BY <1>1, SenderSteps, ReceiveSteps, SnapshotSteps, WriteSteps, AddSteps, QuietSteps,
     EndSteps
     DEF Next, Broadcast, Serve
<1>2. CASE UNCHANGED vars
  BY <1>2 DEF vars, Inductive, TypeOK, WithinBound, UnderOwnId, Rounds, InStep, Due,
              InMap, Open
<1>. QED BY <1>1, <1>2

\* The strengthening is an invariant of the hub.
THEOREM InductiveAlways == Spec => []Inductive
<1>1. Init => Inductive
  BY InitInductive
<1>2. Inductive /\ [Next]_vars => Inductive'
  BY NextInductive
<1>. QED BY <1>1, <1>2, PTL DEF Spec

\* Every variable holds a value of its kind and the channel never holds more than fits.
THEOREM TypeCorrect == Spec => []TypeOK
<1>1. Inductive => TypeOK
  BY DEF Inductive
<1>. QED BY <1>1, InductiveAlways, PTL

\* Whatever fails or stalls, a connection gets the messages of the channel one after
\* the other from the first one it gets (run, broadcastMessage).
THEOREM InOrder == Spec => NothingSkipped
<1>1. ASSUME Inductive, [Next]_vars, NEW c \in Conn, last[c] # 0, last'[c] # last[c]
      PROVE  last'[c] = last[c] + 1
  <2>1. Write(c)
    BY <1>1 DEF Next, vars, conns, Announce, Enqueue, Broadcast, Receive, Snapshot, Write,
       WriteFails, AddClient, Serve, LookUpSelf, SendPeerList, ReadFails, ReadEnds,
       Stall, Resume, Fail, Leave, Turn, Inductive, TypeOK
  <2>2. Due(c) /\ Open(c) /\ last'[c] = taken
    BY <2>1, <1>1 DEF Write, Due, Open, Inductive, TypeOK
  <2>. QED BY <1>1, <2>2 DEF Inductive, InStep
<1>2. Inductive /\ [Next]_vars =>
        [\A c \in Conn : last[c] # 0 /\ last'[c] # last[c] => last'[c] = last[c] + 1]_vars
  BY <1>1
<1>. QED BY <1>2, InductiveAlways, PTL DEF Spec, NothingSkipped

\* A connection leaves the map closed, or to another one of its id (AddClient,
\* RemoveClient).
THEOREM NobodyForgotten == Spec => ForgottenIsClosed
<1>1. ASSUME Inductive, [Next]_vars, NEW c \in Conn, InMap(c), ~InMap(c)'
      PROVE  ~Open(c)' \/ clients'[owner[c]] # NoConn
  <2>1. PICK i \in Id : clients[i] = c
    BY <1>1 DEF InMap
  <2>2. owner[c] = i /\ clients'[i] # clients[i]
    BY <1>1, <2>1, ConstantsAssumption DEF InMap, Inductive, UnderOwnId
  <2>3. PICK d \in Conn : AddClient(d) \/ (ReadFails(d) /\ RemoveClient(d))
    BY <1>1, <2>2 DEF Next, vars, conns, Announce, Enqueue, Broadcast, Receive, Snapshot,
       Write, WriteFails, Serve, LookUpSelf, SendPeerList, ReadFails, ReadEnds,
       Stall, Resume, Fail, Leave, Turn
  <2>4. CASE AddClient(d)
    BY <1>1, <2>1, <2>2, <2>4, ConstantsAssumption DEF AddClient, Inductive, TypeOK
  <2>5. CASE RemoveClient(d)
    <3>1. owner[d] = i
      BY <1>1, <2>2, <2>5 DEF RemoveClient, Inductive, TypeOK
    <3>2. line'[c] = "closed"
      BY <2>1, <2>5, <3>1 DEF RemoveClient
    <3>. QED BY <3>2 DEF Open
  <2>. QED BY <2>3, <2>4, <2>5
<1>2. Inductive /\ [Next]_vars =>
        [\A c \in Conn : InMap(c) /\ ~InMap(c)' => ~Open(c)' \/ clients'[owner[c]] # NoConn]_vars
  BY <1>1
<1>. QED BY <1>2, InductiveAlways, PTL DEF Spec, ForgottenIsClosed
==============================================================================
