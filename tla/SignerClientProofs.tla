------------------------- MODULE SignerClientProofs -------------------------
(* Safety of the signing client, for any number of blocks. *)
EXTENDS SignerClient, TLAPS

------------------------------------------------------------------------------
(* The invariant *)

\* The ticker has nothing under way while a connection is used, since a client that
\* is down has nothing at all, and only its start opens a connection.
PollsWithoutConnection ==
  /\ ~up => /\ sending = {} /\ ~useWebSocket /\ ~checking
            /\ conn = "none" /\ pipe = {}
  /\ useWebSocket => \A task \in sending : task.by # "poll"

Inductive == TypeOK /\ PollsWithoutConnection /\ NothingForgotten

\* At the start no block is made and the client is down.
LEMMA InitInductive == Init => Inductive
<1> SUFFICES ASSUME Init PROVE Inductive
  OBVIOUS
<1>0. 0 \in Block
  BY ConstantsAssumption DEF Block
<1>1. TypeOK
  BY <1>0 DEF Init, TypeOK
<1>2. PollsWithoutConnection
  BY DEF Init, PollsWithoutConnection
<1>3. NothingForgotten
  BY DEF Init, NothingForgotten
<1>. QED BY <1>1, <1>2, <1>3 DEF Inductive

------------------------------------------------------------------------------
(* One lemma per part of the system *)

\* The server makes a block, which is announced or not, and a broadcast leaves
\* what is announced in the connection, if the hub has one.
LEMMA ServerSteps ==
  ASSUME Inductive,
         \/ Upload \/ CreateBlock \/ KeyChanges
         \/ AddClient \/ ServerCrash \/ ServerStart \/ Disconnect
         \/ \E b \in Block : BroadcastBlock(b) \/ OthersSign(b)
  PROVE  Inductive'
<1> USE ConstantsAssumption
      DEF Inductive, TypeOK, PollsWithoutConnection, NothingForgotten, Connected, Block,
          server, wire, client
<1>1. CASE Upload
  BY <1>1 DEF Upload
<1>2. CASE CreateBlock
  <2>1. /\ height' = height + 1 /\ height' \in Block
        /\ quiet' = quiet \cup {height'}
        /\ mine' \subseteq mine \cup {height'}
        /\ UNCHANGED <<serverUp, unheard, signed, agreed, known, wire, client>>
    BY <1>2 DEF CreateBlock
  <2>2. TypeOK'
    BY <2>1
  <2>3. PollsWithoutConnection' /\ NothingForgotten'
    BY <2>1
  <2>. QED BY <2>2, <2>3
<1>3. CASE ServerCrash
  BY <1>3 DEF ServerCrash, Broken
<1>4. CASE ServerStart
  BY <1>4 DEF ServerStart
<1>5. CASE Disconnect
  BY <1>5 DEF Disconnect, Connected
<1>6. ASSUME NEW b \in Block, BroadcastBlock(b)
      PROVE  Inductive'
  BY <1>6 DEF BroadcastBlock
<1>7. ASSUME NEW b \in Block, OthersSign(b)
      PROVE  Inductive'
  BY <1>7 DEF OthersSign
<1>8. CASE KeyChanges
  BY <1>8 DEF KeyChanges
<1>9. CASE AddClient
  BY <1>9 DEF AddClient
<1>. QED BY <1>1, <1>2, <1>3, <1>4, <1>5, <1>6, <1>7, <1>8, <1>9

\* The client connects before it looks, and nothing is under way when it starts.
LEMMA ProcessSteps ==
  ASSUME Inductive, Start \/ Stop \/ ReadError
  PROVE  Inductive'
<1> USE DEF Inductive, TypeOK, PollsWithoutConnection, NothingForgotten, Connected, Block,
            server, wire, client
<1>1. CASE Start
  BY <1>1 DEF Start
<1>2. CASE Stop
  BY <1>2 DEF Stop
<1>3. CASE ReadError
  BY <1>3 DEF ReadError
<1>. QED BY <1>1, <1>2, <1>3

\* What the client takes up it sends, and what it fails to send over the
\* connection is remembered as dropped.
LEMMA SigningSteps ==
  ASSUME Inductive,
         \/ CheckPendingBlocks \/ CheckFails \/ ProcessOnce \/ ProcessOnceUnsure
         \/ \E b \in Block : Receive(b)
         \/ \E task \in Task : Sent(task) \/ SendFails(task)
  PROVE  Inductive'
<1> USE DEF Inductive, Connected, server, wire, client
<1>0. height \in 0..height
  BY ConstantsAssumption DEF TypeOK, Block
<1>1. CASE CheckPendingBlocks
  <2>0. [by |-> "check", block |-> height] \in [by : {"notice", "check", "poll"},
                                               block : 0..height]
    BY <1>0
  <2>1. TypeOK'
    BY <1>1, <2>0 DEF CheckPendingBlocks, TypeOK
  <2>2. PollsWithoutConnection'
    BY <1>1 DEF CheckPendingBlocks, PollsWithoutConnection
  <2>3. [by |-> "check", block |-> height].block = height
    OBVIOUS
  <2>4. height > 0 /\ height \notin signed => \E task \in sending' : task.block = height
    BY <1>1, <2>3 DEF CheckPendingBlocks
  <2>5. NothingForgotten'
    BY <1>1, <2>4 DEF CheckPendingBlocks, NothingForgotten
  <2>. QED BY <2>1, <2>2, <2>5
<1>2. CASE CheckFails
  <2>1. TypeOK'
    BY <1>0, <1>2 DEF CheckFails, TypeOK
  <2>2. PollsWithoutConnection'
    BY <1>2 DEF CheckFails, PollsWithoutConnection
  <2>3. NothingForgotten'
    BY <1>2 DEF CheckFails, TypeOK, PollsWithoutConnection, NothingForgotten
  <2>. QED BY <2>1, <2>2, <2>3
<1>3. CASE ProcessOnce \/ ProcessOnceUnsure
  <2>0. [by |-> "poll", block |-> height] \in [by : {"notice", "check", "poll"},
                                              block : 0..height]
    BY <1>0
  <2>1. TypeOK'
    BY <1>3, <2>0 DEF ProcessOnce, ProcessOnceUnsure, Poll, TypeOK
  <2>2. PollsWithoutConnection'
    BY <1>3 DEF ProcessOnce, ProcessOnceUnsure, Poll, PollsWithoutConnection
  <2>3. NothingForgotten'
    BY <1>3 DEF ProcessOnce, ProcessOnceUnsure, Poll, TypeOK, PollsWithoutConnection, NothingForgotten
  <2>. QED BY <2>1, <2>2, <2>3
<1>4. ASSUME NEW b \in Block, Receive(b)
      PROVE  Inductive'
  <2>1. TypeOK'
    BY <1>4, ConstantsAssumption DEF Receive, TypeOK, Block
  <2>2. PollsWithoutConnection'
    BY <1>4 DEF Receive, PollsWithoutConnection
  <2>3. [by |-> "notice", block |-> b].block = b
    OBVIOUS
  <2>4. \E task \in sending' : task.block = b
    BY <1>4, <2>3 DEF Receive
  <2>5. NothingForgotten'
    BY <1>4, <2>4 DEF Receive, NothingForgotten
  <2>. QED BY <2>1, <2>2, <2>5
<1>5. ASSUME NEW task \in Task, Sent(task)
      PROVE  Inductive'
  <2>1. TypeOK'
    BY <1>5, ConstantsAssumption DEF Sent, TypeOK, Block
  <2>2. PollsWithoutConnection'
    BY <1>5 DEF Sent, PollsWithoutConnection
  <2>3. NothingForgotten'
    BY <1>5 DEF Sent, TypeOK, PollsWithoutConnection, NothingForgotten
  <2>. QED BY <2>1, <2>2, <2>3
<1>6. ASSUME NEW task \in Task, SendFails(task)
      PROVE  Inductive'
  <2>1. TypeOK'
    BY <1>6, ConstantsAssumption DEF SendFails, TypeOK, Block
  <2>2. PollsWithoutConnection'
    BY <1>6 DEF SendFails, PollsWithoutConnection
  <2>3. NothingForgotten'
    BY <1>6 DEF SendFails, TypeOK, PollsWithoutConnection, NothingForgotten
  <2>. QED BY <2>1, <2>2, <2>3
<1>. QED BY <1>1, <1>2, <1>3, <1>4, <1>5, <1>6

\* Every step of the system keeps the invariant.
LEMMA NextInductive ==
  ASSUME Inductive, [Next]_vars
  PROVE  Inductive'
<1>1. CASE Next
  BY <1>1, ServerSteps, ProcessSteps, SigningSteps DEF Next
<1>2. CASE UNCHANGED vars
  BY <1>2 DEF vars, server, wire, client, Inductive, TypeOK, PollsWithoutConnection,
              NothingForgotten, Connected
<1>. QED BY <1>1, <1>2

\* The strengthening is an invariant of the client and its server.
THEOREM InductiveAlways == Spec => []Inductive
<1>1. Init => Inductive
  BY InitInductive
<1>2. Inductive /\ [Next]_vars => Inductive'
  BY NextInductive
<1>. QED BY <1>1, <1>2, PTL DEF Spec

\* Every variable holds a value of its kind, and no block is known anywhere before
\* it is on the chain, for any number of blocks.
THEOREM TypeCorrect == Spec => []TypeOK
<1>1. Inductive => TypeOK
  BY DEF Inductive
<1>. QED BY <1>1, InductiveAlways, PTL

\* While the connection holds, the last block is signed, on its way to be signed,
\* or one of the exceptions, however the start of the client and the making of the
\* block interleave (connectWebSocket, checkPendingBlocks, handleWebSocketMessages).
THEOREM NoGap == Spec => []NothingForgotten
<1>1. Inductive => NothingForgotten
  BY DEF Inductive
<1>. QED BY <1>1, InductiveAlways, PTL
==============================================================================
