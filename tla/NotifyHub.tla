------------------------------ MODULE NotifyHub ------------------------------
(***************************************************************************)
(* The WebSocket hub of the ChainDocs server, internal/websocket/hub.go:   *)
(* the channel that handlers announce blocks and counts on, the one        *)
(* goroutine that passes them on to the clients, and the connections,      *)
(* which come, stall, fail and leave.                                      *)
(*                                                                         *)
(* Messages are numbered as they enter the channel.  hub.mu is held across *)
(* a step only by sendPeerList, which writes to the network under the read *)
(* lock.  The library writes to one connection in order, fails a write to  *)
(* a connection that is gone, and waits, without a time-out, on one whose  *)
(* other end does not read; that closing a connection ends is external     *)
(* too, and one step here.                                                 *)
(***************************************************************************)
EXTENDS Naturals, FiniteSets

CONSTANTS
  Sender,       \* the requests that announce at once
  Id,           \* client ids: the public key in the query of the connection
  Conn,         \* connections, each opened once
  NoConn,       \* not a connection
  Capacity,     \* messages that fit into the channel, 256 in the code
  MaxMessages   \* bound: how many messages are ever announced

ASSUME ConstantsAssumption ==
  /\ NoConn \notin Conn
  /\ IsFiniteSet(Sender)
  /\ Capacity \in Nat \ {0}
  /\ MaxMessages \in Nat

VARIABLES
  sending,  \* the requests that wait to enter the channel
  sent,     \* the last message that entered it
  taken,    \* the last message that run received from it
  run,      \* what run does with that message
  clients,  \* Hub.clients: id -> connection, NoConn when absent
  owner,    \* the id that a connection comes with
  stage,    \* how far the goroutine of a connection is
  line,     \* the state of a connection
  last      \* the last message written to a connection, 0 when none was

vars == <<sending, sent, taken, run, clients, owner, stage, line, last>>
conns == <<clients, owner, stage, line, last>>

Message == 1..MaxMessages
Stages  == {"new", "added", "greeting", "reading", "over"}
Lines   == {"none", "up", "stalled", "failed", "left", "closed"}
Run     == [step : {"receive", "snapshot", "write"},
            to : Conn \cup {NoConn}, rest : SUBSET Conn]

Receiving == [step |-> "receive", to |-> NoConn, rest |-> {}]

\* The loop of broadcastMessage goes on with one of the connections that are
\* left, in the order of the map, which is any.
Continue(rest) ==
  IF rest = {}
    THEN run' = Receiving
    ELSE \E c \in rest : run' = [step |-> "write", to |-> c, rest |-> rest \ {c}]

InMap(c) == \E i \in Id : clients[i] = c
Open(c)  == line[c] \in {"up", "stalled"}

\* hub.mu can be taken for writing: no sendPeerList holds it for reading.
MuFree == \A c \in Conn : stage[c] # "greeting"

------------------------------------------------------------------------------
(* BroadcastBlock and BroadcastConsensus *)

Announce(s) ==
  /\ s \notin sending
  /\ sent + Cardinality(sending) < MaxMessages
  /\ sending' = sending \cup {s}
  /\ UNCHANGED <<sent, taken, run, conns>>

Enqueue(s) ==
  /\ s \in sending
  /\ sent - taken < Capacity
  /\ sent' = sent + 1
  /\ sending' = sending \ {s}
  /\ UNCHANGED <<taken, run, conns>>

------------------------------------------------------------------------------
(* run and broadcastMessage *)

\* Faulty variants, which the mutant runs put in place of the definition that
\* follows them, here and below: run does not wait for the message before.
ReceiveEagerly ==
  /\ run.step \in {"receive", "write"}
  /\ taken < sent
  /\ taken' = taken + 1
  /\ run' = [Receiving EXCEPT !.step = "snapshot"]
  /\ UNCHANGED <<sending, sent, conns>>

\* Faulty: nor for a message.
ReceiveNothing ==
  /\ run.step = "receive"
  /\ taken' = taken + 1
  /\ run' = [Receiving EXCEPT !.step = "snapshot"]
  /\ UNCHANGED <<sending, sent, conns>>

Receive ==
  /\ run.step = "receive"
  /\ taken < sent
  /\ taken' = taken + 1
  /\ run' = [Receiving EXCEPT !.step = "snapshot"]
  /\ UNCHANGED <<sending, sent, conns>>

Snapshot ==
  /\ run.step = "snapshot"
  /\ MuFree
  /\ Continue({c \in Conn : InMap(c)})
  /\ UNCHANGED <<sending, sent, taken, conns>>

Write(c) ==
  /\ run.step = "write" /\ run.to = c
  /\ line[c] = "up"
  /\ last' = [last EXCEPT ![c] = taken]
  /\ Continue(run.rest)
  /\ UNCHANGED <<sending, sent, taken, clients, owner, stage, line>>

\* Faulty: the loop ends with the first error.
WriteFailsAndReturns(c) ==
  /\ run.step = "write" /\ run.to = c
  /\ ~Open(c)
  /\ run' = Receiving
  /\ UNCHANGED <<sending, sent, taken, conns>>

WriteFails(c) ==
  /\ run.step = "write" /\ run.to = c
  /\ ~Open(c)
  /\ Continue(run.rest)
  /\ UNCHANGED <<sending, sent, taken, conns>>

------------------------------------------------------------------------------
(* Handler, AddClient and sendPeerList *)

\* A client that is there under the same id is replaced, and stays open.
AddClient(c) ==
  /\ stage[c] = "new"
  /\ MuFree
  /\ clients' = [clients EXCEPT ![owner[c]] = c]
  /\ stage' = [stage EXCEPT ![c] = "added"]
  /\ line' = [line EXCEPT ![c] = "up"]
  /\ UNCHANGED <<sending, sent, taken, run, owner, last>>

\* Faulty: the early return keeps the read lock.
LookUpSelfLocked(c) ==
  /\ stage[c] = "added"
  /\ stage' = [stage EXCEPT ![c] = "greeting"]
  /\ UNCHANGED <<sending, sent, taken, run, clients, owner, line, last>>

\* sendPeerList takes the read lock, and gives it back if the id is gone again.
LookUpSelf(c) ==
  /\ stage[c] = "added"
  /\ stage' = [stage EXCEPT
                 ![c] = IF clients[owner[c]] = NoConn THEN "reading" ELSE "greeting"]
  /\ UNCHANGED <<sending, sent, taken, run, clients, owner, line, last>>

\* The list goes to whichever connection has the id by now, and the lock is
\* given back when it is written or the write has failed.
SendPeerList(c) ==
  /\ stage[c] = "greeting"
  /\ LET d == clients[owner[c]] IN d # NoConn /\ line[d] # "stalled"
  /\ stage' = [stage EXCEPT ![c] = "reading"]
  /\ UNCHANGED <<sending, sent, taken, run, clients, owner, line, last>>

------------------------------------------------------------------------------
(* handleClientMessages and RemoveClient *)

\* Faulty: the connection that failed is closed, not the one that is removed.
RemoveOwnClient(c) ==
  /\ clients' = [clients EXCEPT ![owner[c]] = NoConn]
  /\ line' = [line EXCEPT ![c] = "closed"]

\* RemoveClient by id, which closes the connection the id has by now, and the
\* deferred Close of the connection itself.
RemoveClient(c) ==
  /\ clients' = [clients EXCEPT ![owner[c]] = NoConn]
  /\ line' = [d \in Conn |-> IF d \in {c, clients[owner[c]]} THEN "closed" ELSE line[d]]

\* A read error other than a normal closure.  On a connection that the server
\* closed, the read may end in either way.
ReadFails(c) ==
  /\ stage[c] = "reading"
  /\ line[c] \in {"failed", "closed"}
  /\ MuFree
  /\ RemoveClient(c)
  /\ stage' = [stage EXCEPT ![c] = "over"]
  /\ UNCHANGED <<sending, sent, taken, run, owner, last>>

\* After a normal closure the client stays in the map.
ReadEnds(c) ==
  /\ stage[c] = "reading"
  /\ line[c] \in {"left", "closed"}
  /\ line' = [line EXCEPT ![c] = "closed"]
  /\ stage' = [stage EXCEPT ![c] = "over"]
  /\ UNCHANGED <<sending, sent, taken, run, clients, owner, last>>

------------------------------------------------------------------------------
(* The other ends *)

Turn(c, from, to) ==
  /\ line[c] \in from
  /\ line' = [line EXCEPT ![c] = to]
  /\ UNCHANGED <<sending, sent, taken, run, clients, owner, stage, last>>

Stall(c)  == Turn(c, {"up"}, "stalled")
Resume(c) == Turn(c, {"stalled"}, "up")
Fail(c)   == Turn(c, {"up", "stalled"}, "failed")
Leave(c)  == Turn(c, {"up"}, "left")

Init ==
  /\ sending = {} /\ sent = 0 /\ taken = 0
  /\ run = Receiving
  /\ clients = [i \in Id |-> NoConn]
  /\ owner \in [Conn -> Id]
  /\ stage = [c \in Conn |-> "new"]
  /\ line = [c \in Conn |-> "none"]
  /\ last = [c \in Conn |-> 0]

Broadcast == Receive \/ Snapshot \/ \E c \in Conn : Write(c) \/ WriteFails(c)

Serve(c) == LookUpSelf(c) \/ SendPeerList(c) \/ ReadFails(c) \/ ReadEnds(c)

Next ==
  \/ \E s \in Sender : Announce(s) \/ Enqueue(s)
  \/ Broadcast
  \/ \E c \in Conn : \/ AddClient(c) \/ Serve(c)
                     \/ Stall(c) \/ Resume(c) \/ Fail(c) \/ Leave(c)

Spec == Init /\ [][Next]_vars

\* Goroutines are scheduled; a channel serves those that wait for it in turn,
\* and so does a RWMutex.  Nothing is assumed of the other ends: a write has no
\* deadline, so a connection may stay stalled for ever.
Fairness ==
  /\ SF_vars(Broadcast)
  /\ \A s \in Sender : SF_vars(Enqueue(s))
  /\ \A c \in Conn : SF_vars(Serve(c))

FairSpec == Spec /\ Fairness

------------------------------------------------------------------------------
(* Properties *)

\* Every variable holds a value of its kind, and the channel what fits into it.
TypeOK ==
  /\ sending \subseteq Sender
  /\ sent \in 0..MaxMessages
  /\ taken \in 0..sent
  /\ sent - taken <= Capacity
  /\ run \in Run
  /\ clients \in [Id -> Conn \cup {NoConn}]
  /\ owner \in [Conn -> Id]
  /\ stage \in [Conn -> Stages]
  /\ line \in [Conn -> Lines]
  /\ last \in [Conn -> 0..MaxMessages]

\* A connection gets the messages in order and without a gap from the first one
\* it gets, whatever fails or stalls beside it.
NothingSkipped ==
  [][\A c \in Conn : last[c] # 0 /\ last'[c] # last[c] => last'[c] = last[c] + 1]_vars

\* No client is connected and forgotten: a connection leaves the map open only
\* when another one of its id takes its place, although RemoveClient goes by id
\* and may be called for a connection that was replaced long ago.
ForgottenIsClosed ==
  [][\A c \in Conn : InMap(c) /\ ~InMap(c)' => ~Open(c)' \/ clients'[owner[c]] # NoConn]_vars

\* A message that run has not passed on yet.
Pending(n) == n \in (taken + 1)..sent \/ (n = taken /\ run.step = "snapshot")

\* The hub is in the middle of a write to c, or a handler is, with hub.mu in its
\* hands, and the other end does not read.
WaitsFor(c) ==
  /\ line[c] = "stalled"
  /\ \/ run.step = "write" /\ run.to = c
     \/ \E d \in Conn : stage[d] = "greeting" /\ clients[owner[d]] = c
NobodyHoldsUp == \A c \in Conn : []<>~WaitsFor(c)

\* A connected client hears of every message announced from then on, even if
\* other connections fail or stall while it waits for its turn, as long as none of
\* them stalls for ever in the middle of a write.
ConnectedHears ==
  NobodyHoldsUp =>
    \A c \in Conn, n \in Message :
      InMap(c) /\ Open(c) /\ Pending(n) ~> last[c] >= n \/ ~Open(c) \/ ~InMap(c)

\* Nor does anybody wait for ever then to enter the channel, in particular not
\* handleSignature, which holds blockMu meanwhile: the locks and the channel by
\* themselves make nobody wait for ever.
AnnouncementsEnd ==
  NobodyHoldsUp => \A s \in Sender : s \in sending ~> s \notin sending
==============================================================================
