------------------------------- MODULE P2PNode -------------------------------
(***************************************************************************)
(* One P2P node of a ChainDocs client, internal/p2p/node.go: the           *)
(* connections it opens and accepts, the two maps that hold them, the list *)
(* of peers, and the read-write lock P2PNode.mu over all of it.            *)
(*                                                                         *)
(* Every connection has two goroutines: the one that opens it              *)
(* (connectToPeer or handleP2PConnection) and the one that reads from it   *)
(* (handleP2PMessages).  A writer of sync.RWMutex takes its place first,   *)
(* which keeps new readers out, and then waits for the readers that are    *)
(* in; the write sections never wait for anything else and are one step.   *)
(* Read sections are one step too, but for that of handlePing, which takes *)
(* the read lock a second time and writes to the network under both.       *)
(*                                                                         *)
(* What the other ends send is any message at any time.  The library       *)
(* closes a connection whose read fails or whose context is cancelled;     *)
(* that closing a connection ends (5 seconds at most) is external as well. *)
(* Blocks and signatures are handed to the client and change nothing here. *)
(***************************************************************************)
EXTENDS Naturals

CONSTANTS
  Address,  \* listen addresses of other nodes: the ids of outbound peers
  Key,      \* public keys that other nodes come with: the ids of inbound peers
  NoId,     \* neither
  MaxConns  \* bound: how many connections are ever opened

ASSUME ConstantsAssumption ==
  /\ Address \cap Key = {}
  /\ NoId \notin Address \cup Key
  /\ MaxConns \in Nat

Id     == Address \cup Key
Conn   == 1..MaxConns
NoConn == 0

VARIABLES
  started,   \* Start is through: maintenanceLoop runs
  stop,      \* how far Stop is
  dials,     \* addresses that a goroutine of connectToPeer is about to dial
  opened,    \* how many connections were opened; they are numbered
  owner,     \* the id that a connection is served under
  opener,    \* how far the goroutine is that opened the connection
  reader,    \* how far the goroutine is that reads from it
  line,      \* "none", "up", or "down" for whatever reason
  outbound,  \* outboundConns: address -> connection, NoConn when absent
  inbound,   \* inboundConns: public key -> connection, NoConn when absent
  peers,     \* PeerInfo.Connected, "unknown" when the node has no such peer
  recent,    \* the peers that were entered, and not removed, within two minutes: whose
             \* LastSeen matters and is that late
  newest     \* history: the connection last registered under an id

node  == <<started, stop, dials>>
conns == <<opened, owner, opener, reader, line>>
maps  == <<outbound, inbound, peers, recent, newest>>
vars  == <<node, conns, maps>>

Openers == {"none", "waiting", "locking", "greeting", "done"}
Readers == {"none", "reading", "handling", "pinged", "ponging",
            "waiting", "locking", "done"}

Stopped == stop # "no"

\* The connection that the node has under an id.
Entry(i) == IF i \in Address THEN outbound[i] ELSE inbound[i]

------------------------------------------------------------------------------
(* P2PNode.mu *)

\* A writer took its place: no reader gets in.
Pending ==
  \/ stop = "locking"
  \/ \E c \in Conn : opener[c] = "locking" \/ reader[c] = "locking"

\* A handlePing holds the read lock, once or twice.
Reading == \E c \in Conn : reader[c] \in {"pinged", "ponging"}

OpenerPlaces(c) ==
  /\ opener[c] = "waiting"
  /\ ~Pending
  /\ opener' = [opener EXCEPT ![c] = "locking"]
  /\ UNCHANGED <<node, opened, owner, reader, line, maps>>

ReaderPlaces(c) ==
  /\ reader[c] = "waiting"
  /\ ~Pending
  /\ reader' = [reader EXCEPT ![c] = "locking"]
  /\ UNCHANGED <<node, opened, owner, opener, line, maps>>

StopPlaces ==
  /\ stop = "waiting"
  /\ ~Pending
  /\ stop' = "locking"
  /\ UNCHANGED <<started, dials, conns, maps>>

------------------------------------------------------------------------------
(* Start, and whom to dial *)

\* connectToServer: the list of GET /api/peers, which is empty today.  When the
\* request fails, Start returns and the maintenance loop never runs; the P2P
\* server stays.
ConnectToServer(as) ==
  /\ ~started
  /\ started' = TRUE
  /\ dials' = dials \cup as
  /\ UNCHANGED <<stop, conns, maps>>

\* The client calls it three seconds after the start.
ConnectToPeer(a) ==
  /\ a \notin dials
  /\ dials' = dials \cup {a}
  /\ UNCHANGED <<started, stop, conns, maps>>

------------------------------------------------------------------------------
(* Connections are opened *)

Open(i) ==
  /\ opened < MaxConns
  /\ opened' = opened + 1
  /\ owner' = [owner EXCEPT ![opened + 1] = i]
  /\ opener' = [opener EXCEPT ![opened + 1] = "waiting"]
  /\ line' = [line EXCEPT ![opened + 1] = "up"]

\* connectToPeer up to the lock.  It does not ask whether the node has a
\* connection to the address.  Two goroutines that dial one address at once act
\* as one that dials when the other is done.
Dial(a) ==
  /\ a \in dials /\ ~Stopped
  /\ dials' = dials \ {a}
  /\ Open(a)
  /\ UNCHANGED <<started, stop, reader, maps>>

DialFails(a) ==
  /\ a \in dials
  /\ dials' = dials \ {a}
  /\ UNCHANGED <<started, stop, conns, maps>>

\* Faulty variants, which the mutant runs put in place of the definition that
\* follows them, here and below: a connection without a key is let in.
AcceptKeyless(k) ==
  /\ ~Stopped
  /\ Open(NoId)
  /\ UNCHANGED <<node, reader, maps>>

\* handleP2PConnection up to the lock; without a key it closes the connection.
\* The P2P server listens from some time after Start on, or never.  That a request
\* is accepted as the node stops is as good as that it was accepted just before.
Accept(k) ==
  /\ ~Stopped
  /\ Open(k)
  /\ UNCHANGED <<node, reader, maps>>

\* Faulty: a node that is stopping forgets to close.
RegisterUnlessStopped(c) ==
  /\ opener[c] = "locking" /\ ~Reading
  /\ IF Stopped
       THEN /\ opener' = [opener EXCEPT ![c] = "done"]
            /\ UNCHANGED <<reader, maps>>
       ELSE /\ IF owner[c] \in Address
                 THEN /\ outbound' = [outbound EXCEPT ![owner[c]] = c]
                      /\ UNCHANGED inbound
                 ELSE /\ inbound' = [inbound EXCEPT ![owner[c]] = c]
                      /\ UNCHANGED outbound
            /\ peers' = [peers EXCEPT ![owner[c]] = "connected"]
            /\ recent' = recent \cup {owner[c]}
            /\ newest' = [newest EXCEPT ![owner[c]] = c]
            /\ opener' = [opener EXCEPT ![c] = "done"]
            /\ reader' = [reader EXCEPT ![c] = "reading"]
  /\ UNCHANGED <<node, opened, owner, line>>

\* The section under Lock of connectToPeer and handleP2PConnection, and the go
\* statement behind it.  A connection that was there before is overwritten and
\* stays open.
Register(c) ==
  /\ opener[c] = "locking" /\ ~Reading
  /\ IF owner[c] \in Address
       THEN /\ outbound' = [outbound EXCEPT ![owner[c]] = c]
            /\ opener' = [opener EXCEPT ![c] = "done"]
            /\ UNCHANGED inbound
       ELSE /\ inbound' = [inbound EXCEPT ![owner[c]] = c]
            /\ opener' = [opener EXCEPT ![c] = "greeting"]
            /\ UNCHANGED outbound
  /\ peers' = [peers EXCEPT ![owner[c]] = "connected"]
  /\ recent' = recent \cup {owner[c]}
  /\ newest' = [newest EXCEPT ![owner[c]] = c]
  /\ reader' = [reader EXCEPT ![c] = "reading"]
  /\ UNCHANGED <<node, opened, owner, line>>

\* sendPeerList copies the peers under the read lock, and writes after it.
SendPeerList(c) ==
  /\ opener[c] = "greeting" /\ ~Pending
  /\ opener' = [opener EXCEPT ![c] = "done"]
  /\ UNCHANGED <<node, opened, owner, reader, line, maps>>

\* The other end, the network or a write that takes 10 seconds ends a connection;
\* so does the library when the context is cancelled.
LineDown(c) ==
  /\ line[c] = "up"
  /\ line' = [line EXCEPT ![c] = "down"]
  /\ UNCHANGED <<node, opened, owner, opener, reader, maps>>

------------------------------------------------------------------------------
(* handleP2PMessages *)

ReadMessage(c) ==
  /\ reader[c] = "reading" /\ line[c] = "up"
  /\ reader' = [reader EXCEPT ![c] = "handling"]
  /\ UNCHANGED <<node, opened, owner, opener, line, maps>>

\* A peer list is dialled; any other message but a ping changes nothing here.
\* handleMessage holds the read lock meanwhile.
HandleMessage(c, as) ==
  /\ reader[c] = "handling" /\ ~Pending
  /\ reader' = [reader EXCEPT ![c] = "reading"]
  /\ dials' = dials \cup as
  /\ UNCHANGED <<started, stop, opened, owner, opener, line, maps>>

\* handlePing has the read lock of handleMessage, and asks for it again.
HandlePing(c) ==
  /\ reader[c] = "handling" /\ ~Pending
  /\ reader' = [reader EXCEPT ![c] = "pinged"]
  /\ UNCHANGED <<node, opened, owner, opener, line, maps>>

SendToPeer(c) ==
  /\ reader[c] = "pinged" /\ ~Pending
  /\ reader' = [reader EXCEPT ![c] = "ponging"]
  /\ UNCHANGED <<node, opened, owner, opener, line, maps>>

\* Faulty: the write has no time-out.
PongSentInTheEnd(c) ==
  /\ reader[c] = "ponging"
  /\ Entry(owner[c]) # NoConn /\ line[Entry(owner[c])] = "up"
  /\ reader' = [reader EXCEPT ![c] = "reading"]
  /\ UNCHANGED <<node, opened, owner, opener, line, maps>>

\* The pong goes to the connection that the node now has under the id.  It is
\* written, fails, or takes 10 seconds, which closes that connection; then both
\* locks are given back.
PongSent(c) ==
  /\ reader[c] = "ponging"
  /\ reader' = [reader EXCEPT ![c] = "reading"]
  /\ LET to == Entry(owner[c]) IN
     line' \in {line, IF to = NoConn THEN line ELSE [line EXCEPT ![to] = "down"]}
  /\ UNCHANGED <<node, opened, owner, opener, maps>>

ReadFails(c) ==
  /\ reader[c] = "reading" /\ line[c] = "down"
  /\ reader' = [reader EXCEPT ![c] = "waiting"]
  /\ UNCHANGED <<node, opened, owner, opener, line, maps>>

------------------------------------------------------------------------------
(* removePeer, checkConnections and Stop *)

\* Faulty: the flag of the peer stays.
RemovePeerCounted(c) ==
  /\ reader[c] = "locking" /\ ~Reading
  /\ LET i == owner[c] IN
     /\ line' = [d \in Conn |-> IF d = Entry(i) THEN "down" ELSE line[d]]
     /\ outbound' = [a \in Address |-> IF a = i THEN NoConn ELSE outbound[a]]
     /\ inbound' = [k \in Key |-> IF k = i THEN NoConn ELSE inbound[k]]
     /\ recent' = recent \ {i}
  /\ reader' = [reader EXCEPT ![c] = "done"]
  /\ UNCHANGED <<node, opened, owner, opener, peers, newest>>

\* Faulty: the inbound connections are left out.
RemoveOutboundPeer(c) ==
  /\ reader[c] = "locking" /\ ~Reading
  /\ LET i == owner[c] IN
     /\ outbound' = [a \in Address |-> IF a = i THEN NoConn ELSE outbound[a]]
     /\ line' = [d \in Conn |-> IF i \in Address /\ d = Entry(i) THEN "down" ELSE line[d]]
     /\ peers' = IF i \in Address THEN [peers EXCEPT ![i] = "offline"] ELSE peers
  /\ reader' = [reader EXCEPT ![c] = "done"]
  /\ UNCHANGED <<node, opened, owner, opener, inbound, recent, newest>>

\* Faulty: the connection is not closed.
RemovePeerOpen(c) ==
  /\ reader[c] = "locking" /\ ~Reading
  /\ LET i == owner[c] IN
     /\ outbound' = [a \in Address |-> IF a = i THEN NoConn ELSE outbound[a]]
     /\ inbound' = [k \in Key |-> IF k = i THEN NoConn ELSE inbound[k]]
     /\ peers' = [peers EXCEPT ![i] = "offline"]
     /\ recent' = recent \ {i}
  /\ reader' = [reader EXCEPT ![c] = "done"]
  /\ UNCHANGED <<node, opened, owner, opener, line, newest>>

\* removePeer, which goes by the id: it closes the connection that the node now
\* has under it, be it another one.
RemovePeer(c) ==
  /\ reader[c] = "locking" /\ ~Reading
  /\ LET i == owner[c] IN
     /\ line' = [d \in Conn |-> IF d = Entry(i) THEN "down" ELSE line[d]]
     /\ outbound' = [a \in Address |-> IF a = i THEN NoConn ELSE outbound[a]]
     /\ inbound' = [k \in Key |-> IF k = i THEN NoConn ELSE inbound[k]]
     /\ peers' = [peers EXCEPT ![i] = "offline"]
     /\ recent' = recent \ {i}
  /\ reader' = [reader EXCEPT ![c] = "done"]
  /\ UNCHANGED <<node, opened, owner, opener, newest>>

\* Two minutes pass.  Nothing but Register sets LastSeen again.
GrowsOld(i) ==
  /\ i \in recent
  /\ recent' = recent \ {i}
  /\ UNCHANGED <<node, conns, outbound, inbound, peers, newest>>

\* The ticker of maintenanceLoop.  The pings that go out then change nothing here.
CheckConnections ==
  /\ started /\ ~Pending
  /\ peers' = [i \in Id |-> IF peers[i] = "unknown" \/ i \in recent
                              THEN peers[i] ELSE "offline"]
  /\ UNCHANGED <<node, conns, outbound, inbound, recent, newest>>

\* Stop cancels the context and closes the listener before it asks for the lock.
StopNode ==
  /\ stop = "no"
  /\ stop' = "waiting"
  /\ UNCHANGED <<started, dials, conns, maps>>

\* The maps keep what is closed; the readers empty them.
CloseAll ==
  /\ stop = "locking" /\ ~Reading
  /\ stop' = "done"
  /\ line' = [c \in Conn |-> IF \E i \in Id : Entry(i) = c THEN "down" ELSE line[c]]
  /\ UNCHANGED <<started, dials, opened, owner, opener, reader, maps>>

------------------------------------------------------------------------------
Init ==
  /\ started = FALSE /\ stop = "no" /\ dials = {}
  /\ opened = 0
  /\ owner = [c \in Conn |-> NoId]
  /\ opener = [c \in Conn |-> "none"]
  /\ reader = [c \in Conn |-> "none"]
  /\ line = [c \in Conn |-> "none"]
  /\ outbound = [a \in Address |-> NoConn]
  /\ inbound = [k \in Key |-> NoConn]
  /\ peers = [i \in Id |-> "unknown"]
  /\ recent = {}
  /\ newest = [i \in Id |-> NoConn]

\* connectToPeer or handleP2PConnection; handleP2PMessages.
OpenerStep(c) == OpenerPlaces(c) \/ Register(c) \/ SendPeerList(c)

ReaderStep(c) ==
  \/ ReadFails(c) \/ ReaderPlaces(c) \/ RemovePeer(c)
  \/ HandlePing(c) \/ SendToPeer(c) \/ PongSent(c)
  \/ \E as \in SUBSET Address : HandleMessage(c, as)

Next ==
  \/ \E as \in SUBSET Address : ConnectToServer(as)
  \/ CheckConnections
  \/ StopNode \/ StopPlaces \/ CloseAll
  \/ \E a \in Address : ConnectToPeer(a) \/ Dial(a) \/ DialFails(a)
  \/ \E k \in Key : Accept(k)
  \/ \E i \in Id : GrowsOld(i)
  \/ \E c \in Conn : ReadMessage(c) \/ LineDown(c) \/ OpenerStep(c) \/ ReaderStep(c)

Spec == Init /\ [][Next]_vars

\* Goroutines are scheduled, one that waits for the lock gets it when it is free,
\* a write ends within 10 seconds, and a cancelled context closes a connection
\* that is being read from.
Fairness ==
  /\ WF_vars(StopPlaces) /\ WF_vars(CloseAll)
  /\ \A c \in Conn : /\ WF_vars(OpenerStep(c)) /\ WF_vars(ReaderStep(c))
                     /\ SF_vars(Stopped /\ reader[c] = "reading" /\ LineDown(c))

FairSpec == Spec /\ Fairness

------------------------------------------------------------------------------
(* Properties *)

\* Every variable holds a value of its kind.
TypeOK ==
  /\ started \in BOOLEAN
  /\ stop \in {"no", "waiting", "locking", "done"}
  /\ dials \subseteq Address
  /\ opened \in 0..MaxConns
  /\ owner \in [Conn -> Id \cup {NoId}]
  /\ opener \in [Conn -> Openers]
  /\ reader \in [Conn -> Readers]
  /\ line \in [Conn -> {"none", "up", "down"}]
  /\ outbound \in [Address -> 0..opened]
  /\ inbound \in [Key -> 0..opened]
  /\ peers \in [Id -> {"unknown", "connected", "offline"}]
  /\ recent \subseteq Id
  /\ newest \in [Id -> 0..opened]

\* What is in a map is read from, by a goroutine that will take it out again: no
\* dead connection stays in a map to be written to for ever, although a
\* connection may fail before it is entered, while its entry is replaced, or
\* while another one of its peer is removed.
EntriesServed ==
  \A i \in Id : LET c == Entry(i) IN
    c # NoConn => owner[c] = i /\ reader[c] \notin {"none", "done"}

\* GetPeerCount and broadcast agree: a peer counts as connected only if a
\* connection to it is in a map, and one that is in a map counts unless it was
\* entered two minutes ago, whatever it has sent since.
CountedIsReached ==
  \A i \in Id :
    /\ peers[i] = "connected" => Entry(i) # NoConn
    /\ Entry(i) # NoConn => peers[i] = "connected" \/ i \notin recent

\* A signature is broadcast over the newest connection to a peer as long as that
\* connection works: neither the failure of an older connection, which removePeer
\* takes for the failure of the peer, nor its own reader leaves it open and in no
\* map.
NewestInUse ==
  \A i \in Id :
    newest[i] # NoConn => Entry(i) = newest[i] \/ line[newest[i]] = "down"

\* A writer waits behind a handlePing that waits for the second read lock: each for
\* the other, and nobody else gets the lock.
Stuck == Pending /\ \E c \in Conn : reader[c] = "pinged"

\* There is no other way than that to be locked out: whoever asks for the write lock gets
\* it, though pongs are written to peers that do not read, or the node is stuck.
WaitsToWrite(c) ==
  opener[c] \in {"waiting", "locking"} \/ reader[c] \in {"waiting", "locking"}
WritersServed ==
  /\ stop = "waiting" ~> stop = "done" \/ Stuck
  /\ \A c \in Conn : WaitsToWrite(c) ~> ~WaitsToWrite(c) \/ Stuck

\* After Stop every connection ends and leaves the maps, also one that was being
\* opened then and one that had lost its entry, unless the node is stuck.
StopEndsAll ==
  <>Stopped => <>[](\/ Stuck
                    \/ /\ \A c \in Conn : line[c] # "up"
                       /\ \A i \in Id : Entry(i) = NoConn)

------------------------------------------------------------------------------
(* What the code does not keep *)

\* Stop stops the node: it gets the write lock that it asks for and returns, so that
\* the client can end, whatever messages are handled meanwhile.
StopReturns == stop = "waiting" ~> stop = "done"
==============================================================================
