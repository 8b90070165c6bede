---------------------------- MODULE P2PNodeProofs ----------------------------
(***************************************************************************)
(* What P2PNode keeps, proved for any number of peers and connections.     *)
(***************************************************************************)
EXTENDS P2PNode, TLAPS

\* A connection that was not opened yet, or is not entered yet, has no reader; one
\* that was opened has the id of a peer.
LifeCycle ==
  /\ \A c \in Conn : c > opened => opener[c] = "none"
  /\ \A c \in Conn : opener[c] \in {"none", "waiting", "locking"} => reader[c] = "none"
  /\ \A c \in Conn : opener[c] # "none" => owner[c] \in Id

Inductive == /\ TypeOK /\ LifeCycle
             /\ EntriesServed /\ CountedIsReached /\ NewestInUse

LEMMA ConnIsOpened ==
  ASSUME Inductive, NEW c \in Conn, opener[c] # "none"
  PROVE  c \in 1..opened /\ owner[c] \in Id
  BY ConstantsAssumption DEF Inductive, LifeCycle, TypeOK, Conn

LEMMA EntryType ==
  ASSUME TypeOK, NEW i \in Id
  PROVE  Entry(i) \in 0..opened
  BY DEF TypeOK, Entry, Id

\* Goroutines move on, or connections fail, and the maps stay as they are.
LEMMA QuietStep ==
  ASSUME Inductive,
         started' \in BOOLEAN, dials' \subseteq Address,
         stop' \in {"no", "waiting", "locking", "done"},
         opener' \in [Conn -> Openers], reader' \in [Conn -> Readers],
         line' \in [Conn -> {"none", "up", "down"}],
         UNCHANGED <<opened, owner, maps>>,
         \A c \in Conn :
           /\ line'[c] \in {line[c], "down"}
           /\ opener'[c] = "none" <=> opener[c] = "none"
           /\ opener'[c] \in {"waiting", "locking"} => opener[c] \in {"waiting", "locking"}
           /\ reader'[c] = "none" <=> reader[c] = "none"
           /\ reader'[c] = "done" <=> reader[c] = "done"
  PROVE  Inductive'
  <1> USE DEF Inductive, maps
  <1>1. TypeOK'
    BY DEF TypeOK
  <1>2. LifeCycle'
    BY DEF LifeCycle
  <1>3. \A i \in Id : Entry(i)' = Entry(i) /\ Entry(i) \in 0..opened
    BY EntryType DEF Entry
  <1>4. EntriesServed'
    <2> SUFFICES ASSUME NEW i \in Id, Entry(i) # NoConn
                 PROVE  owner'[Entry(i)] = i /\ reader'[Entry(i)] \notin {"none", "done"}
      BY <1>3 DEF EntriesServed
    <2>1. Entry(i) \in Conn
      BY <1>3, ConstantsAssumption DEF Conn, NoConn, TypeOK
    <2> QED
      BY <2>1 DEF EntriesServed
  <1>5. CountedIsReached'
    BY <1>3 DEF CountedIsReached
  <1>6. NewestInUse'
    <2> SUFFICES ASSUME NEW i \in Id, newest[i] # NoConn
                 PROVE  Entry(i) = newest[i] \/ line'[newest[i]] = "down"
      BY <1>3 DEF NewestInUse
    <2>1. newest[i] \in Conn
      BY ConstantsAssumption DEF Conn, NoConn, TypeOK
    <2> QED
      BY <2>1 DEF NewestInUse
  <1> QED
    BY <1>1, <1>2, <1>4, <1>5, <1>6

\* A connection is opened: no map knows its number yet.
LEMMA OpenStep ==
  ASSUME Inductive, NEW i \in Id, Open(i),
         started' \in BOOLEAN, dials' \subseteq Address,
         UNCHANGED <<stop, reader, maps>>
  PROVE  Inductive'
  <1> USE DEF Inductive, maps
  <1>1. /\ opened \in 0..MaxConns /\ opened' = opened + 1 /\ opened' \in 0..MaxConns
        /\ opened + 1 \in Conn
    BY ConstantsAssumption DEF Open, TypeOK, Conn
  <1>2. /\ 0..opened \subseteq 0..opened'
        /\ opened + 1 \notin 0..opened
    BY <1>1
  <1>3. /\ owner' \in [Conn -> Id \cup {NoId}]
        /\ opener' \in [Conn -> Openers]
        /\ line' \in [Conn -> {"none", "up", "down"}]
    BY <1>1 DEF Open, TypeOK, Openers
  <1>4. TypeOK'
    BY <1>1, <1>2, <1>3 DEF TypeOK
  <1>5. \A c \in Conn : c # opened + 1 =>
          owner'[c] = owner[c] /\ opener'[c] = opener[c] /\ line'[c] = line[c]
    BY <1>1 DEF Open, TypeOK
  <1>6. /\ owner'[opened + 1] = i /\ opener'[opened + 1] = "waiting"
        /\ opener[opened + 1] = "none"
    BY <1>1 DEF Open, TypeOK, LifeCycle, Conn
  <1>7. LifeCycle'
    BY <1>1, <1>5, <1>6 DEF LifeCycle, Conn
  <1>8. \A j \in Id : Entry(j)' = Entry(j) /\ Entry(j) \in 0..opened
    BY EntryType DEF Entry
  <1>9. EntriesServed'
    <2> SUFFICES ASSUME NEW j \in Id, Entry(j) # NoConn
                 PROVE  owner'[Entry(j)] = j /\ reader'[Entry(j)] \notin {"none", "done"}
      BY <1>8 DEF EntriesServed
    <2>1. Entry(j) \in Conn /\ Entry(j) # opened + 1
      BY <1>1, <1>8, ConstantsAssumption DEF Conn, NoConn
    <2> QED
      BY <1>5, <2>1 DEF EntriesServed
  <1>10. CountedIsReached'
    BY <1>8 DEF CountedIsReached
  <1>11. NewestInUse'
    <2> SUFFICES ASSUME NEW j \in Id, newest[j] # NoConn
                 PROVE  Entry(j) = newest[j] \/ line'[newest[j]] = "down"
      BY <1>8 DEF NewestInUse
    <2>1. newest[j] \in Conn /\ newest[j] # opened + 1
      BY <1>1, ConstantsAssumption DEF Conn, NoConn, TypeOK
    <2> QED
      BY <1>5, <2>1 DEF NewestInUse
  <1> QED
    BY <1>4, <1>7, <1>9, <1>10, <1>11

\* Register gives the peer its newest connection.
LEMMA RegisterStep ==
  ASSUME Inductive, NEW c \in Conn, Register(c)
  PROVE  Inductive'
  <1> USE DEF Inductive
  <1> DEFINE i == owner[c]
  <1>1. c \in 1..opened /\ i \in Id /\ opener[c] = "locking"
    BY ConnIsOpened DEF Register
  <1>2. /\ Entry(i)' = c
        /\ \A j \in Id \ {i} : Entry(j)' = Entry(j)
        /\ outbound' \in [Address -> 0..opened] /\ inbound' \in [Key -> 0..opened]
    <2>1. CASE i \in Address
      BY <1>1, <2>1 DEF Register, Entry, TypeOK, Id
    <2>2. CASE i \notin Address
      BY <1>1, <2>2 DEF Register, Entry, TypeOK, Id
    <2> QED
      BY <2>1, <2>2
  <1>3. /\ UNCHANGED <<started, stop, dials, opened, owner, line>>
        /\ peers' = [peers EXCEPT ![i] = "connected"]
        /\ recent' = recent \cup {i}
        /\ newest' = [newest EXCEPT ![i] = c]
        /\ reader' = [reader EXCEPT ![c] = "reading"]
        /\ \/ opener' = [opener EXCEPT ![c] = "done"]
           \/ opener' = [opener EXCEPT ![c] = "greeting"]
    BY DEF Register, node
  <1>4. TypeOK'
    BY <1>1, <1>2, <1>3 DEF TypeOK, Openers, Readers
  <1>5. LifeCycle'
    BY <1>1, <1>3 DEF LifeCycle, TypeOK, Conn
  <1>6. EntriesServed'
    <2> SUFFICES ASSUME NEW j \in Id, Entry(j)' # NoConn
                 PROVE  /\ owner[Entry(j)'] = j
                        /\ reader'[Entry(j)'] \notin {"none", "done"}
      BY <1>3 DEF EntriesServed
    <2>1. CASE j = i
      BY <1>2, <1>3, <2>1 DEF TypeOK
    <2>2. CASE j # i
      <3>1. Entry(j)' = Entry(j) /\ Entry(j) \in Conn
        BY <1>2, <2>2, EntryType, ConstantsAssumption DEF Conn, NoConn, TypeOK
      <3>2. owner[Entry(j)] = j /\ reader[Entry(j)] \notin {"none", "done"}
        BY <3>1 DEF EntriesServed
      <3> QED
        BY <1>3, <2>2, <3>1, <3>2 DEF TypeOK
    <2> QED
      BY <2>1, <2>2
  <1>7. CountedIsReached'
    <2>1. c # NoConn
      BY DEF Conn, NoConn
    <2> SUFFICES ASSUME NEW j \in Id
                 PROVE  /\ peers'[j] = "connected" => Entry(j)' # NoConn
                        /\ Entry(j)' # NoConn => peers'[j] = "connected" \/ j \notin recent'
      BY DEF CountedIsReached
    <2>2. CASE j = i
      BY <1>1, <1>2, <1>3, <2>1, <2>2 DEF TypeOK
    <2>3. CASE j # i
      BY <1>2, <1>3, <2>3 DEF TypeOK, CountedIsReached
    <2> QED
      BY <2>2, <2>3
  <1>8. NewestInUse'
    <2> SUFFICES ASSUME NEW j \in Id, newest'[j] # NoConn
                 PROVE  Entry(j)' = newest'[j] \/ line[newest'[j]] = "down"
      BY <1>3 DEF NewestInUse
    <2>1. CASE j = i
      BY <1>1, <1>2, <1>3, <2>1 DEF TypeOK
    <2>2. CASE j # i
      BY <1>2, <1>3, <2>2 DEF TypeOK, NewestInUse
    <2> QED
      BY <2>1, <2>2
  <1> QED
    BY <1>4, <1>5, <1>6, <1>7, <1>8

\* removePeer empties the entry of the id and closes what was in it.
LEMMA RemovePeerStep ==
  ASSUME Inductive, NEW c \in Conn, RemovePeer(c)
  PROVE  Inductive'
  <1> USE DEF Inductive
  <1> DEFINE i == owner[c]
  <1>1. reader[c] = "locking" /\ i \in Id
    BY ConnIsOpened DEF RemovePeer, LifeCycle
  <1>2. /\ UNCHANGED <<started, stop, dials, opened, owner, opener, newest>>
        /\ outbound' = [a \in Address |-> IF a = i THEN NoConn ELSE outbound[a]]
        /\ inbound' = [k \in Key |-> IF k = i THEN NoConn ELSE inbound[k]]
        /\ peers' = [peers EXCEPT ![i] = "offline"]
        /\ recent' = recent \ {i}
        /\ reader' = [reader EXCEPT ![c] = "done"]
        /\ line' = [d \in Conn |-> IF d = Entry(i) THEN "down" ELSE line[d]]
    BY DEF RemovePeer, node
  <1>3. /\ Entry(i)' = NoConn
        /\ \A j \in Id \ {i} : Entry(j)' = Entry(j)
    BY <1>1, <1>2 DEF Entry, Id
  <1>4. TypeOK'
    BY <1>1, <1>2 DEF TypeOK, Readers, NoConn
  <1>5. LifeCycle'
    BY <1>1, <1>2 DEF LifeCycle, TypeOK
  <1>6. EntriesServed'
    <2> SUFFICES ASSUME NEW j \in Id \ {i}, Entry(j) # NoConn
                 PROVE  /\ owner[Entry(j)] = j
                        /\ reader'[Entry(j)] \notin {"none", "done"}
      BY <1>2, <1>3 DEF EntriesServed
    <2>1. owner[Entry(j)] = j /\ reader[Entry(j)] \notin {"none", "done"}
      BY DEF EntriesServed
    <2> QED
      BY <1>2, <2>1 DEF TypeOK
  <1>7. CountedIsReached'
    <2> SUFFICES ASSUME NEW j \in Id
                 PROVE  /\ peers'[j] = "connected" => Entry(j)' # NoConn
                        /\ Entry(j)' # NoConn => peers'[j] = "connected" \/ j \notin recent'
      BY DEF CountedIsReached
    <2>1. CASE j = i
      BY <1>1, <1>2, <1>3, <2>1 DEF TypeOK
    <2>2. CASE j # i
      BY <1>2, <1>3, <2>2 DEF TypeOK, CountedIsReached
    <2> QED
      BY <2>1, <2>2
  <1>8. NewestInUse'
    <2> SUFFICES ASSUME NEW j \in Id, newest[j] # NoConn
                 PROVE  Entry(j)' = newest[j] \/ line'[newest[j]] = "down"
      BY <1>2 DEF NewestInUse
    <2>1. newest[j] \in Conn
      BY ConstantsAssumption DEF Conn, NoConn, TypeOK
    <2>2. Entry(j) = newest[j] \/ line[newest[j]] = "down"
      BY DEF NewestInUse
    <2> QED
      BY <1>2, <1>3, <2>1, <2>2
  <1> QED
    BY <1>4, <1>5, <1>6, <1>7, <1>8

LEMMA InductiveInit == Init => Inductive
  <1> SUFFICES ASSUME Init PROVE Inductive
    OBVIOUS
  <1> USE DEF Init
  <1>1. TypeOK
    <2>1. 0 \in 0..0 /\ 0 \in 0..MaxConns
      BY ConstantsAssumption
    <2> QED
      BY <2>1 DEF TypeOK, Openers, Readers, NoConn
  <1>2. LifeCycle
    BY DEF LifeCycle
  <1>3. \A i \in Id : Entry(i) = NoConn
    BY DEF Entry, Id
  <1>4. EntriesServed /\ CountedIsReached /\ NewestInUse
    BY <1>3 DEF EntriesServed, CountedIsReached, NewestInUse
  <1> QED
    BY <1>1, <1>2, <1>4 DEF Inductive

\* The flags change, and nothing else.
LEMMA FlagsStep ==
  ASSUME Inductive, CheckConnections \/ \E i \in Id : GrowsOld(i)
  PROVE  Inductive'
  <1> USE DEF Inductive
  <1>1. /\ UNCHANGED <<started, stop, dials, opened, owner, opener, reader, line,
                      outbound, inbound, newest>>
        /\ peers' \in [Id -> {"unknown", "connected", "offline"}]
        /\ recent' \subseteq recent
        /\ \A i \in Id : /\ peers'[i] = "connected" => peers[i] = "connected"
                         /\ i \in recent' => peers'[i] = peers[i]
    <2>1. CASE CheckConnections
      BY <2>1 DEF CheckConnections, TypeOK, node, conns
    <2>2. CASE \E i \in Id : GrowsOld(i)
      BY <2>2 DEF GrowsOld, TypeOK, node, conns
    <2> QED
      BY <2>1, <2>2
  <1>2. TypeOK' /\ LifeCycle'
    BY <1>1 DEF TypeOK, LifeCycle
  <1>3. \A i \in Id : Entry(i)' = Entry(i)
    BY <1>1 DEF Entry
  <1>4. EntriesServed' /\ NewestInUse'
    BY <1>1, <1>3 DEF EntriesServed, NewestInUse
  <1>5. CountedIsReached'
    BY <1>1, <1>3 DEF CountedIsReached
  <1> QED
    BY <1>2, <1>4, <1>5

\* What the opening goroutine of a connection does besides Register.
LEMMA OpenerQuiet ==
  ASSUME Inductive, NEW c \in Conn, OpenerPlaces(c) \/ SendPeerList(c)
  PROVE  Inductive'
  <1>1. /\ started' \in BOOLEAN /\ dials' \subseteq Address
        /\ stop' \in {"no", "waiting", "locking", "done"}
        /\ opener' \in [Conn -> Openers]
        /\ UNCHANGED <<opened, owner, reader, line, maps>>
    BY DEF OpenerPlaces, SendPeerList, Inductive, TypeOK, Openers, node
  <1>2. \A d \in Conn :
          /\ opener'[d] = "none" <=> opener[d] = "none"
          /\ opener'[d] \in {"waiting", "locking"} => opener[d] \in {"waiting", "locking"}
    BY DEF OpenerPlaces, SendPeerList, Inductive, TypeOK
  <1> QED
    BY <1>1, <1>2, QuietStep DEF Inductive, TypeOK

\* What handleP2PMessages does up to removePeer.
LEMMA ReaderQuiet ==
  ASSUME Inductive, NEW c \in Conn,
         \/ ReadMessage(c) \/ ReadFails(c) \/ ReaderPlaces(c)
         \/ HandlePing(c) \/ SendToPeer(c) \/ PongSent(c)
         \/ \E as \in SUBSET Address : HandleMessage(c, as)
  PROVE  Inductive'
  <1> USE DEF Inductive
  <1>1. \E s \in Readers \ {"none", "done"} :
          reader[c] \notin {"none", "done"} /\ reader' = [reader EXCEPT ![c] = s]
    BY DEF ReadMessage, ReadFails, ReaderPlaces, HandlePing, SendToPeer, PongSent,
           HandleMessage, Readers
  <1>2. /\ UNCHANGED <<started, stop, opened, owner, opener, maps>>
        /\ dials' \subseteq Address
    BY DEF ReadMessage, ReadFails, ReaderPlaces, HandlePing, SendToPeer, PongSent,
           HandleMessage, TypeOK, node
  <1>3. /\ line' \in [Conn -> {"none", "up", "down"}]
        /\ \A d \in Conn : line'[d] \in {line[d], "down"}
    <2>1. CASE PongSent(c)
      BY <2>1 DEF PongSent, TypeOK
    <2>2. CASE ~PongSent(c)
      BY <2>2 DEF ReadMessage, ReadFails, ReaderPlaces, HandlePing, SendToPeer,
                  HandleMessage, TypeOK
    <2> QED
      BY <2>1, <2>2
  <1>4. /\ reader' \in [Conn -> Readers]
        /\ \A d \in Conn : /\ reader'[d] = "none" <=> reader[d] = "none"
                           /\ reader'[d] = "done" <=> reader[d] = "done"
    BY <1>1 DEF TypeOK
  <1> QED
    BY <1>2, <1>3, <1>4, QuietStep DEF TypeOK

\* Stop, the list of addresses to dial, and lines that go down.
LEMMA NodeQuiet ==
  ASSUME Inductive,
         \/ \E as \in SUBSET Address : ConnectToServer(as)
         \/ StopNode \/ StopPlaces \/ CloseAll
         \/ \E a \in Address : ConnectToPeer(a) \/ DialFails(a)
         \/ \E c \in Conn : LineDown(c)
  PROVE  Inductive'
  <1> USE DEF Inductive
  <1>1. /\ started' \in BOOLEAN /\ dials' \subseteq Address
        /\ stop' \in {"no", "waiting", "locking", "done"}
        /\ UNCHANGED <<opened, owner, opener, reader, maps>>
    BY DEF ConnectToServer, StopNode, StopPlaces, CloseAll, ConnectToPeer, DialFails,
           LineDown, TypeOK, node, conns
  <1>2. /\ line' \in [Conn -> {"none", "up", "down"}]
        /\ \A d \in Conn : line'[d] \in {line[d], "down"}
    BY DEF ConnectToServer, StopNode, StopPlaces, CloseAll, ConnectToPeer, DialFails,
           LineDown, TypeOK, conns
  <1> QED
    BY <1>1, <1>2, QuietStep DEF TypeOK

LEMMA InductiveNext == Inductive /\ [Next]_vars => Inductive'
  <1> SUFFICES ASSUME Inductive, [Next]_vars PROVE Inductive'
    OBVIOUS
  <1>1. CASE \E a \in Address : Dial(a)
    BY <1>1, OpenStep DEF Dial, Id, Inductive, TypeOK
  <1>2. CASE \E k \in Key : Accept(k)
    BY <1>2, OpenStep DEF Accept, Id, Inductive, TypeOK, node
  <1>3. CASE \E c \in Conn : OpenerStep(c)
    BY <1>3, RegisterStep, OpenerQuiet DEF OpenerStep
  <1>4. CASE \E c \in Conn : ReadMessage(c) \/ ReaderStep(c)
    BY <1>4, RemovePeerStep, ReaderQuiet DEF ReaderStep
  <1>5. CASE UNCHANGED vars
    BY <1>5, QuietStep DEF vars, node, conns, Inductive, TypeOK
  <1> QED
    BY <1>1, <1>2, <1>3, <1>4, <1>5, NodeQuiet, FlagsStep DEF Next

THEOREM InductiveInvariant == Spec => []Inductive
  BY InductiveInit, InductiveNext, PTL DEF Spec

\* Every variable holds a value of its kind.
THEOREM TypeCorrect == Spec => []TypeOK
  BY InductiveInvariant, PTL DEF Inductive

\* Every connection in a map has a goroutine of handleP2PMessages that will take
\* it out.
THEOREM EntriesAlwaysServed == Spec => []EntriesServed
  BY InductiveInvariant, PTL DEF Inductive

\* GetPeerCount counts peers that broadcast reaches, and misses none but those
\* entered more than two minutes ago.
THEOREM CountedPeersReached == Spec => []CountedIsReached
  BY InductiveInvariant, PTL DEF Inductive

\* Whatever older connections of a peer fail, the newest one is in its map as long
\* as it works.
THEOREM NewestConnectionInUse == Spec => []NewestInUse
  BY InductiveInvariant, PTL DEF Inductive
==============================================================================
