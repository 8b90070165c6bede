---------------------------- MODULE SignerClient ----------------------------
(***************************************************************************)
(* The signing client of ChainDocs in daemon mode, cmd/client/main.go,     *)
(* with the server it talks to.                                            *)
(*                                                                         *)
(* The client hears of blocks over a WebSocket connection that it opens    *)
(* once, when it starts, and asks for the last block when it has none.     *)
(* Each announcement is worked on by a goroutine of its own; a ticker      *)
(* polls; one goroutine looks at the last block after the start.           *)
(*                                                                         *)
(* Of the server only what the client can tell is here: the height of the  *)
(* chain, the blocks this client has signed, and the announcements.  Blocks *)
(* are named by their heights; blocks that lost a race for a height are    *)
(* the business of ChainServer, and so is the refusal of a second          *)
(* signature, which leaves the block as it is.  The dial of the client     *)
(* returns before the hub has its connection, which waits for hub.mu; what *)
(* is announced in between passes it by.  One client has the key.          *)
(***************************************************************************)
EXTENDS Naturals

CONSTANTS
  MaxHeight,        \* bound: blocks that are ever made, but for genesis
  SignUnsignedOnly  \* daemon.sign_unsigned_only of the configuration

ASSUME ConstantsAssumption == MaxHeight \in Nat /\ SignUnsignedOnly \in BOOLEAN

VARIABLES
  \* the server
  serverUp,
  height,    \* of the last block
  quiet,     \* blocks made by POST /api/blocks, which are not announced
  mine,      \* those of them with the unverified signature of this key
  unheard,   \* blocks stored and still to be announced
  signed,    \* blocks that have the signature of the client
  agreed,    \* blocks whose consensus was reached; that it may be undone again
             \* is the business of Consensus
  known,     \* the key is registered
  \* the connection
  conn,      \* "none"; "dialled", and the hub has yet to take it; "open"; or
             \* "broken", and the client has yet to see it
  pipe,      \* announcements sent and not yet read
  missed,    \* history: blocks announced to a dialled connection, after the look
  \* the client
  up,
  useWebSocket,
  checking,  \* checkPendingBlocks has yet to look
  sending,   \* signatures on their way to the server, and who sends them
  dropped    \* blocks whose signature got lost on its way from processBlock

server == <<serverUp, height, quiet, mine, unheard, signed, agreed, known>>
wire   == <<conn, pipe, missed>>
client == <<up, useWebSocket, checking, sending, dropped>>
vars   == <<server, wire, client>>

Block == 0..MaxHeight
Task  == [by : {"notice", "check", "poll"}, block : Block]

------------------------------------------------------------------------------
(* The server *)

\* Faulty variants, which the mutant runs put in place of the definition that
\* follows them, here and below: a block is announced though it was not saved.
UploadUnsaved ==
  /\ serverUp /\ height < MaxHeight
  /\ unheard' = unheard \cup {height + 1}
  /\ UNCHANGED <<serverUp, height, quiet, mine, signed, agreed, known, wire, client>>

Upload ==
  /\ serverUp /\ height < MaxHeight
  /\ height' = height + 1
  /\ unheard' = unheard \cup {height + 1}
  /\ UNCHANGED <<serverUp, quiet, mine, signed, agreed, known, wire, client>>

\* The request may come with this key, if it is registered.
CreateBlock ==
  /\ serverUp /\ height < MaxHeight
  /\ height' = height + 1
  /\ quiet' = quiet \cup {height + 1}
  /\ \/ mine' = mine
     \/ known /\ mine' = mine \cup {height + 1}
  /\ UNCHANGED <<serverUp, unheard, signed, agreed, known, wire, client>>

\* The hub looks up its connections and writes.
BroadcastBlock(b) ==
  /\ serverUp
  /\ b \in unheard
  /\ unheard' = unheard \ {b}
  /\ pipe' = IF conn = "open" THEN pipe \cup {b} ELSE pipe
  /\ missed' = IF conn = "dialled" /\ ~checking THEN missed \cup {b} ELSE missed
  /\ UNCHANGED <<serverUp, height, quiet, mine, signed, agreed, known, conn, client>>

\* Enough other keys sign the block.
OthersSign(b) ==
  /\ serverUp
  /\ b \in 1..height
  /\ agreed' = agreed \cup {b}
  /\ UNCHANGED <<serverUp, height, quiet, mine, unheard, signed, known, wire, client>>

\* The key is registered or revoked.
KeyChanges ==
  /\ serverUp
  /\ known' = ~known
  /\ UNCHANGED <<serverUp, height, quiet, mine, unheard, signed, agreed, wire, client>>

\* AddClient of the hub.
AddClient ==
  /\ conn = "dialled"
  /\ conn' = "open"
  /\ UNCHANGED <<server, pipe, missed, client>>

Connected == conn \in {"dialled", "open"}
Broken    == IF Connected THEN "broken" ELSE conn

ServerCrash ==
  /\ serverUp
  /\ serverUp' = FALSE
  /\ unheard' = {}
  /\ conn' = Broken
  /\ UNCHANGED <<height, quiet, mine, signed, agreed, known, pipe, missed, client>>

ServerStart ==
  /\ ~serverUp
  /\ serverUp' = TRUE
  /\ UNCHANGED <<height, quiet, mine, unheard, signed, agreed, known, wire, client>>

Disconnect ==
  /\ Connected
  /\ conn' = "broken"
  /\ UNCHANGED <<server, pipe, missed, client>>

------------------------------------------------------------------------------
(* The client starts and stops *)

\* Faulty: checkPendingBlocks is not started.
StartUnchecked ==
  /\ ~up
  /\ up' = TRUE
  /\ \/ serverUp /\ conn' = "dialled" /\ useWebSocket' = TRUE
     \/ conn' = "none" /\ useWebSocket' = FALSE
  /\ pipe' = {} /\ missed' = {}
  /\ UNCHANGED <<server, checking, sending, dropped>>

\* connectWebSocket; when the dial fails, polling is what remains.
Start ==
  /\ ~up
  /\ up' = TRUE
  /\ \/ serverUp /\ conn' = "dialled" /\ useWebSocket' = TRUE /\ checking' = TRUE
     \/ conn' = "none" /\ useWebSocket' = FALSE /\ checking' = FALSE
  /\ pipe' = {} /\ missed' = {}
  /\ UNCHANGED <<server, sending, dropped>>

\* A signal, or the process dies.
Stop ==
  /\ up
  /\ up' = FALSE
  /\ useWebSocket' = FALSE /\ checking' = FALSE
  /\ sending' = {} /\ dropped' = {}
  /\ conn' = "none" /\ pipe' = {} /\ missed' = {}
  /\ UNCHANGED server

------------------------------------------------------------------------------
(* handleWebSocketMessages *)

\* The announced copy has no signature of the client, so processBlock signs.
Receive(b) ==
  /\ b \in pipe
  /\ pipe' = pipe \ {b}
  /\ sending' = sending \cup {[by |-> "notice", block |-> b]}
  /\ UNCHANGED <<server, conn, missed, up, useWebSocket, checking, dropped>>

\* Faulty: the flag stays.
ReadErrorKeepsFlag ==
  /\ conn = "broken"
  /\ conn' = "none" /\ pipe' = {} /\ missed' = {}
  /\ UNCHANGED <<server, client>>

\* What was not read by then is lost.  Nothing opens the connection again.
ReadError ==
  /\ conn = "broken"
  /\ conn' = "none" /\ pipe' = {} /\ missed' = {}
  /\ useWebSocket' = FALSE
  /\ UNCHANGED <<server, up, checking, sending, dropped>>

------------------------------------------------------------------------------
(* checkPendingBlocks and processOnce *)

\* The last block, and no other; processBlock does not sign genesis.
CheckPendingBlocks ==
  /\ checking /\ serverUp
  /\ checking' = FALSE
  /\ sending' = IF height > 0 /\ height \notin signed
                  THEN sending \cup {[by |-> "check", block |-> height]}
                  ELSE sending
  /\ UNCHANGED <<server, wire, up, useWebSocket, dropped>>

\* A request that fails ends in an error of checkPendingBlocks, which is not
\* started again.
CheckFails ==
  /\ checking
  /\ checking' = FALSE
  /\ dropped' = dropped \cup {height}
  /\ UNCHANGED <<server, wire, up, useWebSocket, sending>>

\* The ticker of runDaemon; one processOnce at a time.
Poll ==
  /\ up /\ ~useWebSocket
  /\ serverUp
  /\ \A task \in sending : task.by # "poll"
  /\ height \notin signed
  /\ sending' = sending \cup {[by |-> "poll", block |-> height]}
  /\ UNCHANGED <<server, wire, up, useWebSocket, checking, dropped>>

Skipped == SignUnsignedOnly /\ height \in agreed

ProcessOnce == ~Skipped /\ Poll

\* When getConsensusStatus fails, an agreed block is signed all the same.
ProcessOnceUnsure == Skipped /\ Poll

------------------------------------------------------------------------------
(* sendSignature *)

\* The server stores the signature, or has it already.  Its answer may be lost.
Sent(task) ==
  /\ task \in sending
  /\ serverUp
  /\ known /\ task.block \notin mine
  /\ signed' = signed \cup {task.block}
  /\ sending' = sending \ {task}
  /\ UNCHANGED <<serverUp, height, quiet, mine, unheard, agreed, known, wire, up,
                 useWebSocket, checking, dropped>>

\* The request fails, or is refused: 401 or 403 for a key that is not known, 409 for
\* a block that has the entry of its maker.  processBlock goes on as if nothing had
\* happened; the ticker comes back.
SendFails(task) ==
  /\ task \in sending
  /\ sending' = sending \ {task}
  /\ dropped' = IF task.by = "poll" THEN dropped ELSE dropped \cup {task.block}
  /\ UNCHANGED <<server, wire, up, useWebSocket, checking>>

Init ==
  /\ serverUp = TRUE /\ height = 0
  /\ quiet = {} /\ mine = {} /\ unheard = {} /\ signed = {} /\ agreed = {}
  /\ known \in BOOLEAN
  /\ conn = "none" /\ pipe = {} /\ missed = {}
  /\ up = FALSE /\ useWebSocket = FALSE /\ checking = FALSE
  /\ sending = {} /\ dropped = {}

Next ==
  \/ Upload \/ CreateBlock \/ KeyChanges
  \/ AddClient \/ ServerCrash \/ ServerStart \/ Disconnect
  \/ \E b \in Block : BroadcastBlock(b) \/ OthersSign(b) \/ Receive(b)
  \/ Start \/ Stop \/ ReadError
  \/ CheckPendingBlocks \/ CheckFails \/ ProcessOnce \/ ProcessOnceUnsure
  \/ \E task \in Task : Sent(task) \/ SendFails(task)

Spec == Init /\ [][Next]_vars

\* Goroutines of the client are scheduled, its ticker ticks, and its requests end,
\* by a time-out of 30 s at the latest.  Nothing is assumed of the server: the hub
\* may never take the connection, nor ever pass a block on.
Fairness ==
  /\ \A b \in Block : WF_vars(Receive(b))
  /\ WF_vars(ReadError)
  /\ WF_vars(CheckPendingBlocks \/ CheckFails)
  /\ WF_vars(ProcessOnce)
  /\ \A task \in Task : WF_vars(Sent(task) \/ SendFails(task))

FairSpec == Spec /\ Fairness

------------------------------------------------------------------------------
(* Properties *)

\* Every variable holds a value of its kind, and no block is known anywhere
\* before it is on the chain.
TypeOK ==
  /\ serverUp \in BOOLEAN /\ up \in BOOLEAN
  /\ useWebSocket \in BOOLEAN /\ checking \in BOOLEAN
  /\ height \in Block
  /\ quiet \subseteq 1..height /\ mine \subseteq quiet /\ unheard \subseteq (1..height) \ quiet
  /\ signed \subseteq 0..height /\ agreed \subseteq 1..height
  /\ known \in BOOLEAN
  /\ conn \in {"none", "dialled", "open", "broken"}
  /\ pipe \subseteq 1..height /\ missed \subseteq 1..height
  /\ sending \subseteq [by : {"notice", "check", "poll"}, block : 0..height]
  /\ dropped \subseteq 0..height

\* While the connection holds, an unsigned last block is on its way to be signed,
\* though the block may be made before, while or after the client connects and
\* looks: if not, it was never announced, or announced between the look of the
\* client and the AddClient of the hub, or its signature got lost.
NothingForgotten ==
  useWebSocket /\ Connected /\ height > 0 /\ height \notin signed =>
    \/ checking
    \/ height \in unheard \cup pipe
    \/ \E task \in sending : task.block = height
    \/ height \in quiet \cup missed \cup dropped

\* The last block needs no more from this client, or gets no more: the server takes
\* the entry of its maker for a signature.
Settled == height \in signed \/ (SignUnsignedOnly /\ height \in agreed) \/ height \in mine

\* Of the requests of the ticker that the server would accept, not every one fails.
NotEveryPollFails == \A b \in Block : SF_vars(Sent([by |-> "poll", block |-> b]))

\* When client and server stay up and the key stays registered, the last block gets
\* signed, over whichever of the two ways remains, and whatever was lost before.
\* While the connection is in use there are exceptions: genesis, a block that was not
\* announced or is still to be, one that was announced past the connection, and one
\* whose signature got lost.
LastBlockSettled ==
  NotEveryPollFails /\ <>[](up /\ serverUp /\ known)
    => <>[](\/ Settled
            \/ useWebSocket /\ height \in {0} \cup quiet \cup unheard \cup missed \cup dropped)

------------------------------------------------------------------------------
(* What the code does not keep *)

\* "Находит неподписанные блоки", "Подписывает их" (docs/ARCHITECTURE.md:301-302):
\* a client that connects late, whose key is registered and whose requests and
\* connection do not fail, signs the announced blocks that still need it.
PendingBlocksSigned ==
  <>[](up /\ serverUp /\ known /\ conn = "open" /\ missed \cup dropped = {})
    => <>[](\A b \in (1..height) \ (quiet \cup unheard) : b \in signed \cup agreed)
==============================================================================
