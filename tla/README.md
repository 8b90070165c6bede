# ChainDocs in TLA+

ChainDocs keeps documents in a chain of blocks: a Go server stores the blocks in an embedded
database, clients sign the blocks with their keys, and a block counts as agreed when enough keys
have signed it. This directory holds a TLA+ model of the program, the TLC configurations that check
it on small instances, and proofs, checked by TLAPS, of what holds for every instance.

## 1. Inventory

| Component | Source | State | Operations |
|---|---|---|---|
| Block | `internal/block/block.go` | none of its own | `NewBlock`, `AddSignature`, `HasSignature`, counts of valid signatures |
| Block store | `internal/storage/storage.go` | buckets `blocks`, `height`, `documents`, `metadata` | `SaveBlock`, `GetLastBlock`, `GetBlock`, `InitGenesis` |
| Block handlers | `cmd/server/main.go` | `blockMu`, upload directory, bucket `documents_meta` | `handleUpload`, `handleBulkUpload`, `handleCreateBlock`, `handleSignature` |
| Key registry | `main.go`, `storage.go` | map `pubKeys` under `mu`, buckets `pubkeys`, `revoked` | `handleRegisterKey`, `handleRevokeKey`, `loadKeys`, the key check of the block handlers |
| Consensus | `main.go`, `storage.go`, `block.go` | bucket `activity` | `UpdateKeyActivity`, `GetActiveKeys`, `ConsensusReached`, `handleGetConsensus`, `handleGetPendingBlocks` |
| Categories | `storage.go`, `main.go` | bucket `categories`, `documents_meta` | create, delete, count documents, list |
| WebSocket hub | `internal/websocket/hub.go` | clients, a channel of 256 messages | `BroadcastBlock`, `BroadcastConsensus`, `run`, `AddClient`, `RemoveClient`, `sendPeerList` |
| Signing client | `cmd/client/main.go` | WebSocket connection and its flag, last signed hash | `checkPendingBlocks`, `handleWebSocketMessages`, `processBlock`, `runDaemon` |
| P2P node | `internal/p2p/node.go` | `peers`, `inboundConns`, `outboundConns`, all under the `sync.RWMutex` `mu` | `Start`, `connectToPeer`, `handleP2PConnection`, `handleP2PMessages`, `maintenanceLoop`, `removePeer`, `Stop` |
| Crypto, key generator, signer, web pages, metrics, logger, configuration | `internal/crypto`, `cmd/keygen`, `cmd/signer`, `web`, `pkg` | none that the others share | |

How they interact. `net/http` runs every request of the server in a goroutine of its own. The
handlers share the database (each `db.Update` is one atomic, durable transaction), the map of keys
(a lock for each access, none across two), `blockMu` (held by `handleSignature` alone, from the read
of the block to its answer) and the channel of the hub. Clients hear of new blocks through the hub
or by polling, sign them over HTTP, and broadcast their signatures to each other over P2P, where the
receiver logs them. Nothing sends blocks over P2P: no client calls `BroadcastBlock`.

What is hard in it:

* The handlers that make blocks read the last block and save its successor later, without a lock.
* Every signature writes a whole block back, together with its index entries.
* A file, a block, its metadata and the counters of its category are written in separate steps, any
  of which may fail, and the process may die between them.
* The registry is written first in the database and then in memory, without a lock over both, and it
  goes by the text of a key, of which a key has several.
* The number of signatures required depends on which keys were active in the last 24 hours, and is
  computed in four places.
* Notifications go through a bounded channel while `blockMu` is held, and from there to connections
  without a time-out.
* The client must sign blocks it hears of twice, late, or never; connections end on their own.
* A P2P node opens and accepts connections to the same peers without end, finds them by the id of
  the peer alone, and asks for its read lock twice in one goroutine.

The properties that make the components correct are listed with the runs below.

## 2. Modules

| Module | Role | Models |
|---|---|---|
| `Bucket` | data | a bbolt bucket as a function from keys to values |
| `Block` | data | a block, its signatures and how they are counted (`block.go`) |
| `Ledger` | abstract specification | what the store promises: a tree of blocks, each a child of an earlier one, endorsed by keys, with a tip that moves to its own children |
| `ChainServer` | component | the store and the handlers that write it; refines `Ledger` |
| `MCChainServer` | model checking | `ChainServer` with the symmetry of threads, keys and documents |
| `ChainServerProofs` | proofs | about `ChainServer`, with the refinement |
| `Documents` | component | `ChainServer` with categories: their counters, the metadata, the files and how they are written |
| `MCDocuments` | model checking | `Documents` with its symmetry, and the constraint that nobody signs |
| `DocumentsProofs` | proofs | about `Documents`, on top of `ChainServerProofs` |
| `KeyText` | data | the texts of a key (`crypto/keys.go`) |
| `KeyRegistry` | component | registration, revocation, the key check, start and crash |
| `MCKeyRegistry` | model checking | `KeyRegistry` with two keys, one of them in two texts |
| `KeyRegistryProofs` | proofs | about `KeyRegistry` |
| `Server` | composition | `ChainServer` and `KeyRegistry` as one server: who signs is who was found in the map |
| `ServerProofs` | proofs | that `Server` is both of them, and what follows of agreed blocks |
| `Thresholds` | data | how many signatures agree on a block (`block.go`, `main.go`) |
| `Consensus` | component | activity of keys, the three judgements of a block |
| `MCConsensus` | model checking | `Consensus` with three keys, one of them in two texts |
| `ConsensusProofs` | proofs | about `Consensus` |
| `NotifyHub` | component | the channel of the hub, its goroutine, and connections that come, stall, fail and leave |
| `MCNotifyHub` | model checking | `NotifyHub` with the id of one connection fixed |
| `NotifyHubProofs` | proofs | about `NotifyHub` |
| `SignerClient` | component | the signing client in daemon mode and what it sees of the server |
| `SignerClientProofs` | proofs | about `SignerClient` |
| `P2PNode` | component | one P2P node: its connections, the goroutines that serve them, its lock |
| `P2PNodeProofs` | proofs | about `P2PNode` |

### ChainServer

Durable state: `blocks`, `heightIdx`, `docIdx`, `docMeta` are the buckets `blocks`, `height`,
`documents`, `documents_meta`; `lastHash` and `lastHeight` are the two entries of `meta`. Volatile
state: `up`, `blockMu`, `req` (what each request is doing, with the
block it holds in a local variable), `notified` (the counts sent to the hub). `clock` is the
environment's: the hash of a block covers its timestamp in nanoseconds, so the model takes the
timestamp for the hash.

A handler is a sequence of steps. A step is one database transaction, the reading of a file, or one
send to the hub, and between two of them every other request may run and the process may die:

| Code | Actions |
|---|---|
| `handleUpload` | `ReceiveFile`, `BuildBlock` or `UploadFails`, `StoreBlock` or `StoreBlockFails`, `AnnounceBlock` |
| `handleBulkUpload` | the same for each file, then `SaveMetadata` or, the error being ignored, `SaveMetadataFails`; back to `ReceiveFile` or `BulkDone` |
| `handleCreateBlock` | `BuildSignedBlock`, `StoreBlock` or `StoreBlockFails` |
| `handleSignature` | `BeginSign`, `LockAndSign` or `LockAndReject`, `StoreSignature` or `StoreSignatureFails`, `AnswerSignature` |
| `main` | `Start` (`New`, `InitGenesis`, `NewServer`), `Crash` |

`SaveBlock` is an operator that every save of the code goes through, also the one of a signature,
which writes the whole block and both indexes again. Which keys are registered is left open: any key
may pass the check, which covers every behaviour of the registry. The check of a
document signature at an upload only refuses requests. The two sends, `AnnounceBlock` and
`AnswerSignature`, may wait for room in the channel of the hub: nothing is assumed of when they are
through. How the file is written is in `Documents`.

### Documents

`Documents` extends `ChainServer`: an upload takes the steps it takes there, and each step is joined
with what it does here. `categories` is the bucket of that name, reduced to `DocCount`;
`metaCategory` is the category in `documents_meta`; `form` is the form value `category` of a request,
read once by the handler; `owing` are the requests between the transaction of the metadata and
`IncrementCategoryDocCount`; `recreated` is history, for the property.

A file has a path, the directory of the category and the hash of the content, and `os.WriteFile`
empties what is there (`WriteFileIn`) before it writes it all (`FinishFile`) or fails in the middle
(`WriteFails`); the process may die before either. `files` says of each path what is there: `torn`, it
never was complete; `whole`; `lost`, it was complete, or about to be, when another upload of the
document emptied it. Two requests may write one file: `writing` remembers whether another one emptied
it meanwhile, which leaves a hole that only the other one fills.

The counter is raised twice in a bulk upload, and both times are here: in the transaction that saves
the metadata (`SaveMetadataIn`, `storage.go:749`) and in one of its own (`IncrementCategoryDocCount`,
`main.go:930`), which runs also after the first has failed. A single upload puts its file into the
directory of the category and stores the category nowhere. `CreateCategory` does not look whether
the id exists and sets the counter to zero; `DeleteCategory` leaves the documents. Everything else a
handler does is `OtherStep`, which leaves the categories alone.

### KeyRegistry

`registered` and `revoked` are the buckets `pubkeys` and `revoked`; `pubKeys` is the map in memory;
`signers` are the keys with a signature in some block. The first three go by the text that a request
comes with, `main.go` never compares the keys themselves, and `KeyOf` (module `KeyText`) is
`crypto.StringToPublicKey`, which reads capitals and small letters alike; a text is a key and the way
it is written. `handleRegisterKey` is `StoreKey` and
`CacheKey`; `handleRevokeKey` is `BeginRevoke`, `CheckRevoked`, `CheckNewKey`, `RevokeKey` (or
`RevokeKeyFails`), `UncacheKey`; `handleSignature`, as far as it is about keys, is `Admit` and
`SaveSignature` or `RefuseSignature`. `Start` loads the map from the database. Requests that fail
their first check change nothing and are left out, and so is a `SavePublicKey` that fails.

### Server

`Server` extends `ChainServer` with the variables of `KeyRegistry` (`INSTANCE KeyRegistry WITH
...`): `keyReq` is what a request does with keys, whose texts are here all pairs of a key and a
spelling, and the signers that the registry follows are read off the blocks (`Signed`). A handler
that signs takes its steps of both: `Sign` and `BeginCreate` look the key up in the map, once
(`AdmitKey`); `SignatureSettled` is the step that stores the signature or refuses it. In between the
key may be revoked, and the process may restart. `KeyStep` is a registration or a revocation, which
leaves the chain alone. So a behaviour of `Server` hides to one of `ChainServer` and to one of
`KeyRegistry`, and what each of those two lets happen at any time (any key signs there, any admitted
key gets its signature stored here) is done by the handlers of the other. `Server` has no run: its
two halves have, on instances that the product would shrink, and it is the proofs that need it.

### Consensus

One block, around which keys are registered, revoked, active (`last_seen` within 24 hours) and
silent. Registration and revocation are one step each. `SaveSignature`, `UpdateKeyActivity` (or
`UpdateKeyActivityFails`: the handler ignores the error), `CountKeys` and `BroadcastConsensus` are
the part of `handleSignature` under `blockMu`; `SignOther` is the same handler for other blocks, of
which only the activity matters; both look their key up before they wait for `blockMu`, so any text
that was ever registered may come. Registered and active are texts, signers are keys: a key in two
texts signs once and counts twice among those that a majority is taken of. `Agreed` is how
`handleGetPendingBlocks` judges the block, `AgreedBy` with the number counted before is how
`handleSignature` does, and `ReportedReached` and `ReportedRequired` are two fields of one answer of
`handleGetConsensus`. `Maker` is whose unverified signature came in with `POST /api/blocks`: it
never verifies, since it was made before the hash of the block existed, but it counts for
`HasSignature`.

### NotifyHub

Messages are numbered in the order in which they enter the channel: `sent` and `taken` are its two
ends, so `sent - taken` is its length, and `sending` are the requests that wait at `h.broadcast <-`.
`run` is the goroutine of that name with the connections that `broadcastMessage` copied from the map
and has yet to write to. `clients` is `Hub.clients`; `owner[c]` is the id that a connection came
with, which several connections may share; `stage[c]` is how far `Handler` and
`handleClientMessages` are with it, and `line[c]` what became of the connection.

`sendPeerList` is two steps, `LookUpSelf` and `SendPeerList`, because it writes to the network with
`hub.mu` held for reading; everything else holds `hub.mu` within one step, and those that take it for
writing wait for `MuFree`. `RemoveClient` goes by id: it closes whatever connection has the id by
then. A read that ends with a normal closure leaves the client in the map (`ReadEnds`). A connection
that stalls may stay so for ever: the hub writes with `context.Background()`, and nothing ends it.

### SignerClient

`useWebSocket` is the flag of that name, `checking` the goroutine of `checkPendingBlocks`, `sending`
the calls of `sendSignature` under way, of `processBlock` for an announcement (`notice`) or for the
check (`check`), and of `processOnce` (`poll`). `dropped` records the blocks that `processBlock` or
`checkPendingBlocks` gave up after an error; nothing in the code reads it. Of the server there are
the height of its chain, the announcements not yet sent, which blocks carry the client's
signature, and whether its key is registered (`known`); `quiet` are the blocks of `POST /api/blocks`,
which `handleCreateBlock` does not announce, and `mine` those of them with the unverified entry of
this key, whose signature the server refuses with 409 for ever after.

The dial (`Start`) and the entry into the map of the hub (`AddClient`) are two steps: in between the
server waits for `hub.mu`, and the client, which sleeps two seconds and looks at the last block, does
not wait for it. `missed` records the blocks announced after the look and before the entry.
`SendFails` is a request that does not get through as well as one that is refused. `ProcessOnce`
leaves an agreed block alone when it is told to; when `getConsensusStatus` fails it signs the block
all the same (`ProcessOnceUnsure`).

### P2PNode

A connection is a number; `owner` is the id it is served under: the address of an outbound peer, the
public key of an inbound one. `opener` is the goroutine that opens it (`connectToPeer`,
`handleP2PConnection`), `reader` the one that reads from it (`handleP2PMessages`). `outbound` and
`inbound` are the two maps, `peers` the flag `PeerInfo.Connected`; `recent` are the peers whose
`LastSeen` is less than two minutes old, as far as a map or a flag depends on it; `newest` is history.

| Code | Actions |
|---|---|
| `Start`, `connectToServer` | `ConnectToServer` |
| `connectToPeer` | `ConnectToPeer` and `HandleMessage` name the address, then `Dial` or `DialFails`, `OpenerPlaces`, `Register` |
| `handleP2PConnection` | `Accept`, `OpenerPlaces`, `Register`, `SendPeerList` |
| `handleP2PMessages`, `handleMessage` | `ReadMessage`, `HandleMessage`; `HandlePing`, `SendToPeer`, `PongSent`; `ReadFails` |
| `removePeer` | `ReaderPlaces`, `RemovePeer` |
| `maintenanceLoop`, `checkConnections` | `CheckConnections` |
| `Stop` | `StopNode`, `StopPlaces`, `CloseAll` |

`mu` is modelled as `sync.RWMutex` is: whoever asks for the write lock takes a place first, which
keeps new readers out (`Pending`), and gets the lock when the readers inside have left (`Reading`). A
section under the lock is one step, but for that of `handlePing`: it has the read lock of
`handleMessage`, takes it again in `sendToPeer`, and writes to the network under both.

Left out: what is in blocks and signatures, which are handed to the client; the order of dials of
one address; the pings of `maintenanceLoop`, which copy the connections under the read lock, release
it (`node.go:538`) and write then, and so hold nobody up. The other ends send anything at any time.
The own address is not among `Address`.

### Assumptions

* No two calls of `NewBlock` see the same nanosecond with the same content (hashes are distinct).
* A bbolt transaction is atomic and durable; an `Update` that returns an error changes nothing.
* Reads do not fail. A read error ends the request with an answer and changes nothing.
* A block read back from JSON is the block written (hashes in hexadecimal, timestamps with their
  nanoseconds).
* Whether a signature verifies is a fact of the request, and no signature verifies for a block that
  does not exist yet.
* A write to a WebSocket connection returns when the message was taken over by the other end, or
  when the connection is gone; in `P2PNode` also after the 10 seconds that the code gives it. Closing
  a connection always ends (the library waits five seconds). A read that is cancelled closes its
  connection.
* `os.WriteFile` opens and empties the file in one step; that opening it fails changes nothing and is
  left out. What a call has written stays on disk though the process dies.
* One client has the key; the documentation gives each client its own.
* The races on `useWebSocket`, which two goroutines use without a lock, are those of an atomic flag.

## 3. Runs

| Run | Question | Instance |
|---|---|---|
| `chain_races` | Do the blocks stay one tree, the tip highest and the height index right, and is the store a `Ledger`, while requests race, sign, fail and die? | 2 requests, 1 key, 1 document, 4 blocks |
| `chain_documents` | Do document index, files, metadata and categories agree with the blocks when writes fail, are cut off and repeated? | 2 requests, 1 key, 2 documents, 1 category, 3 blocks; nobody signs |
| `chain_signatures` | Is no signature lost or doubled, are notifications in order, is every request answered? | 2 requests, 2 keys, 1 document, 2 blocks |
| `chain_fork` | Does each height have one block? No. | 2 requests, 1 key, 1 document, 3 blocks |
| `keys` | Does the map of keys follow the database, is a key that is revoked in all its texts out, and is no unknown key ever let in? | 2 requests, 2 keys in 3 texts |
| `keys_revoked` | Is a revoked key refused? No. | 2 requests, 2 keys in 3 texts |
| `consensus` | Can a minority be announced, what undoes an agreement, can keys that are gone hold a block up? | 3 keys in 4 texts |
| `hub` | Does each connected client hear of everything in order, whatever happens to the others, and does announcing end unless somebody holds the hub up? | 1 sender, 2 ids, 2 connections, channel of 1, 3 messages |
| `client` | Which blocks can be forgotten, and is the last block signed in the end, over WebSocket or by polling? | 2 blocks besides genesis |
| `client_late` | Does a client that connects late sign all pending blocks? No. | 2 blocks besides genesis |
| `p2p` | Are the maps and the list of peers true to the connections, who gets the lock, and does `Stop` end everything? | 1 address, 1 key, 2 connections |
| `p2p_stop` | Does `Stop` return? No. | 1 address, 1 key, 2 connections |

The properties of the passing runs, and what would break them:

* `ParentsStored`, `TipIsHighest`, `HeightIndexSound`, `TipExtends`: every maker of a block reads
  the tip long before it saves the child. The chain survives this because `SaveBlock` moves the tip
  to strictly higher blocks alone; a `>=` there, or an index by the last height, breaks them.
* `RefinesLedger`: the store is a `Ledger`, with all its buckets hidden: founded once, whatever the
  number of starts, with keys that never withdraw from a block.
* `DocIndexSound`, `MetadataSound`: an upload is three or four separate writes, and the order of the
  writes in the code is what keeps them true at every crash.
* `UploadedFileKept`, `ListedIsStored`: a block and its metadata are saved only when the writing of the
  file returned without an error, whatever the loop of a bulk upload did before; the file and the
  metadata are written two transactions apart, and an upload of the document to another category may
  come in between. The exception is what the code does not protect: another upload of the same
  document empties the file first (section 5).
* `DocCountCovers`: two transactions count one document, either may fail, be cut off or be repeated,
  and the category may be deleted. The number may be too high (section 5); it is not too low, unless
  the category was created over its documents.
* `OneSignaturePerKey`, `BlocksAppendOnly`, `NotificationsInOrder`: `blockMu` must span the read of
  the block, the duplicate check, the save and the broadcast.
* `RequestsAnswered`: every early return of `handleSignature` gives `blockMu` back. A request that
  stands at the channel of the hub for ever keeps it, and then all the others wait: this is the
  premise of the property, and `AnnouncementsEnd` says when it holds.
* `CacheAgrees`, `SignersKnown`, `RevocationTakesEffect`: two stores of one fact without a common
  lock, and a process that may lose one of them at any time. `RevocationTakesEffect` is about a key
  whose owner revokes every text of it that the server knows; revoking one is not enough (section 5).
* `AnnouncedByMajority`: the count is taken after the signer was made active, and announced later.
* `AgreementKept`: an agreed block goes back to pending only when more keys count than before, or none
  is left; never through a signature, a revocation, a restart, or a key that falls silent while others
  are active (when the last one does, all registered keys count).
* `EventuallyAgreed`: keys that were revoked or fell silent leave the count in the end, so a block
  that all remaining keys have signed is agreed, if the keys that can sign it are two or more and
  outnumber half of the registered texts (the maker bars itself, and second texts count).
* `NothingSkipped`, `ConnectedHears`: `run` passes on one message at a time and goes on after an error.
* `ForgottenIsClosed`: `RemoveClient` may be called for a connection that was replaced long ago, and
  removes the new one; it must close the one that it removes, or a client would sit on an open
  connection and hear nothing.
* `AnnouncementsEnd`: `handleSignature` stands in `BroadcastConsensus` with `blockMu` in its hands. The
  channel drains as long as `hub.mu` is given back on every path, and no write waits for ever for an
  end that does not read (`NobodyHoldsUp`): the code does nothing about that (section 5).
* `NothingForgotten`: the check after connecting and the announcements together leave one gap, though
  the block may be made at any moment around the start of the client: what is announced after the
  look and before the hub has the connection (section 5).
* `LastBlockSettled`: the end of the connection must hand over to the ticker. The exceptions in the
  formula are real: while a connection holds the client does not poll, so it misses genesis, a block
  that was not announced or was announced past it, and one whose signature got lost; and the block
  with the entry of its own key it can never sign.

* `EntriesServed`: a connection may die before it is entered, lose its entry to a newer one, or be
  removed for another of its peer; in each case a goroutine must be left to take the entry out.
* `CountedIsReached`: the flag and the maps are changed by three functions and by the passing of time.
* `NewestInUse`: `removePeer` goes by the id. It may hit the wrong connection, but then it closes it.
* `WritersServed`, `StopEndsAll`: a ping that is handled while somebody asks for the write lock
  stops the node (section 5), and that is the only way in which it can be stopped: in every other
  case the lock is given out, and after `Stop` every connection ends, also one that is entered into
  the maps behind its back.

`PROJECT.json` names for each of these a faulty variant of one definition, which stands in the
module right before the definition it varies, marked `Faulty`; with the variant in place the run
finds the property violated.

### Bounds

* `MaxBlocks` bounds the blocks ever made. Four blocks are genesis and three more: two racing
  siblings and a child of either one, saved before or after its uncle; the fork of `chain_fork`
  needs three. Two are enough for `chain_signatures`, where the races are about one block.
* Two requests at once: every property relates two writers. A bulk upload is a request that makes
  several blocks, so two requests make up to three blocks in any order. Nothing bounds the number
  of requests one after the other.
* Two keys are enough to lose the signature of one to the other. Three keys, one of
  them in two texts, give the thresholds 1 to 3 and, with one of them the maker, a block whose maker
  cannot sign.
* Two texts of one key show what a second text does; more add nothing new to the maps, which compare
  texts for equality alone.
* A text of `Consensus` is registered at most once; `KeyRegistry` has the keys that come again.
* `NotifyHub`: two connections are enough for one to replace, block or outlive the other, under one
  id or under two. A channel of 1 is full whenever it is not empty; with three messages one is being
  passed on, one is in the channel and one waits to enter. One sender waits as well as two do.
* `SignerClient`: with two blocks one can be pending behind the last. The server and the client may
  restart any number of times.
* `Documents`: with one category and the empty one a document is uploaded to two directories, and
  categories do not interact. `NobodySigns` leaves out `handleSignature`, which saves a block with the
  document it had; the proofs do without the constraint.
* `P2PNode`: two connections are enough for one to fail, replace or outlive the other, two at once ask
  for the lock, and a third party, `Stop`, comes on top. An outbound and an inbound peer meet in
  nothing but the lock.
* The proofs show which of the results do not depend on these bounds.

Deadlock is checked in every run but `hub`, where the system really stops when the connections and
messages of the instance are used up. `MCSpec` gives the first connection the first id: ids are
interchangeable. Symmetry is used in the safety
runs of `MCChainServer` and in `MCDocuments`.

### Fairness

* `ChainServer`: weak fairness of the steps of each request that it can take by itself (`Work`:
  goroutines are scheduled), strong fairness of taking `blockMu`: after 1 ms of waiting `sync.Mutex`
  goes into its starvation mode and hands the lock to the longest waiter. The files of a bulk upload
  come to an end (strong fairness of `BulkDone`). The sends to the hub have none: that no request
  stands there for ever is a premise of `RequestsAnswered`. Clients, `Start` and `Crash` have none.
* `KeyRegistry`: weak fairness of the steps of each request; the lock of the map is never held
  across a step.
* `Consensus`: the 24 hours of a text that is no longer registered pass, and the requests that found
  it in the map before it was revoked come to an end. Nothing else is assumed, not even that the
  server makes progress.
* `NotifyHub`: strong fairness of `run`, of entering the channel and of the goroutine of each
  connection: a channel and a `sync.RWMutex` serve those that wait in turn, so a steady stream of
  others does not keep anyone out. Nothing is assumed of the other ends: that none of them stalls for
  ever while the hub writes to it is a premise of the two liveness properties (`NobodyHoldsUp`).
* `SignerClient`: weak fairness of each goroutine of the client, of the ticker and of the end of each
  request. Nothing is assumed of the server, which may never take the connection or announce a block,
  nor that client or server start or stay up: `LastBlockSettled` speaks of behaviours in which both
  stay up and the key registered, and has as a premise that of the requests of the ticker which the
  server would accept not every one fails (`NotEveryPollFails`).
* `P2PNode`: weak fairness of both goroutines of each connection and of `Stop` (a place in the queue of
  the lock is kept, a write ends after 10 seconds), and strong fairness of the end of a connection that
  is being read from with a cancelled context. Peers owe nothing, and nobody is assumed to call `Stop`.

## 4. Proofs

TLAPS proves, for any number of requests, keys, documents and blocks:

| Theorem | Module | States |
|---|---|---|
| `TypeCorrect` | `ChainServerProofs` | `TypeOK` |
| `ChainSound` | | `ParentsStored`, `TipIsHighest`, `HeightIndexSound` |
| `DocumentsSound` | | `DocIndexSound`, `MetadataSound` |
| `SignedOnce` | | `OneSignaturePerKey` |
| `TipOnlyExtends` | | `TipExtends` |
| `OnlyAppended` | | `BlocksAppendOnly` |
| `CountsInOrder` | | `NotificationsInOrder` |
| `ImplementsLedger` | | `RefinesLedger` |
| `ChainIsNumbered` | | `OneOfEachHeightOnChain`: what remains of `OneBlockPerHeight` (section 5). It follows from `ParentsStored` by induction on the height, which TLC need not be asked again |
| `ChainOnlyGrows` | | what is on the chain of the tip stays on it, at its height |
| `SignaturesAreKeys` | | the valid signatures of a block are as many different keys |
| `SignedKeyByKey` | | a step adds at most one key to the signers of a block, and never one that has an entry |
| `MapAgrees`, `NoUnknownSigner` | `KeyRegistryProofs` | `CacheAgrees`, `SignersKnown` |
| `DocumentsAreChain` | `DocumentsProofs` | every behaviour of `Documents` is one of `ChainServer` |
| `DocumentsKept` | | `DocIndexSound`, `MetadataSound`, `OneOfEachHeightOnChain`, `RefinesLedger`, of `Documents` |
| `FilesKept`, `ListedStored` | | `UploadedFileKept`, `ListedIsStored` |
| `DocCountsBounded` | | `DocCountCovers`, and `DocCountAtMostTwice`: no more than two for every block of a document |
| `MajorityAnnounced` | `ConsensusProofs` | `AnnouncedByMajority` |
| `AgreementUndoneByNewKeys` | | `AgreementKept` |
| `ThresholdAsDocumented` | | the threshold is `ceil(total * 0.51)` exactly for up to 50 keys and for even numbers up to 100, never more, always a majority |
| `ReportDiffersForOneKey` | | `ReportConsistent` fails, and the report differs from the other judgements, when one key counts and one has signed, and in no other state |
| `ServerIsChain`, `ServerIsRegistry` | `ServerProofs` | every behaviour of `Server` is one of `ChainServer`, and one of `KeyRegistry` |
| `OnlyRegisteredSign` | | every key with a signature in a stored block is or was registered, in one text or another |
| `AgreedByTwoRegistered` | | an agreed block has valid signatures of two keys that are or were registered |
| `AgreedBlocksMeet` | | two blocks that are agreed by the same keys have a signer in common |
| `InOrder`, `NobodyForgotten` | `NotifyHubProofs` | `NothingSkipped`, `ForgottenIsClosed` |
| `NoGap` | `SignerClientProofs` | `NothingForgotten` |
| `EntriesAlwaysServed`, `CountedPeersReached` | `P2PNodeProofs` | `EntriesServed`, `CountedIsReached` |
| `NewestConnectionInUse` | | `NewestInUse` |

and `TypeCorrect`, the type invariant, in each of these modules but `DocumentsProofs`, where it is a
part of `DocInductive`, and `ServerProofs`, where it is that of its two halves.

From which assumptions: those on the constants (`ConstantsAssumption`, `TextAssumption`,
`CategoryAssumption`): `Nobody` is neither a thread nor a key, `MaxBlocks` is positive, a text has a
key, in `Consensus` keys and texts and in `NotifyHub` the senders are finitely many, the channel
holds at least one message, the empty category is none, and in `P2PNode` no address is a public key.

**ChainServer.** None of the properties is inductive, for they speak of the disk while the danger is
in the hands of the requests. The invariant `Inductive` adds to them:

* `DiskTypes`, `ProcessTypes`, `LifeCycle`: types, which steps go with which kind of request, and
  that a process that is down has no requests and no lock;
* `BuiltBlocks`: a block that was built and not yet stored has a hash of its own, and hangs on a
  stored block one lower. It may be lower than the tip by now, which is all that a race can do;
* `BuiltContent`, `UploadsKept`: it has at most an unverified signature, and it is of a document, or it
  came by `POST /api/blocks`; once saved it is stored, with that document, while its upload goes on;
* `LockProtects`: a request between the lock and the answer is the one that holds `blockMu`, and its
  copy is the stored block, with one more signature until it is stored.

Each action has a lemma. Most of the work is in `SaveBlock`, which is proved once for the two ways
it is called: a new block with a stored parent, and a stored block with a signature added. The
refinement rests on `StepEffect`: a step adds a block under a stored parent and moves the tip to it
or not, adds a signer to a block, or leaves the ledger as it was.

**The chain of a block.** `Chain(h)` is what is in every set of blocks that has `h` and, with a block,
its parent. Walking back along `prev` would be induction over data, which the prover cannot do; with
closed sets the chain of a new block is that of its parent and the block itself, and the induction is
over the steps of the server. `ChainsNumbered`, every chain has one block of each height, is inductive
as it stands; at the tip it is `OneOfEachHeightOnChain`.

**What is counted.** The consensus counts entries (`ValidSignatures`), while the argument about
majorities is about keys. `MakerFirst`, an entry that does not verify is the first of its block, and
`OneSignaturePerKey` make the entries and the keys equally many (`EntriesCountKeys`), so
`Consensus`, which has the signers as a set, speaks of the blocks of `ChainServer`.

**Documents.** `DocumentsAreChain` carries over whatever is proved of `ChainServer`: each step of
`Documents` is one of its steps or leaves its variables alone. `DocInductive` has the files of the
requests under way (`FilesInPlace`) for `UploadedFileKept` and `ListedIsStored`: a request that is
past the writing leaves a complete file, and of several that write one file the one that finds it
emptied knows that another will, or did, complete it. For `DocCountAtMostTwice` it keeps an account,
`CountNotMore`: a stored block is worth two counts, an upload that has stored its block and not
reached the metadata holds both, one that still owes the second holds one. The work is in the
cardinalities: every step adds to or takes from these sets one thread.

**KeyRegistry.** `Inductive` adds that the key of a registration under way, or of a request that
passed the key check, is or was registered (`RequestsKnown`), and that a revocation that waits for
the map has its key revoked in the database.

**Server.** `ServerStepIsStep` is immediate. For the registry the two sides of a request must agree
(`HandsAgree`): whenever the chain side is about to add a signature, the key side holds that key,
admitted, and it holds nothing when the chain side adds none. Then the step in which `Signed` gains a
key is a `SaveSignature`, every other step of the chain is a stutter, and the theorems of
`KeyRegistryProofs`, instantiated with the same substitution, hold of the server. With
`SignaturesAreKeys` and the thresholds this reaches from the registration of a key to its vote:
`AgreedByTwoRegistered`. `AgreedBlocksMeet` is about the forks of section 5: two blocks of one height
can both be agreed, but, judged by one set of keys that has all their signers, only with a key that
signed both. The condition on the signers is needed, for the code counts the signatures of keys
that were revoked or fell silent, which are no longer among the keys they are compared with.

**Consensus.** `CountStands`: from the moment it counts the active keys until it announces, the
holder of `blockMu` sees them only become fewer. With the arithmetic of the threshold (`AgreedMeans`)
this gives the majority. `AgreementKept` needs no invariant but the types: the required number does
not grow unless more keys count, and verified signatures are never taken away.

**Notifications.** `CountsBacked` goes on top of `Inductive`: no count was announced that the stored
block does not bear out, and between save and announcement the local copy is the stored block.

**NotifyHub.** `InStep` is the heart: an open connection in the map has got the message before that
of the round if the round has yet to come to it, and the one of the round otherwise. A connection
that was replaced while it was due is written to once more and falls behind then, but it never comes
back (`Rounds`: only new connections are added). `UnderOwnId` finds the connection that
`RemoveClient` closes.

**SignerClient.** `PollsWithoutConnection`: the ticker has nothing under way while a connection is in
use, so a signature that gets lost then was one of `processBlock` and counts as dropped.

**P2PNode.** `Inductive` is the three properties with the types and `LifeCycle` (a connection has a
reader only once it was entered). They hold each other up: that the entry of a peer is its newest
connection or that one is closed follows from `removePeer` closing what it takes out, and an entry has
a live reader since a reader that ends has taken out whatever was under its id.

Model-checked and not proved: `RequestsAnswered`, `RevocationTakesEffect`, `EventuallyAgreed`,
`ConnectedHears`, `AnnouncementsEnd`, `LastBlockSettled`, `WritersServed`, `StopEndsAll`. They are
liveness, which the prover does not reach.

## 5. What the code does not keep

* `OneBlockPerHeight` (run `chain_fork`): `handleUpload`, `handleBulkUpload` and `handleCreateBlock`
  read the last block and save its successor without a lock. Two requests make two blocks of one
  height. One of them is off the chain for good, and the height index names whichever was saved, or
  signed, last. The comments call the height the number of the block (`block.go:29`).
* `RevokedKeyRefused` (run `keys_revoked`): registration does not look at revocations. A revoked key
  that is registered again signs, and cannot be revoked again. So does one that reached the map after
  its revocation, and one that was registered in two texts and revoked in one: map and buckets go by
  the text of the request (`main.go:411`, `417`, `512`, `1138`). `CHANGES.md:262` promises an error.
* `StopReturns` (run `p2p_stop`): `handleMessage` holds the read lock (`node.go:343`) while `handlePing`
  takes it again in `sendToPeer` (`node.go:482`). A `Register`, `removePeer` or `Stop` that asks for the
  write lock in between waits for the first and keeps out the second (`Stuck`), for good. `Stop`
  "останавливает P2P узел" (`node.go:609`), and the shutdown of the client does not return
  (`cmd/client/main.go:353` says that it stops the client properly).
* `PendingBlocksSigned` (run `client_late`): `checkPendingBlocks` asks for the last block alone. A
  client that connects after two blocks were made signs the second and never the first, though
  `docs/ARCHITECTURE.md:296-304` has it ask for `/api/blocks/pending` and sign what it finds.

Nothing opens the WebSocket connection of a client again, although `README.md:112` and
`CHANGELOG.md:105` speak of a reconnect: in `SignerClient` only `Start` opens it, and polling is what
remains, as `LastBlockSettled` shows.

What the models and the proofs make visible and has no run of its own:

* `GET /api/blocks/{hash}/consensus` raises `required` to 2 and not the verdict, which
  `docs/ARCHITECTURE.md:243` defines by the number: `ReportConsistent` fails when one key counts and
  has signed, and in no other state (`ReportDiffersForOneKey`).
* Another upload of a document empties the PDF of a block that is stored, and when it fails, or the
  process dies in the middle of it, the PDF is gone (`main.go:713`, `888`). So it is when two uploads
  write one file at once, and the one that emptied it last fails.
* A peer of the hub that stays connected and does not read holds up `run`, or a handler in
  `sendPeerList` with `hub.mu` in its hands; the channel fills up, and a `handleSignature` that stands
  at it keeps `blockMu`: without the premise `NobodyHoldsUp` neither `AnnouncementsEnd` nor
  `ConnectedHears` holds, and `RequestsAnswered` fails with them.
* A block that is announced after the client has looked at the last block and before the hub has its
  connection, for which two seconds are usually enough, is seen by neither. It is signed when the
  client starts again and the block is still the last, or when the connection ends.
* The ticker sends again at every tick what the server will always refuse: the last block, when it came
  by `POST /api/blocks` with this key (409), or anything while the key is not registered (401, 403).
* A key that is registered in two texts counts as two in the number that a majority is taken of, and
  signs once.

Of the P2P node:

* A peer that was lost is not dialled again (`docs/P2P_PROTOCOL.md:191-197` says it is), and a peer
  list makes the node dial addresses it is connected to.
* `LastSeen` is set when a peer is entered and never again, so every peer that stays longer than two
  minutes is shown as not connected, though signatures are sent to it: hence `recent` in
  `CountedIsReached`. When `GET /api/peers` fails at the start, `maintenanceLoop` does not run at all.
* A signature that comes over P2P is logged; `docs/P2P_PROTOCOL.md:105-108` has it checked, kept and
  passed on.

Of the categories: `DocCount`, "the number of documents" (`storage.go:57`), counts each document of a
bulk upload twice, counts it again when it is uploaded again, is not lowered when a document moves to
another category, and goes to zero when a category is created again. `DocCountCovers` and
`DocCountAtMostTwice` are what remains.

The formula of the documentation, `ceil(total * 0.51)`, and `total / 2 + 1` of the code are equal for
up to 50 keys and for even numbers up to 100, and for all others the code asks for less, first at 51
with 26 for 27 (`ThresholdAsDocumented`); the model follows the code, which asks
for a majority all the same, and `AnnouncedByMajority` holds of it.

## 6. Not modelled

* Cryptography, key files, the command line tools, the web pages, basic authentication,
  configuration, logging and metrics: they share no state that a decision of the others depends on.
* Reads, but for those that handlers act on: a read transaction sees one state of the database, and
  the invariants say what that state is.
* `GET /api/documents/{hash}` serves the file under the hash from the upload directory; documents that
  were uploaded with a category are written elsewhere and are not found by it (`main.go:789`).
* `GET /api/blocks/{hash}` and the pending list give copies of blocks that nobody acts on but the
  client, whose view of them is in `SignerClient`.
* Of the hub: what clients send to it (it is logged) and a client without a key, whose handler ends
  in a panic at `hub.go:272`. Of the client: oneshot mode, which is one step of the ticker, and the
  webhook of self-healing, and the signatures that come over P2P, which it logs.
* Of the P2P node: `SetBlockHandler` and `SetSignatureHandler`, which run before anything else, and the
  reports `GetPeerCount` and `GetPeers`. Several nodes together: a node takes whatever the others
  send, and `P2PNode` lets them send anything.
* Of the categories: their names and descriptions, and the lists that are only shown.

## 7. Plan

Every part of the program that keeps shared state is modelled. What is left:

1. Proofs: that the announcements of `ChainServer` are the sends of `NotifyHub`, as `Server` does it for
   the keys, and that each block of `Server` goes through the steps of `Consensus` (its signatures do,
   by `SignedKeyByKey`; the activity of keys is only in `Consensus`); an abstract specification of
   ordered delivery that `NotifyHub` implements.
2. Larger instances of `p2p` (a third connection) and of `chain_documents` (a second category), as far
   as the time for a run allows; the proofs already cover their safety.
3. Liveness stays with TLC.
