----------------------------- MODULE ChainServer -----------------------------
(***************************************************************************)
(* The block chain of the ChainDocs server: the buckets of                 *)
(* internal/storage/storage.go that hold it and the handlers of            *)
(* cmd/server/main.go that write it, run by concurrent requests.           *)
(*                                                                         *)
(* net/http runs every request in a goroutine of its own, here a thread of *)
(* Thread.  A handler is a sequence of steps: each step is one bbolt       *)
(* transaction, the reading and writing of one file, or one use of the     *)
(* channel of the WebSocket hub, and other requests run between two steps. *)
(* handleSignature holds blockMu across its steps; the handlers that make  *)
(* blocks take no lock.  The process may be killed between any two steps;  *)
(* the database survives.  The files on disk, and how one is written, are  *)
(* the business of module Documents.                                       *)
(*                                                                         *)
(* Which keys are registered is the business of module KeyRegistry: here   *)
(* any key may pass the check that opens a handler, which includes every   *)
(* behaviour of a server whose keys come and go.                           *)
(***************************************************************************)
EXTENDS Bucket, Block

CONSTANTS
  Thread,     \* the requests that may be served at once
  Key,        \* public keys
  Doc,        \* document hashes that clients send
  ZeroDoc,    \* the all-zero document hash of the genesis block
  Nobody,     \* neither a thread nor a key
  MaxBlocks   \* bound: how many blocks are ever made, genesis included

ASSUME ConstantsAssumption ==
  /\ Nobody \notin Thread
  /\ Nobody \notin Key
  /\ MaxBlocks \in Nat \ {0}

VARIABLES
  \* durable: the database
  blocks,      \* bucket "blocks": hash -> block
  heightIdx,   \* bucket "height": height -> hash
  docIdx,      \* bucket "documents": document -> hash
  lastHash,    \* meta "last_hash", ZeroHash when absent
  lastHeight,  \* meta "last_height", 0 when absent
  docMeta,     \* bucket "documents_meta": document -> block hash
  \* volatile: the server process
  up,          \* the process runs
  blockMu,     \* the thread that holds Server.blockMu, or Nobody
  req,         \* what each thread is doing
  notified,    \* block hash -> the last signature count broadcast for it
  \* the environment
  clock        \* the timestamp of the last NewBlock

disk == <<blocks, heightIdx, docIdx, lastHash, lastHeight, docMeta>>
vars == <<disk, up, blockMu, req, notified, clock>>

Hash    == 1..MaxBlocks
AnyDoc  == Doc \cup {ZeroDoc}
Sig     == [key : Key, valid : BOOLEAN]
Blocks  == [hash : Nat, height : Nat, prev : Nat, doc : AnyDoc, sigs : Seq(Sig)]
Steps   == {"idle", "filed", "built", "stored", "announced", "next",
            "checked", "locked", "signed"}
Request == [op : {"none", "upload", "bulk", "create", "sign"}, step : Steps,
            block : Blocks, key : Key \cup {Nobody}, valid : BOOLEAN]

\* Before a handler has a block it knows a hash or a document alone.
NoBlock   == NewBlock(ZeroHash, 0, ZeroHash, ZeroDoc)
Naming(h) == NewBlock(h, 0, ZeroHash, ZeroDoc)
Holding(d) == NewBlock(ZeroHash, 0, ZeroHash, d)

NewRequest(op, s, b, k, valid) ==
  [op |-> op, step |-> s, block |-> b, key |-> k, valid |-> valid]
NoRequest == NewRequest("none", "idle", NoBlock, Nobody, FALSE)

\* The thread starts on a request; it reaches step s with b as the block in its
\* hands; its handler returns, and nothing is kept.
Enter(t, r)   == req' = [req EXCEPT ![t] = r]
Goto(t, s, b) == req' = [req EXCEPT ![t].step = s, ![t].block = b]
Respond(t)    == req' = [req EXCEPT ![t] = NoRequest]

\* The bound of the model: a request that makes a block starts only if a hash
\* is left for it beside those of the requests that will need one.
Room == clock + Cardinality({t \in Thread : req[t].step = "filed"}) < MaxBlocks

------------------------------------------------------------------------------
(* storage.go *)

\* Faulty variants, which the mutant runs put in place of the definition that
\* follows them, here and below: the tip moves on a tie; it moves always.
MovesTipOnTie(b) == b.height >= lastHeight
MovesTipAlways(b) == TRUE

MovesTip(b) == b.height > lastHeight

\* Faulty: every save is taken for a new highest block.
IndexHeightAtEnd(b) == heightIdx' = Put(heightIdx, lastHeight + 1, b.hash)

IndexHeight(b) == heightIdx' = Put(heightIdx, b.height, b.hash)

\* Faulty: the index is written together with the tip only.
IndexDocumentOfTip(b) ==
  docIdx' = IF MovesTip(b) THEN Put(docIdx, b.doc, b.hash) ELSE docIdx

IndexDocument(b) == docIdx' = Put(docIdx, b.doc, b.hash)

\* One transaction.  The block is written whole under its hash; both indexes
\* are overwritten; the tip moves only to a strictly greater height.
SaveBlock(b) ==
  /\ blocks' = Put(blocks, b.hash, b)
  /\ IndexHeight(b)
  /\ IndexDocument(b)
  /\ IF MovesTip(b)
       THEN lastHash' = b.hash /\ lastHeight' = b.height
       ELSE UNCHANGED <<lastHash, lastHeight>>

\* GetLastBlock.  Its two read transactions are one step here: between them
\* nothing removes a block or changes the part of it that is used.
LastBlock == blocks[lastHash]

\* Faulty: the height is not incremented.
NextBlockSameHeight(d) == NewBlock(clock + 1, LastBlock.height, LastBlock.hash, d)

\* NewBlock(last.Height+1, last.Hash, docHash), at its own nanosecond.
NextBlock(d) == NewBlock(clock + 1, LastBlock.height + 1, LastBlock.hash, d)

\* Faulty: every start makes a genesis block.
InitGenesisAgain ==
  LET genesis == NewBlock(clock + 1, 0, ZeroHash, ZeroDoc) IN
  /\ blocks' = Put(blocks, genesis.hash, genesis)
  /\ heightIdx' = Put(heightIdx, 0, genesis.hash)
  /\ lastHash' = genesis.hash
  /\ lastHeight' = 0
  /\ clock' = clock + 1

\* One transaction, which does nothing when the bucket holds a block.  The
\* document index gets no entry.
InitGenesis ==
  IF DOMAIN blocks # {}
    THEN UNCHANGED <<blocks, heightIdx, lastHash, lastHeight, clock>>
    ELSE LET genesis == NewBlock(clock + 1, 0, ZeroHash, ZeroDoc) IN
         /\ blocks' = Put(blocks, genesis.hash, genesis)
         /\ heightIdx' = Put(heightIdx, 0, genesis.hash)
         /\ lastHash' = genesis.hash
         /\ lastHeight' = 0
         /\ clock' = clock + 1

------------------------------------------------------------------------------
(* handleUpload, handleBulkUpload and handleCreateBlock *)

\* A file of the request is read and its write begins; bulk goes through its files
\* one by one and comes back here for each.
ReceiveFile(t, op, d) ==
  /\ up /\ Room
  /\ \/ req[t].step = "idle"
     \/ req[t].step = "next" /\ op = "bulk"
  /\ Enter(t, NewRequest(op, "filed", Holding(d), Nobody, FALSE))
  /\ UNCHANGED <<disk, up, blockMu, notified, clock>>

\* Writing the file fails, or GetLastBlock does: an upload answers 500, bulk goes
\* on with the next file.
UploadFails(t) ==
  /\ req[t].step = "filed"
  /\ IF req[t].op = "bulk" THEN Goto(t, "next", NoBlock) ELSE Respond(t)
  /\ UNCHANGED <<disk, up, blockMu, notified, clock>>

\* GetLastBlock and NewBlock: the new block is local to the thread.
BuildBlock(t) ==
  /\ req[t].step = "filed"
  /\ clock < MaxBlocks
  /\ clock' = clock + 1
  /\ Goto(t, "built", NextBlock(req[t].block.doc))
  /\ UNCHANGED <<disk, up, blockMu, notified>>

\* POST /api/blocks: the same without a file, with the signature of the caller
\* added unverified.  It cannot verify: it was made before the hash existed.
BuildSignedBlock(t, k, d) ==
  /\ up /\ Room
  /\ req[t].step = "idle"
  /\ clock < MaxBlocks
  /\ clock' = clock + 1
  /\ Enter(t, NewRequest("create", "built", AddSignature(NextBlock(d), k, FALSE),
                         Nobody, FALSE))
  /\ UNCHANGED <<disk, up, blockMu, notified>>

StoreBlock(t) ==
  /\ req[t].step = "built"
  /\ SaveBlock(req[t].block)
  /\ IF req[t].op = "create"
       THEN Respond(t)
       ELSE Goto(t, "stored", req[t].block)
  /\ UNCHANGED <<docMeta, up, blockMu, notified, clock>>

\* Faulty: bulk lacks the "continue" after the error.
StoreBlockFailsAndGoesOn(t) ==
  /\ req[t].step = "built"
  /\ IF req[t].op = "bulk" THEN Goto(t, "announced", req[t].block) ELSE Respond(t)
  /\ UNCHANGED <<disk, up, blockMu, notified, clock>>

\* SaveBlock returns an error: an upload answers 500, bulk goes on with the
\* next file.
StoreBlockFails(t) ==
  /\ req[t].step = "built"
  /\ IF req[t].op = "bulk" THEN Goto(t, "next", NoBlock) ELSE Respond(t)
  /\ UNCHANGED <<disk, up, blockMu, notified, clock>>

\* BroadcastBlock: the queue of the hub is the business of module NotifyHub.
AnnounceBlock(t) ==
  /\ req[t].step = "stored"
  /\ IF req[t].op = "bulk"
       THEN Goto(t, "announced", req[t].block)
       ELSE Respond(t)
  /\ UNCHANGED <<disk, up, blockMu, notified, clock>>

\* Faulty: key and value are swapped.
SaveMetadataSwapped(t) ==
  /\ req[t].step = "announced"
  /\ docMeta' = Put(docMeta, req[t].block.hash, req[t].block.doc)
  /\ Goto(t, "next", NoBlock)
  /\ UNCHANGED <<blocks, heightIdx, docIdx, lastHash, lastHeight,
                 up, blockMu, notified, clock>>

\* SaveDocumentMetadataWithCategory; the counters of the category are the
\* business of module Documents.
SaveMetadata(t) ==
  /\ req[t].step = "announced"
  /\ docMeta' = Put(docMeta, req[t].block.doc, req[t].block.hash)
  /\ Goto(t, "next", NoBlock)
  /\ UNCHANGED <<blocks, heightIdx, docIdx, lastHash, lastHeight,
                 up, blockMu, notified, clock>>

\* Its error is ignored.
SaveMetadataFails(t) ==
  /\ req[t].step = "announced"
  /\ Goto(t, "next", NoBlock)
  /\ UNCHANGED <<disk, up, blockMu, notified, clock>>

BulkDone(t) ==
  /\ req[t].step = "next"
  /\ Respond(t)
  /\ UNCHANGED <<disk, up, blockMu, notified, clock>>

------------------------------------------------------------------------------
(* handleSignature *)

\* The key passes the check against pubKeys; the request names the block h,
\* ZeroHash standing for a hash that no block has.  Whether the signature
\* verifies is a fact of the request.
BeginSign(t, h, k, valid) ==
  /\ up
  /\ valid => h # ZeroHash
  /\ req[t].step = "idle"
  /\ Enter(t, NewRequest("sign", "checked", Naming(h), k, valid))
  /\ UNCHANGED <<disk, up, blockMu, notified, clock>>

Signable(t) ==
  LET h == req[t].block.hash IN
  /\ h \in DOMAIN blocks
  /\ ~HasSignature(blocks[h], req[t].key)
  /\ req[t].valid

\* Faulty: the handler takes no lock.
NoLock == TRUE

LockFree == blockMu = Nobody

\* blockMu.Lock, GetBlock, the checks, and AddSignature on the local copy.
LockAndSign(t) ==
  /\ req[t].step = "checked"
  /\ LockFree
  /\ Signable(t)
  /\ blockMu' = t
  /\ Goto(t, "locked", AddSignature(blocks[req[t].block.hash], req[t].key, TRUE))
  /\ UNCHANGED <<disk, up, notified, clock>>

\* Faulty: an early return without Unlock.
LockAndRejectHolding(t) ==
  /\ req[t].step = "checked"
  /\ LockFree
  /\ ~Signable(t)
  /\ blockMu' = t
  /\ Respond(t)
  /\ UNCHANGED <<disk, up, notified, clock>>

\* The same, when a check fails: 404, 409 or 401, and the deferred Unlock.
LockAndReject(t) ==
  /\ req[t].step = "checked"
  /\ LockFree
  /\ ~Signable(t)
  /\ Respond(t)
  /\ UNCHANGED <<disk, up, blockMu, notified, clock>>

\* Faulty: the lock is given back before the broadcast.
StoreSignatureUnlocking(t) ==
  /\ req[t].step = "locked"
  /\ SaveBlock(req[t].block)
  /\ Goto(t, "signed", req[t].block)
  /\ blockMu' = Nobody
  /\ UNCHANGED <<docMeta, up, notified, clock>>

\* The whole block is written back.
StoreSignature(t) ==
  /\ req[t].step = "locked"
  /\ SaveBlock(req[t].block)
  /\ Goto(t, "signed", req[t].block)
  /\ UNCHANGED <<docMeta, up, blockMu, notified, clock>>

StoreSignatureFails(t) ==
  /\ req[t].step = "locked"
  /\ blockMu' = Nobody
  /\ Respond(t)
  /\ UNCHANGED <<disk, up, notified, clock>>

\* BroadcastConsensus with the count of the local copy, under blockMu, a send that
\* may wait for ever; then the answer and the deferred Unlock.  The activity of
\* the key and the number of signatures required are the business of module
\* Consensus.
AnswerSignature(t) ==
  /\ req[t].step = "signed"
  /\ notified' = Put(notified, req[t].block.hash, ValidSignatures(req[t].block))
  /\ blockMu' = Nobody
  /\ Respond(t)
  /\ UNCHANGED <<disk, up, clock>>

------------------------------------------------------------------------------
(* The process *)

\* main: storage.New, InitGenesis, NewServer.
Start ==
  /\ ~up
  /\ up' = TRUE
  /\ InitGenesis
  /\ UNCHANGED <<docIdx, docMeta, blockMu, req, notified>>

\* The process dies; requests get no answer, mutexes and queues are gone.
Crash ==
  /\ up
  /\ up' = FALSE
  /\ blockMu' = Nobody
  /\ req' = [t \in Thread |-> NoRequest]
  /\ notified' = EmptyBucket
  /\ UNCHANGED <<disk, clock>>

Init ==
  /\ blocks = EmptyBucket /\ heightIdx = EmptyBucket /\ docIdx = EmptyBucket
  /\ lastHash = ZeroHash /\ lastHeight = 0
  /\ docMeta = EmptyBucket
  /\ up = FALSE /\ blockMu = Nobody
  /\ req = [t \in Thread |-> NoRequest]
  /\ notified = EmptyBucket
  /\ clock = 0

\* A client asks for something.
Arrive(t) ==
  \/ \E op \in {"upload", "bulk"}, d \in Doc : ReceiveFile(t, op, d)
  \/ \E k \in Key, d \in Doc : BuildSignedBlock(t, k, d)
  \/ \E h \in DOMAIN blocks \cup {ZeroHash}, k \in Key, valid \in BOOLEAN :
       BeginSign(t, h, k, valid)

\* The handler of t goes on by itself.
Work(t) ==
  \/ UploadFails(t) \/ BuildBlock(t) \/ StoreBlock(t) \/ StoreBlockFails(t)
  \/ SaveMetadata(t) \/ SaveMetadataFails(t) \/ BulkDone(t)
  \/ LockAndSign(t) \/ LockAndReject(t) \/ StoreSignature(t) \/ StoreSignatureFails(t)

\* It gets a message into the channel of the hub, for which it may have to wait as
\* long as there is no room.
Send(t) == AnnounceBlock(t) \/ AnswerSignature(t)

Proceed(t) == Work(t) \/ Send(t)

Next == Start \/ Crash \/ \E t \in Thread : Arrive(t) \/ Proceed(t)

Spec == Init /\ [][Next]_vars

\* Goroutines are scheduled.  A goroutine that waits for blockMu while others
\* keep taking it gets it in the end: sync.Mutex hands the lock to its longest
\* waiter after 1 ms.  The files of a request come to an end.  Nothing makes a
\* full channel of the hub take a message.
Fairness ==
  \A t \in Thread : /\ WF_vars(Work(t))
                    /\ SF_vars(LockAndSign(t) \/ LockAndReject(t))
                    /\ SF_vars(BulkDone(t))

FairSpec == Spec /\ Fairness

------------------------------------------------------------------------------
(* Properties *)

\* Every variable holds a value of its kind.
TypeOK ==
  /\ IsBucket(blocks, Hash, Blocks)
  /\ IsBucket(heightIdx, Nat, Hash)
  /\ IsBucket(docIdx, AnyDoc, Hash)
  /\ lastHash \in Nat
  /\ lastHeight \in Nat
  /\ IsBucket(docMeta, Doc, Hash)
  /\ up \in BOOLEAN
  /\ blockMu \in Thread \cup {Nobody}
  /\ req \in [Thread -> Request]
  /\ IsBucket(notified, Hash, Nat)
  /\ clock \in Nat

\* Whatever the races between uploads: a stored block hangs on a stored block
\* one lower, so following prev_hash from any block reaches the one genesis
\* block without a hole (BuildBlock reads the tip long before StoreBlock).
ParentsStored ==
  \A h \in DOMAIN blocks :
    LET b == blocks[h] IN
    /\ b.hash = h
    /\ IF b.height = 0
         THEN b.prev = ZeroHash /\ \A g \in DOMAIN blocks : blocks[g].height = 0 => g = h
         ELSE b.prev \in DOMAIN blocks /\ blocks[b.prev].height = b.height - 1

\* What is in a set with block h whenever the set holds with a block also its
\* parent: the blocks that h is made on, back to the genesis block, and h itself.
Closed(S) == \A x \in S : blocks[x].prev \in S \cup {ZeroHash}
Chain(h)  == {a \in DOMAIN blocks :
                \A S \in SUBSET DOMAIN blocks : h \in S /\ Closed(S) => a \in S}

\* Several blocks may have one height, as two uploads that read the same tip make
\* them.  All the same the chain that ends at last_hash has exactly one block of
\* every height up to last_height: whichever of them was first, the others are
\* not on it, nor is what was made on them.
NumberedChain(h) ==
  \A n \in 0..blocks[h].height :
    \E a \in Chain(h) : /\ blocks[a].height = n
                       /\ \A b \in Chain(h) : blocks[b].height = n => b = a
OneOfEachHeightOnChain == lastHash \in DOMAIN blocks => NumberedChain(lastHash)

\* last_hash names a stored block of height last_height and no block is
\* higher, although blocks are saved late, out of order and again with every
\* signature.
TipIsHighest ==
  DOMAIN blocks # {} =>
    /\ lastHash \in DOMAIN blocks
    /\ blocks[lastHash].height = lastHeight
    /\ \A h \in DOMAIN blocks : blocks[h].height <= lastHeight

\* GET /api/blocks/height/n finds a block, of height n, for exactly the heights
\* up to last_height.
HeightIndexSound ==
  /\ DOMAIN blocks # {} => DOMAIN heightIdx = 0..lastHeight
  /\ \A n \in DOMAIN heightIdx :
       heightIdx[n] \in DOMAIN blocks /\ blocks[heightIdx[n]].height = n

\* GetBlockByDocument finds a block of the document for every document that
\* has one, the genesis block apart.
DocIndexSound ==
  /\ \A h \in DOMAIN blocks : blocks[h].height > 0 => blocks[h].doc \in DOMAIN docIdx
  /\ \A d \in DOMAIN docIdx : docIdx[d] \in DOMAIN blocks /\ blocks[docIdx[d]].doc = d

\* A key signs a block at most once, although two requests of the key may pass
\* the duplicate check one after the other: the counts of the consensus add up
\* entries.
OneSignaturePerKey ==
  \A h \in DOMAIN blocks : \A i, j \in DOMAIN blocks[h].sigs :
    blocks[h].sigs[i].key = blocks[h].sigs[j].key => i = j

\* Metadata of a document names a stored block of that document, also when
\* saving the block failed or the process died in the middle of a bulk upload.
MetadataSound ==
  \A d \in DOMAIN docMeta :
    docMeta[d] \in DOMAIN blocks /\ blocks[docMeta[d]].doc = d

IsPrefixOf(s, u) == Len(s) <= Len(u) /\ \A i \in 1..Len(s) : u[i] = s[i]

\* A stored block never disappears and never changes but for signatures added
\* at its end: no signature that was answered with 200 is ever lost, although
\* handleSignature writes whole blocks back.
BlocksAppendOnly ==
  [][\A h \in DOMAIN blocks :
       /\ h \in DOMAIN blocks'
       /\ Core(blocks'[h]) = Core(blocks[h])
       /\ IsPrefixOf(blocks[h].sigs, blocks'[h].sigs)]_vars

\* The chain seen from the tip only grows at its end: a new tip is the child of
\* the old one, whatever blocks were saved since the tip was read.
TipExtends ==
  [][lastHash' # lastHash =>
       /\ blocks'[lastHash'].prev = lastHash
       /\ lastHash # ZeroHash => lastHeight' = lastHeight + 1]_vars

\* Clients hear of the signatures of a block in the order they were saved: the
\* count that BroadcastConsensus reports for it never goes back.
NotificationsInOrder ==
  [][\A h \in DOMAIN notified \cap DOMAIN notified' : notified'[h] >= notified[h]]_vars

\* As long as no request stands at the hub for ever, every request is answered, also
\* those that wait for blockMu, which handleSignature has in its hands while it
\* stands there; or the process dies, which ends them too.
AtHub(t) == req[t].step \in {"stored", "signed"}
RequestsAnswered ==
  (\A t \in Thread : []<>~AtHub(t))
    => \A t \in Thread : req[t].step # "idle" ~> req[t].step = "idle"

\* The store keeps the promise of Ledger: a tree of blocks that grows at a tip
\* which only moves to its own children.
L == INSTANCE Ledger WITH
       Doc <- AnyDoc,
       None <- ZeroHash,
       ledger <- [h \in DOMAIN blocks |->
                    [parent |-> blocks[h].prev, doc |-> blocks[h].doc]],
       endorsed <- [h \in DOMAIN blocks |-> Signers(blocks[h])],
       tip <- lastHash

RefinesLedger == L!Spec

------------------------------------------------------------------------------
(* What the code does not keep *)

\* "Height ... Номер блока" (block.go:29), "высота -> хэш блока" (storage.go:27):
\* the height is the number of a block, so no two blocks share one.
OneBlockPerHeight ==
  \A g, h \in DOMAIN blocks : blocks[g].height = blocks[h].height => g = h
==============================================================================
