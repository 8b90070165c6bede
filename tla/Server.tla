-------------------------------- MODULE Server --------------------------------
(***************************************************************************)
(* The ChainDocs server with both of its stores: ChainServer, which has    *)
(* the chain and takes a key for registered when it likes, together with   *)
(* the buckets and the map of KeyRegistry, which has the keys and takes a  *)
(* signature for stored when it likes.  Here a handler that signs does     *)
(* what it does in both: cmd/server/main.go looks its key up in pubKeys,   *)
(* once, and has it still in hand when the block is stored, with other     *)
(* registrations, revocations and restarts in between.  The map goes by    *)
(* the text of a key, the block has the key that is read from it.          *)
(*                                                                         *)
(* A step of a request is a step of ChainServer, with what it does to the  *)
(* keys, or one of a registration or a revocation, which leaves the chain  *)
(* alone.  What module KeyRegistry follows as a set that grows, the keys   *)
(* that have a signature in a block, is read off the blocks.               *)
(***************************************************************************)
EXTENDS ChainServer

CONSTANT
  Spelling  \* the ways in which a key can be written

VARIABLES
  registered,  \* bucket "pubkeys", texts
  revoked,     \* bucket "revoked", texts
  pubKeys,     \* the map Server.pubKeys, texts
  keyReq       \* what each thread is doing with keys

keyStore   == <<registered, revoked, pubKeys>>
serverVars == <<vars, keyStore, keyReq>>

\* The keys that have a signature in a stored block.
Signed == UNION {Signers(blocks[h]) : h \in DOMAIN blocks}

\* Every key may come in every way of writing it.
Text == Key \X Spelling

K == INSTANCE KeyRegistry WITH signers <- Signed, req <- keyReq

------------------------------------------------------------------------------
(* handleSignature and handleCreateBlock, as far as keys go *)

\* The check that opens both: the text is in the map, at this moment.
AdmitKey(t, x) ==
  /\ x \in pubKeys
  /\ K!Enter(t, "admitted", x, K!NoText)
  /\ UNCHANGED keyStore

\* Both read the key from the text with StringToPublicKey.
Sign(t, h, x, valid) == BeginSign(t, h, K!KeyOf(x), valid) /\ AdmitKey(t, x)

\* POST /api/blocks reads the tip later than the map.
BeginCreate(t, x) ==
  /\ req[t].step = "idle"
  /\ AdmitKey(t, x)
  /\ UNCHANGED vars

Create(t, x, d) ==
  /\ keyReq[t].step = "admitted"
  /\ keyReq[t].key = x
  /\ BuildSignedBlock(t, K!KeyOf(x), d)
  /\ UNCHANGED <<keyStore, keyReq>>

\* The request has no document hash or no signature, or GetLastBlock fails.
CreateFails(t) ==
  /\ req[t].step = "idle"
  /\ keyReq[t].step = "admitted"
  /\ K!Respond(t)
  /\ UNCHANGED <<vars, keyStore>>

\* The key has a signature in the database, or the request is refused.
SignatureSettled(t) ==
  /\ \/ StoreSignature(t) \/ StoreSignatureFails(t) \/ LockAndReject(t)
     \/ req[t].op = "create" /\ (StoreBlock(t) \/ StoreBlockFails(t))
  /\ K!Respond(t)
  /\ UNCHANGED keyStore

\* The steps of a handler that has no key, or does nothing with it.
Unkeyed(t) ==
  /\ \/ UploadFails(t) \/ BuildBlock(t) \/ AnnounceBlock(t) \/ SaveMetadata(t) \/ SaveMetadataFails(t)
     \/ BulkDone(t) \/ LockAndSign(t) \/ AnswerSignature(t)
     \/ req[t].op # "create" /\ (StoreBlock(t) \/ StoreBlockFails(t))
  /\ UNCHANGED <<keyStore, keyReq>>

Upload(t, op, d) ==
  /\ keyReq[t].step = "idle"
  /\ ReceiveFile(t, op, d)
  /\ UNCHANGED <<keyStore, keyReq>>

------------------------------------------------------------------------------
(* handleRegisterKey, handleRevokeKey, and the process *)

KeyStep(t) ==
  /\ req[t].step = "idle"
  /\ UNCHANGED vars
  /\ \/ \E x \in Text : K!StoreKey(t, x) \/ \E n \in Text : K!BeginRevoke(t, x, n)
     \/ K!CacheKey(t)
     \/ K!CheckRevoked(t) \/ K!CheckNewKey(t)
     \/ K!RevokeKey(t) \/ K!RevokeKeyFails(t) \/ K!UncacheKey(t)

\* NewServer loads the keys after InitGenesis.
StartServer ==
  /\ Start
  /\ K!LoadKeys
  /\ UNCHANGED <<registered, revoked, keyReq>>

CrashServer ==
  /\ Crash
  /\ pubKeys' = {}
  /\ keyReq' = [t \in Thread |-> K!NoRequest]
  /\ UNCHANGED <<registered, revoked>>

ServerInit ==
  /\ Init
  /\ registered = {} /\ revoked = {} /\ pubKeys = {}
  /\ keyReq = [t \in Thread |-> K!NoRequest]

ServerNext ==
  \/ StartServer \/ CrashServer
  \/ \E t \in Thread :
       \/ \E h \in DOMAIN blocks \cup {ZeroHash}, x \in Text, valid \in BOOLEAN :
            Sign(t, h, x, valid)
       \/ \E x \in Text : BeginCreate(t, x) \/ \E d \in Doc : Create(t, x, d)
       \/ \E op \in {"upload", "bulk"}, d \in Doc : Upload(t, op, d)
       \/ CreateFails(t) \/ SignatureSettled(t) \/ Unkeyed(t) \/ KeyStep(t)

ServerSpec == ServerInit /\ [][ServerNext]_serverVars

------------------------------------------------------------------------------
(* Properties *)

\* The server with its chain keeps the keys as KeyRegistry has it: a stored block
\* gains the signature of a key only in the step of a request that found the key in
\* the map and was not answered since, whatever became of the key and however
\* often the block was written in between.
RefinesRegistry == K!Spec

\* So every key that signed a stored block, as its maker or later, was registered, in
\* one text or another.
SignersRegistered ==
  \A h \in DOMAIN blocks : Signers(blocks[h]) \subseteq K!KeysOf(registered \cup revoked)
===============================================================================
