---------------------------- MODULE ServerProofs ----------------------------
(***************************************************************************)
(* The server with its chain and its keys is a ChainServer and is a        *)
(* KeyRegistry, for any number of threads, keys, documents and blocks: so  *)
(* what is proved of either holds of the server, and what each of the two  *)
(* lets the other do at any time is done by its handlers alone.            *)
(***************************************************************************)
EXTENDS Server, Thresholds, ChainServerProofs

------------------------------------------------------------------------------
(* A server with keys is a ChainServer *)

\* StringToPublicKey has a key for every text.
LEMMA KeyOfText == \A x \in Text : K!KeyOf(x) \in Key
  BY DEF Text, K!KeyOf

LEMMA ServerStepIsStep == [ServerNext]_serverVars => [Next]_vars
  <1> SUFFICES ASSUME [ServerNext]_serverVars PROVE [Next]_vars
    OBVIOUS
  <1>1. CASE StartServer \/ CrashServer
    BY <1>1 DEF StartServer, CrashServer, Next
  <1>2. ASSUME NEW t \in Thread, NEW h \in DOMAIN blocks \cup {ZeroHash}, NEW x \in Text,
               NEW valid \in BOOLEAN, Sign(t, h, x, valid)
        PROVE  Next
    BY <1>2, KeyOfText DEF Sign, Arrive, Next
  <1>3. ASSUME NEW t \in Thread, NEW x \in Text, BeginCreate(t, x)
        PROVE  UNCHANGED vars
    BY <1>3 DEF BeginCreate
  <1>4. ASSUME NEW t \in Thread, NEW op \in {"upload", "bulk"}, NEW d \in Doc, Upload(t, op, d)
        PROVE  Next
    BY <1>4 DEF Upload, Arrive, Next
  <1>5. ASSUME NEW t \in Thread, CreateFails(t) \/ KeyStep(t)
        PROVE  UNCHANGED vars
    BY <1>5 DEF CreateFails, KeyStep
  <1>6. ASSUME NEW t \in Thread, SignatureSettled(t) \/ Unkeyed(t)
        PROVE  Next
    BY <1>6 DEF SignatureSettled, Unkeyed, Proceed, Work, Send, Next
  <1>7. CASE UNCHANGED serverVars
    BY <1>7 DEF serverVars
  <1>8. ASSUME NEW t \in Thread, NEW x \in Text, NEW d \in Doc, Create(t, x, d)
        PROVE  Next
    BY <1>8, KeyOfText DEF Create, Arrive, Next
  <1> QED
    BY <1>1, <1>2, <1>3, <1>4, <1>5, <1>6, <1>7, <1>8 DEF ServerNext

\* The chain of the server is that of ChainServer, whatever keys come and go.
THEOREM ServerIsChain == ServerSpec => Spec
  <1>1. ServerInit => Init
    BY DEF ServerInit
  <1> QED
    BY <1>1, ServerStepIsStep, PTL DEF ServerSpec, Spec

------------------------------------------------------------------------------
(* The two sides of a request agree *)

\* A request that is to add a signature was admitted with the key of that
\* signature; the others have no key in hand.
Agree(r, q) ==
  /\ r.step \in {"filed", "stored", "announced", "next", "signed"} => q.step = "idle"
  /\ r.step \in {"checked", "locked"} => q.step = "admitted" /\ K!KeyOf(q.key) = r.key
  /\ r.step = "built" /\ r.op = "create" =>
       q.step = "admitted" /\ Signers(r.block) = {K!KeyOf(q.key)}
  /\ r.step = "built" /\ r.op # "create" => q.step = "idle" /\ Signers(r.block) = {}

HandsAgree ==
  /\ keyReq \in [Thread -> K!Request]
  /\ \A t \in Thread : Agree(req[t], keyReq[t])

LEMMA SignersOfFirst ==
  ASSUME NEW b \in Blocks, b.sigs = <<>>, NEW k \in Key, NEW v \in BOOLEAN
  PROVE  Signers(b) = {} /\ Signers(AddSignature(b, k, v)) = {k}
  <1> DEFINE c == AddSignature(b, k, v)
  <1>1. /\ c \in Blocks /\ Len(c.sigs) = Len(b.sigs) + 1
        /\ c.sigs[Len(c.sigs)] = Signature(k, v)
    BY AddSignatureFields
  <1>2. Len(b.sigs) = 0 /\ DOMAIN b.sigs = {}
    OBVIOUS
  <1> HIDE DEF c
  <1>3. DOMAIN c.sigs = {1} /\ c.sigs[1].key = k
    <2>1. DOMAIN c.sigs = 1..1 /\ c.sigs[1] = Signature(k, v)
      BY <1>1, <1>2, EntriesOf
    <2> QED
      BY <2>1 DEF Signature
  <1>4. Signers(b) = {} /\ Signers(c) = {k}
    BY <1>2, <1>3 DEF Signers
  <1> QED
    BY <1>4 DEF c

\* A block as NextBlock makes it is unsigned.
LEMMA NextBlockUnsigned ==
  ASSUME Inductive, up, NEW d \in Doc \cup {ZeroDoc}
  PROVE  NextBlock(d) \in Blocks /\ NextBlock(d).sigs = <<>>
  BY NextBlockFields DEF AnyDoc

\* Nothing but t has moved, and t agrees.
LEMMA OneMoves ==
  ASSUME HandsAgree, NEW t \in Thread,
         \A u \in Thread : u # t => req'[u] = req[u] /\ keyReq'[u] = keyReq[u],
         keyReq' \in [Thread -> K!Request],
         Agree(req'[t], keyReq'[t])
  PROVE  HandsAgree'
  <1>1. \A u \in Thread : Agree(req'[u], keyReq'[u])
    BY DEF HandsAgree
  <1> QED
    BY <1>1 DEF HandsAgree

\* What a step of t does to its key: it is admitted with x, or is done with it.
LEMMA KeyEnters ==
  ASSUME HandsAgree, NEW t \in Thread, NEW x \in Text, K!Enter(t, "admitted", x, K!NoText)
  PROVE  /\ keyReq[t].step = "idle"
         /\ keyReq' \in [Thread -> K!Request]
         /\ keyReq'[t].step = "admitted" /\ keyReq'[t].key = x
         /\ \A u \in Thread : u # t => keyReq'[u] = keyReq[u]
  BY DEF HandsAgree, K!Enter, K!Request, K!Steps

LEMMA KeyResponds ==
  ASSUME HandsAgree, NEW t \in Thread, K!Respond(t)
  PROVE  /\ keyReq' \in [Thread -> K!Request]
         /\ keyReq'[t].step = "idle"
         /\ \A u \in Thread : u # t => keyReq'[u] = keyReq[u]
  BY DEF HandsAgree, K!Respond, K!NoRequest, K!Request, K!Steps

LEMMA MovesOn ==
  ASSUME Inductive, NEW t \in Thread, NEW s, NEW b, Goto(t, s, b)
  PROVE  /\ req'[t].step = s /\ req'[t].block = b
         /\ req'[t].op = req[t].op /\ req'[t].key = req[t].key
         /\ \A u \in Thread : u # t => req'[u] = req[u]
  BY DEF Goto, Inductive, ProcessTypes, Request

LEMMA Returns ==
  ASSUME Inductive, NEW t \in Thread, Respond(t)
  PROVE  /\ req'[t].step = "idle"
         /\ \A u \in Thread : u # t => req'[u] = req[u]
  BY RespondRequest DEF Inductive, ProcessTypes

LEMMA Begins ==
  ASSUME Inductive, NEW t \in Thread, NEW op, NEW s, NEW b, NEW k, NEW v,
         Enter(t, NewRequest(op, s, b, k, v))
  PROVE  /\ req'[t].op = op /\ req'[t].step = s /\ req'[t].block = b /\ req'[t].key = k
         /\ \A u \in Thread : u # t => req'[u] = req[u]
  BY DEF Enter, NewRequest, Inductive, ProcessTypes

LEMMA IdleAgrees ==
  \A r, q : r.step = "idle" => Agree(r, q)
  BY DEF Agree

LEMMA SignAgrees ==
  ASSUME Inductive, HandsAgree, NEW t \in Thread, NEW h, NEW x \in Text, NEW valid,
         Sign(t, h, x, valid)
  PROVE  HandsAgree'
  <1>1. /\ req'[t].step = "checked" /\ req'[t].key = K!KeyOf(x)
        /\ \A u \in Thread : u # t => req'[u] = req[u]
    BY Begins DEF Sign, BeginSign
  <1>2. /\ keyReq' \in [Thread -> K!Request]
        /\ keyReq'[t].step = "admitted" /\ keyReq'[t].key = x
        /\ \A u \in Thread : u # t => keyReq'[u] = keyReq[u]
    BY KeyEnters DEF Sign, AdmitKey
  <1>3. Agree(req'[t], keyReq'[t])
    BY <1>1, <1>2 DEF Agree
  <1> QED
    BY <1>1, <1>2, <1>3, OneMoves

\* Between requests a thread may have any key in hand.
LEMMA KeysMoveAgrees ==
  ASSUME Inductive, HandsAgree, NEW t \in Thread, UNCHANGED vars, req[t].step = "idle",
         keyReq' \in [Thread -> K!Request],
         \A u \in Thread : u # t => keyReq'[u] = keyReq[u]
  PROVE  HandsAgree'
  <1>1. req' = req
    BY DEF vars
  <1>2. Agree(req'[t], keyReq'[t])
    BY <1>1 DEF Agree
  <1> QED
    BY <1>1, <1>2, OneMoves

LEMMA CreateAgrees ==
  ASSUME Inductive, HandsAgree, NEW t \in Thread, NEW x \in Text, NEW d \in Doc,
         Create(t, x, d)
  PROVE  HandsAgree'
  <1> DEFINE k == K!KeyOf(x)
             b == AddSignature(NextBlock(d), k, FALSE)
  <1>1. /\ req'[t].op = "create" /\ req'[t].step = "built" /\ req'[t].block = b
        /\ \A u \in Thread : u # t => req'[u] = req[u]
    <2>1. Enter(t, NewRequest("create", "built", b, Nobody, FALSE))
      BY DEF Create, BuildSignedBlock
    <2> HIDE DEF b
    <2>2. req \in [Thread -> Request]
      BY DEF Inductive, ProcessTypes
    <2> QED
      BY <2>1, <2>2 DEF Enter, NewRequest
  <1>2. keyReq' = keyReq /\ keyReq[t].step = "admitted" /\ keyReq[t].key = x /\ up
    BY DEF Create, BuildSignedBlock
  <1>3. Signers(b) = {k}
    BY <1>2, KeyOfText, NextBlockUnsigned, SignersOfFirst
  <1> HIDE DEF b
  <1>4. Agree(req'[t], keyReq'[t])
    BY <1>1, <1>2, <1>3 DEF Agree
  <1> QED
    BY <1>1, <1>2, <1>4, OneMoves DEF HandsAgree

LEMMA SettledAgrees ==
  ASSUME Inductive, HandsAgree, NEW t \in Thread, SignatureSettled(t)
  PROVE  HandsAgree'
  <1>1. /\ keyReq' \in [Thread -> K!Request]
        /\ keyReq'[t].step = "idle"
        /\ \A u \in Thread : u # t => keyReq'[u] = keyReq[u]
    BY KeyResponds DEF SignatureSettled
  <1>2. \/ Goto(t, "signed", req[t].block)
        \/ Respond(t)
    BY DEF SignatureSettled, StoreSignature, StoreSignatureFails, LockAndReject, StoreBlock,
           StoreBlockFails
  <1>3. /\ req'[t].step \in {"signed", "idle"}
        /\ \A u \in Thread : u # t => req'[u] = req[u]
    BY <1>2, MovesOn, Returns
  <1>4. Agree(req'[t], keyReq'[t])
    BY <1>1, <1>3 DEF Agree
  <1> QED
    BY <1>1, <1>3, <1>4, OneMoves

LEMMA UploadAgrees ==
  ASSUME Inductive, HandsAgree, NEW t \in Thread, NEW op, NEW d, Upload(t, op, d)
  PROVE  HandsAgree'
  <1>1. /\ req'[t].step = "filed"
        /\ \A u \in Thread : u # t => req'[u] = req[u]
    BY Begins DEF Upload, ReceiveFile
  <1>2. keyReq' = keyReq /\ keyReq[t].step = "idle"
    BY DEF Upload
  <1>3. Agree(req'[t], keyReq'[t])
    BY <1>1, <1>2 DEF Agree
  <1> QED
    BY <1>1, <1>2, <1>3, OneMoves DEF HandsAgree

LEMMA UnkeyedAgrees ==
  ASSUME Inductive, HandsAgree, NEW t \in Thread, Unkeyed(t)
  PROVE  HandsAgree'
  <1>1. keyReq' = keyReq /\ Agree(req[t], keyReq[t])
    BY DEF Unkeyed, HandsAgree
  <1>2. CASE BuildBlock(t)
    <2> DEFINE b == NextBlock(req[t].block.doc)
    <2>1. req[t].step = "filed" /\ Goto(t, "built", b)
      BY <1>2 DEF BuildBlock
    <2>2. up /\ req[t].op # "create" /\ req[t].block.doc \in Doc
      BY <2>1, ServingMeansUp DEF Inductive, LocalSound, UploadsKept, DiskTypes
    <2>3. Signers(b) = {}
      BY <2>2, NextBlockUnsigned DEF Signers
    <2> HIDE DEF b
    <2>4. /\ req'[t].step = "built" /\ req'[t].block = b /\ req'[t].op # "create"
          /\ \A u \in Thread : u # t => req'[u] = req[u]
      BY <2>1, <2>2, MovesOn
    <2>5. keyReq'[t].step = "idle"
      BY <1>1, <2>1 DEF Agree
    <2>6. Agree(req'[t], keyReq'[t])
      BY <2>3, <2>4, <2>5 DEF Agree
    <2> QED
      BY <1>1, <2>4, <2>6, OneMoves DEF HandsAgree
  <1>3. CASE LockAndSign(t)
    <2>1. /\ req[t].step = "checked"
          /\ req'[t].step = "locked" /\ req'[t].key = req[t].key
          /\ \A u \in Thread : u # t => req'[u] = req[u]
      BY <1>3, MovesOn DEF LockAndSign
    <2>2. Agree(req'[t], keyReq'[t])
      BY <1>1, <2>1 DEF Agree
    <2> QED
      BY <1>1, <2>1, <2>2, OneMoves DEF HandsAgree
  <1>4. CASE ~BuildBlock(t) /\ ~LockAndSign(t)
    <2>1. /\ \/ req[t].step \in {"filed", "stored", "announced", "next", "signed"}
             \/ req[t].step = "built" /\ req[t].op # "create"
          /\ \/ Respond(t)
             \/ \E s \in {"stored", "announced", "next"}, b \in {req[t].block, NoBlock} :
                  Goto(t, s, b)
      BY <1>4 DEF Unkeyed, UploadFails, StoreBlock, StoreBlockFails, AnnounceBlock, SaveMetadata,
         SaveMetadataFails, BulkDone, AnswerSignature
    <2>2. /\ req'[t].step \in {"idle", "stored", "announced", "next"}
          /\ \A u \in Thread : u # t => req'[u] = req[u]
      <3>1. CASE Respond(t)
        BY <3>1, Returns
      <3>2. ASSUME NEW s \in {"stored", "announced", "next"}, NEW b, Goto(t, s, b)
            PROVE  /\ req'[t].step \in {"idle", "stored", "announced", "next"}
                   /\ \A u \in Thread : u # t => req'[u] = req[u]
        BY <3>2, MovesOn
      <3> QED
        BY <2>1, <3>1, <3>2
    <2>3. keyReq'[t].step = "idle"
      BY <1>1, <2>1 DEF Agree
    <2>4. Agree(req'[t], keyReq'[t])
      BY <2>2, <2>3 DEF Agree
    <2> QED
      BY <1>1, <2>2, <2>4, OneMoves DEF HandsAgree
  <1> QED
    BY <1>2, <1>3, <1>4

LEMMA KeyStepAgrees ==
  ASSUME Inductive, HandsAgree, NEW t \in Thread, KeyStep(t)
  PROVE  HandsAgree'
  <1>1. /\ keyReq' \in [Thread -> K!Request]
        /\ \A u \in Thread : u # t => keyReq'[u] = keyReq[u]
    BY DEF HandsAgree, KeyStep, K!StoreKey, K!BeginRevoke, K!CacheKey, K!CheckRevoked,
           K!CheckNewKey, K!RevokeKey, K!RevokeKeyFails, K!UncacheKey, K!Enter, K!Goto,
           K!Respond, K!NoRequest, K!Request, K!Steps
  <1> QED
    BY <1>1, KeysMoveAgrees DEF KeyStep

LEMMA HandsAgreeStep ==
  ASSUME Inductive, HandsAgree, [ServerNext]_serverVars
  PROVE  HandsAgree'
  <1>1. CASE StartServer
    BY <1>1 DEF StartServer, Start, HandsAgree
  <1>2. CASE CrashServer
    <2>1. /\ req' = [t \in Thread |-> NoRequest]
          /\ keyReq' = [t \in Thread |-> K!NoRequest]
      BY <1>2 DEF CrashServer, Crash
    <2>2. K!NoRequest \in K!Request /\ NoRequest.step = "idle"
      BY NoRequestType DEF K!NoRequest, K!Request, K!Steps
    <2> QED
      BY <2>1, <2>2, IdleAgrees DEF HandsAgree
  <1>3. ASSUME NEW t \in Thread, NEW x \in Text, BeginCreate(t, x)
        PROVE  HandsAgree'
    BY <1>3, KeyEnters, KeysMoveAgrees DEF BeginCreate, AdmitKey
  <1>4. ASSUME NEW t \in Thread, CreateFails(t)
        PROVE  HandsAgree'
    BY <1>4, KeyResponds, KeysMoveAgrees DEF CreateFails
  <1>5. CASE UNCHANGED serverVars
    BY <1>5 DEF serverVars, vars, HandsAgree
  <1> QED
    BY <1>1, <1>2, <1>3, <1>4, <1>5, SignAgrees, CreateAgrees, SettledAgrees, UploadAgrees,
       UnkeyedAgrees, KeyStepAgrees DEF ServerNext

\* The key that the handler found in the map is the one whose signature it adds, at
\* every step from the check to the answer, and a restart leaves neither behind.
THEOREM HandsAlwaysAgree == ServerSpec => []HandsAgree
  <1>1. ServerInit => HandsAgree
    <2>1. K!NoRequest \in K!Request
      BY DEF K!NoRequest, K!Request, K!Steps
    <2> QED
      BY <2>1, NoRequestType, IdleAgrees DEF ServerInit, Init, HandsAgree
  <1>2. ServerSpec => []Inductive
    BY ServerIsChain, InductiveAlways, PTL
  <1> QED
    BY <1>1, <1>2, HandsAgreeStep, PTL DEF ServerSpec

------------------------------------------------------------------------------
(* A server with its chain is a KeyRegistry *)

\* What a block adds to the keys with a signature, and what a signature adds.
LEMMA SignedByBlock ==
  ASSUME NEW b \in Blocks, BlockAdded(b)
  PROVE  Signed' = Signed \cup Signers(b)
  BY DEF BlockAdded, Signed

LEMMA SignedBySignature ==
  ASSUME NEW h, NEW k, SignatureAdded(h, k)
  PROVE  Signed' = Signed \cup {k}
  <1>1. /\ h \in DOMAIN blocks /\ DOMAIN blocks' = DOMAIN blocks
        /\ \A g \in DOMAIN blocks : g # h => blocks'[g] = blocks[g]
    BY DEF SignatureAdded
  <1>2. Signers(blocks'[h]) = Signers(blocks[h]) \cup {k}
    BY SignersGrow DEF SignatureAdded
  <1>3. \A g \in DOMAIN blocks : g # h => Signers(blocks'[g]) = Signers(blocks[g])
    BY <1>1
  <1> QED
    BY <1>1, <1>2, <1>3 DEF Signed

LEMMA SettledRefines ==
  ASSUME Inductive, HandsAgree, NEW t \in Thread, SignatureSettled(t)
  PROVE  K!SaveSignature(t) \/ K!RefuseSignature(t)
  <1>1. K!Respond(t) /\ UNCHANGED <<registered, revoked, pubKeys>>
    BY DEF SignatureSettled, keyStore
  <1>2. up' = up
    BY DEF SignatureSettled, StoreSignature, StoreSignatureFails, LockAndReject, StoreBlock,
           StoreBlockFails
  <1>3. Agree(req[t], keyReq[t])
    BY DEF HandsAgree
  <1>4. keyReq[t].step = "admitted"
    BY <1>3 DEF SignatureSettled, StoreSignature, StoreSignatureFails, LockAndReject, StoreBlock,
           StoreBlockFails, Agree
  <1>5. CASE StoreSignature(t)
    <2>1. req[t].step = "locked"
      BY <1>5 DEF StoreSignature
    <2>2. K!KeyOf(keyReq[t].key) = req[t].key
      BY <1>3, <2>1 DEF Agree
    <2> DEFINE h == req[t].block.hash
               k == req[t].key
    <2>3. /\ h \in DOMAIN blocks /\ k \in Key /\ ~HasSignature(blocks[h], k)
          /\ DOMAIN blocks' = DOMAIN blocks
          /\ blocks'[h] = AddSignature(blocks[h], k, TRUE)
          /\ \A g \in DOMAIN blocks : g # h => blocks'[g] = blocks[g]
          /\ lastHash' = lastHash /\ lastHeight' = lastHeight
      BY <1>5, SignatureStored
    <2>4. blocks[h] \in Blocks
      BY <2>3 DEF Inductive, DiskTypes, IsBucket
    <2> HIDE DEF h, k
    <2>5. SignatureAdded(h, k)
      BY <2>3, <2>4 DEF SignatureAdded
    <2>6. Signed' = Signed \cup {k}
      BY <2>5, SignedBySignature
    <2>7. Signed' = Signed \cup {K!KeyOf(keyReq[t].key)}
      BY <2>2, <2>6 DEF k
    <2> QED
      BY <1>1, <1>2, <1>4, <2>7 DEF K!SaveSignature
  <1>6. CASE req[t].op = "create" /\ StoreBlock(t)
    <2>1. ChildAdded(req[t].block) /\ req[t].step = "built"
      BY <1>6, StoreBlockEffect DEF StoreBlock
    <2>2. Signers(req[t].block) = {K!KeyOf(keyReq[t].key)}
      BY <1>3, <1>6, <2>1 DEF Agree
    <2>3. Signed' = Signed \cup {K!KeyOf(keyReq[t].key)}
      BY <2>1, <2>2, SignedByBlock DEF ChildAdded, BlockAdded
    <2> QED
      BY <1>1, <1>2, <1>4, <2>3 DEF K!SaveSignature
  <1>7. CASE StoreSignatureFails(t) \/ LockAndReject(t) \/ StoreBlockFails(t)
    <2>1. blocks' = blocks
      BY <1>7 DEF StoreSignatureFails, LockAndReject, StoreBlockFails, disk
    <2>2. Signed' = Signed
      BY <2>1 DEF Signed
    <2> QED
      BY <1>1, <1>2, <1>4, <2>2 DEF K!RefuseSignature, K!store
  <1> QED
    BY <1>5, <1>6, <1>7 DEF SignatureSettled

\* A request without a key leaves the registry as it is: its block has no signature.
LEMMA UnkeyedRefines ==
  ASSUME Inductive, HandsAgree, NEW t \in Thread, Unkeyed(t)
  PROVE  UNCHANGED K!vars
  <1>1. UNCHANGED <<registered, revoked, pubKeys, keyReq>>
    BY DEF Unkeyed, keyStore
  <1>2. up' = up
    BY DEF Unkeyed, UploadFails, BuildBlock, AnnounceBlock, SaveMetadata, SaveMetadataFails, BulkDone,
           LockAndSign, AnswerSignature, StoreBlock, StoreBlockFails
  <1>3. Signed' = Signed
    <2>1. CASE req[t].op # "create" /\ StoreBlock(t)
      <3>1. ChildAdded(req[t].block) /\ req[t].step = "built"
        BY <2>1, StoreBlockEffect DEF StoreBlock
      <3>2. Signers(req[t].block) = {}
        BY <2>1, <3>1 DEF HandsAgree, Agree
      <3> QED
        BY <3>1, <3>2, SignedByBlock DEF ChildAdded, BlockAdded
    <2>2. CASE ~StoreBlock(t)
      <3>1. blocks' = blocks
        BY <2>2 DEF Unkeyed, UploadFails, BuildBlock, AnnounceBlock, SaveMetadata, SaveMetadataFails,
           BulkDone, LockAndSign, AnswerSignature, StoreBlockFails, disk
      <3> QED
        BY <3>1 DEF Signed
    <2> QED
      BY <2>1, <2>2 DEF Unkeyed, UploadFails, StoreBlock, BuildBlock, AnnounceBlock, SaveMetadata,
         SaveMetadataFails, BulkDone, LockAndSign, AnswerSignature, StoreBlockFails
  <1> QED
    BY <1>1, <1>2, <1>3 DEF K!vars, K!store

LEMMA AdmitRefines ==
  ASSUME NEW t \in Thread, NEW x \in Text, AdmitKey(t, x), UNCHANGED <<blocks, up>>
  PROVE  K!Arrive(t)
  <1>1. Signed' = Signed
    BY DEF Signed
  <1>2. K!Admit(t, x)
    BY <1>1 DEF AdmitKey, keyStore, K!Admit, K!store
  <1> QED
    BY <1>2 DEF K!Arrive

LEMMA KeyStepRefines ==
  ASSUME NEW t \in Thread, KeyStep(t)
  PROVE  K!Arrive(t) \/ K!Proceed(t)
  BY DEF KeyStep, K!Arrive, K!Proceed

LEMMA StartRefines ==
  ASSUME Inductive, StartServer
  PROVE  K!Start
  <1>1. Signed' = Signed
    <2>1. CASE blocks' = blocks
      BY <2>1 DEF Signed
    <2>2. ASSUME NEW b \in Blocks, GenesisAdded(b)
          PROVE  Signed' = Signed
      <3>1. Signers(b) = {}
        BY <2>2 DEF GenesisAdded, Signers
      <3> QED
        BY <2>2, <3>1, SignedByBlock DEF GenesisAdded
    <2> QED
      BY <2>1, <2>2, StartEffect DEF StartServer
  <1> QED
    BY <1>1 DEF StartServer, Start, K!Start, K!store

LEMMA CrashRefines ==
  ASSUME CrashServer
  PROVE  K!Crash
  <1>1. Signed' = Signed
    BY DEF Signed, CrashServer, Crash, disk
  <1> QED
    BY <1>1 DEF CrashServer, Crash, K!Crash, K!store

LEMMA ServerStepRefines ==
  ASSUME Inductive, HandsAgree, [ServerNext]_serverVars
  PROVE  [K!Next]_(K!vars)
  <1>1. CASE StartServer \/ CrashServer
    BY <1>1, StartRefines, CrashRefines DEF K!Next
  <1>2. ASSUME NEW t \in Thread, NEW h, NEW x \in Text, NEW valid,
               Sign(t, h, x, valid) \/ BeginCreate(t, x)
        PROVE  K!Next
    <2>1. AdmitKey(t, x) /\ UNCHANGED <<blocks, up>>
      BY <1>2 DEF Sign, BeginSign, BeginCreate, vars, disk
    <2> QED
      BY <2>1, AdmitRefines DEF K!Next
  <1>3. ASSUME NEW t \in Thread, NEW x, NEW op, NEW d, Create(t, x, d) \/ Upload(t, op, d)
        PROVE  UNCHANGED K!vars
    <2>1. UNCHANGED <<registered, revoked, pubKeys, keyReq, blocks, up>>
      BY <1>3 DEF Create, BuildSignedBlock, Upload, ReceiveFile, keyStore, disk
    <2> QED
      BY <2>1 DEF K!vars, K!store, Signed
  <1>4. ASSUME NEW t \in Thread, CreateFails(t)
        PROVE  K!Next
    <2>1. UNCHANGED <<registered, revoked, pubKeys, blocks, up>>
      BY <1>4 DEF CreateFails, keyStore, vars, disk
    <2>2. K!RefuseSignature(t)
      BY <1>4, <2>1 DEF CreateFails, K!RefuseSignature, K!store, Signed
    <2> QED
      BY <2>2 DEF K!Next, K!Proceed
  <1>5. ASSUME NEW t \in Thread, SignatureSettled(t) \/ KeyStep(t)
        PROVE  K!Next
    BY <1>5, SettledRefines, KeyStepRefines DEF K!Next, K!Proceed
  <1>6. ASSUME NEW t \in Thread, Unkeyed(t)
        PROVE  UNCHANGED K!vars
    BY <1>6, UnkeyedRefines
  <1>7. CASE UNCHANGED serverVars
    BY <1>7 DEF serverVars, vars, disk, keyStore, K!vars, K!store, Signed
  <1> QED
    BY <1>1, <1>2, <1>3, <1>4, <1>5, <1>6, <1>7 DEF ServerNext

\* The keys of the server are those of KeyRegistry, whatever becomes of the chain:
\* the signatures in its blocks are the ones that KeyRegistry has saved.
THEOREM ServerIsRegistry == ServerSpec => RefinesRegistry
  <1>1. ServerInit => K!Init
    <2> SUFFICES ASSUME ServerInit PROVE K!Init
      OBVIOUS
    <2>1. Signed = {}
      BY DEF ServerInit, Init, EmptyBucket, Signed
    <2> QED
      BY <2>1 DEF ServerInit, Init, K!Init
  <1>2. ServerSpec => []Inductive
    BY ServerIsChain, InductiveAlways, PTL
  <1> QED
    BY <1>1, <1>2, HandsAlwaysAgree, ServerStepRefines, PTL DEF ServerSpec, RefinesRegistry, K!Spec

------------------------------------------------------------------------------
(* What that gives: whose signatures a block has *)

KP == INSTANCE KeyRegistryProofs WITH signers <- Signed, req <- keyReq

LEMMA RegistryKept == ServerSpec => [](K!CacheAgrees /\ K!SignersKnown)
  <1>1. \A x \in Text : x[1] \in Key
    BY DEF Text
  <1>2. KP!Spec => []KP!CacheAgrees /\ []KP!SignersKnown
    BY <1>1, KP!MapAgrees, KP!NoUnknownSigner, PTL
  <1>3. K!Init => KP!Init
    BY DEF K!Init, KP!Init, K!NoRequest, KP!NoRequest, K!NoText, KP!NoText
  <1>4. [K!Next]_(K!vars) => [KP!Next]_(KP!vars)
    BY DEF K!Start, K!Crash, K!Arrive, K!Proceed, K!StoreKey, K!Admit,
           K!BeginRevoke, K!CacheKey, K!CheckRevoked, K!CheckNewKey, K!RevokeKey,
           K!RevokeKeyFails, K!UncacheKey, K!SaveSignature, K!RefuseSignature,
           K!LoadKeys, K!Enter, K!Goto, K!Respond, K!NoRequest, K!Next, K!vars,
           K!store, KP!Start, KP!Crash, KP!Arrive, KP!Proceed, KP!StoreKey,
           KP!Admit, KP!BeginRevoke, KP!CacheKey, KP!CheckRevoked, KP!CheckNewKey,
           KP!RevokeKey, KP!RevokeKeyFails, KP!UncacheKey, KP!SaveSignature,
           KP!RefuseSignature, KP!LoadKeys, KP!Enter, KP!Goto, KP!Respond,
           KP!NoRequest, KP!Next, KP!vars, KP!store, K!NoText, KP!NoText, K!KeyOf, KP!KeyOf
  <1>5. K!Spec => KP!Spec
    BY <1>3, <1>4, PTL DEF K!Spec, KP!Spec
  <1>6. KP!CacheAgrees /\ KP!SignersKnown => K!CacheAgrees /\ K!SignersKnown
    BY DEF K!CacheAgrees, KP!CacheAgrees, K!Registering, KP!Registering,
           K!SignersKnown, KP!SignersKnown, K!KeysOf, KP!KeysOf, K!KeyOf, KP!KeyOf
  <1> QED
    BY <1>2, <1>5, <1>6, ServerIsRegistry, PTL DEF RefinesRegistry

\* Every key that signed a stored block, as its maker or later, was registered: the
\* check is made against the map, which a crash empties, and long before the block
\* is written.
THEOREM OnlyRegisteredSign == ServerSpec => []SignersRegistered
  <1>1. K!SignersKnown => SignersRegistered
    BY DEF K!SignersKnown, Signed, SignersRegistered
  <1> QED
    BY <1>1, RegistryKept, PTL

------------------------------------------------------------------------------
(* What that gives: when a block is agreed *)

LEMMA VerifiedCounted ==
  ASSUME Inductive, NEW h \in DOMAIN blocks
  PROVE  /\ ValidSignatures(blocks[h]) = Cardinality(Verified(blocks[h]))
         /\ IsFiniteSet(Verified(blocks[h]))
         /\ Verified(blocks[h]) \subseteq Signers(blocks[h])
  <1>1. blocks[h] \in Blocks
    BY DEF Inductive, DiskTypes, IsBucket
  <1>2. \A i, j \in DOMAIN blocks[h].sigs :
          blocks[h].sigs[i].key = blocks[h].sigs[j].key => i = j
    BY DEF Inductive, DiskSound, OneSignaturePerKey
  <1>3. Verified(blocks[h]) \subseteq Signers(blocks[h])
    BY DEF Verified, Signers
  <1> QED
    BY <1>1, <1>2, <1>3, EntriesCountKeys

LEMMA TwoOfMany ==
  ASSUME NEW S, IsFiniteSet(S), Cardinality(S) >= 2
  PROVE  \E j, k \in S : j # k
  <1>1. Cardinality(S) # 0 /\ Cardinality(S) # 1
    BY FS_CardinalityType
  <1>2. PICK j \in S : TRUE
    BY <1>1, FS_EmptySet
  <1>3. S # {j}
    BY <1>1, FS_Singleton
  <1> QED
    BY <1>2, <1>3

\* Whatever number of keys a block is judged by, it is agreed only with the valid
\* signatures of two different keys, both of which were registered: from the
\* registration of the keys over their requests, the entries of the block and
\* their count to the threshold, no step adds a vote.
TwoRegisteredSigners ==
  \A h \in DOMAIN blocks, n \in Nat :
    AgreedBy(ValidSignatures(blocks[h]), n) =>
      \E j, k \in Verified(blocks[h]) \cap K!KeysOf(registered \cup revoked) : j # k

THEOREM AgreedByTwoRegistered == ServerSpec => []TwoRegisteredSigners
  <1>1. Inductive /\ SignersRegistered => TwoRegisteredSigners
    <2> SUFFICES ASSUME Inductive, SignersRegistered, NEW h \in DOMAIN blocks, NEW n \in Nat,
                        AgreedBy(ValidSignatures(blocks[h]), n)
                 PROVE  \E j, k \in Verified(blocks[h]) \cap K!KeysOf(registered \cup revoked) : j # k
      BY DEF TwoRegisteredSigners
    <2>1. Cardinality(Verified(blocks[h])) \in Nat
      BY VerifiedCounted, FS_CardinalityType
    <2>2. Cardinality(Verified(blocks[h])) >= 2
      BY <2>1, VerifiedCounted DEF AgreedBy, AtLeastTwo, Required
    <2>3. PICK j, k \in Verified(blocks[h]) : j # k
      BY <2>2, VerifiedCounted, TwoOfMany
    <2> QED
      BY <2>3, VerifiedCounted DEF SignersRegistered
  <1>2. ServerSpec => []Inductive
    BY ServerIsChain, InductiveAlways, PTL
  <1> QED
    BY <1>1, <1>2, OnlyRegisteredSign, PTL

\* Two majorities of the same keys have a key in common.
LEMMA MajoritiesMeet ==
  ASSUME NEW A, IsFiniteSet(A), NEW S \in SUBSET A, NEW T \in SUBSET A,
         ConsensusReached(Cardinality(S), Cardinality(A)),
         ConsensusReached(Cardinality(T), Cardinality(A))
  PROVE  S \cap T # {}
  <1>1. /\ Cardinality(A) \in Nat /\ Cardinality(S) \in Nat /\ Cardinality(T) \in Nat
        /\ IsFiniteSet(S) /\ IsFiniteSet(T)
    BY FS_Subset, FS_CardinalityType
  <1>2. Cardinality(S) + Cardinality(T) > Cardinality(A)
    BY <1>1 DEF ConsensusReached, Required
  <1> QED
    BY <1>2, FS_MajoritiesIntersect

\* Two blocks that were made on the same tip can both be agreed.  Judged by the
\* same keys, that takes a key that signed both: when no key signs two blocks of a
\* height, and those that sign are among the keys that count, one block of each
\* height at most is agreed.
AgreedBlocksShareSigner ==
  \A g, h \in DOMAIN blocks, A \in SUBSET Key :
    /\ IsFiniteSet(A)
    /\ Verified(blocks[g]) \subseteq A /\ Verified(blocks[h]) \subseteq A
    /\ AgreedBy(ValidSignatures(blocks[g]), Cardinality(A))
    /\ AgreedBy(ValidSignatures(blocks[h]), Cardinality(A))
    => Verified(blocks[g]) \cap Verified(blocks[h]) # {}

THEOREM AgreedBlocksMeet == Spec => []AgreedBlocksShareSigner
  <1>1. Inductive => AgreedBlocksShareSigner
    BY VerifiedCounted, MajoritiesMeet DEF AgreedBlocksShareSigner, AgreedBy
  <1> QED
    BY <1>1, InductiveAlways, PTL
=============================================================================
