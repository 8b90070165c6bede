-------------------------- MODULE ChainServerProofs --------------------------
(***************************************************************************)
(* What ChainServer keeps, proved for any number of threads, keys,         *)
(* documents and blocks.                                                   *)
(***************************************************************************)
EXTENDS ChainServer, FiniteSetTheorems, TLAPS

------------------------------------------------------------------------------
(* The inductive invariant behind the safety properties *)

DiskTypes ==
  /\ IsBucket(blocks, Hash, Blocks)
  /\ IsBucket(heightIdx, Nat, Hash)
  /\ IsBucket(docIdx, AnyDoc, Hash)
  /\ lastHash \in Nat /\ lastHeight \in Nat
  /\ IsBucket(docMeta, Doc, Hash)

DiskSound ==
  /\ ParentsStored /\ TipIsHighest /\ HeightIndexSound /\ DocIndexSound
  /\ OneSignaturePerKey /\ MetadataSound

ProcessTypes ==
  /\ up \in BOOLEAN
  /\ blockMu \in Thread \cup {Nobody}
  /\ req \in [Thread -> Request]
  /\ IsBucket(notified, Hash, Nat)
  /\ clock \in Nat

\* Hashes are drawn from the clock; the genesis block is there before anything
\* is served; a dead process holds nothing.
LifeCycle ==
  /\ clock \in 0..MaxBlocks
  /\ \A h \in DOMAIN blocks : h <= clock
  /\ DOMAIN blocks = {} => clock = 0 /\ lastHash = ZeroHash /\ lastHeight = 0 /\ heightIdx = EmptyBucket
  /\ up => DOMAIN blocks # {}
  /\ ~up => req = [t \in Thread |-> NoRequest]

\* A block in the hands of a thread is new, unlike that of any other thread,
\* and its parent is stored; if it would be the highest block, its parent is
\* still the tip.
BuiltBlocks ==
  \A t \in Thread : req[t].step = "built" =>
    LET b == req[t].block IN
    /\ b.hash \in 1..clock
    /\ b.hash \notin DOMAIN blocks
    /\ \A u \in Thread \ {t} : req[u].step = "built" => req[u].block.hash # b.hash
    /\ b.height \in 1..(lastHeight + 1)
    /\ b.prev \in DOMAIN blocks
    /\ blocks[b.prev].height = b.height - 1
    /\ b.height = lastHeight + 1 => b.prev = lastHash

\* Such a block carries at most the unverified signature of its maker, and
\* either that or the document of a file.
BuiltContent ==
  \A t \in Thread : req[t].step = "built" =>
    LET b == req[t].block IN
    /\ Len(b.sigs) <= 1
    /\ \/ req[t].op = "create" /\ Len(b.sigs) = 1 /\ ~b.sigs[1].valid
       \/ req[t].op # "create" /\ b.doc \in Doc

\* Between its steps an upload keeps its document and, once saved, its block.
UploadsKept ==
  \A t \in Thread :
    LET b == req[t].block IN
    /\ req[t].step = "filed" => b.doc \in Doc /\ req[t].op # "create"
    /\ req[t].step \in {"stored", "announced"} =>
         b.doc \in Doc /\ b.hash \in DOMAIN blocks /\ blocks[b.hash].doc = b.doc

\* blockMu excludes: only its holder is past the lock, and what it holds is
\* the stored block with one signature more, of a key that has none there.
LockProtects ==
  /\ \A t \in Thread : blockMu = t <=> req[t].step \in {"locked", "signed"}
  /\ \A t \in Thread :
       LET b == req[t].block IN
       /\ req[t].step \in {"locked", "signed"} => b.hash \in DOMAIN blocks
       /\ req[t].step = "locked" =>
            /\ req[t].key \in Key
            /\ b = AddSignature(blocks[b.hash], req[t].key, TRUE)
            /\ ~HasSignature(blocks[b.hash], req[t].key)
  /\ \A t \in Thread : req[t].step = "checked" => req[t].key \in Key

LocalSound == BuiltBlocks /\ BuiltContent /\ UploadsKept /\ LockProtects

Inductive == DiskTypes /\ DiskSound /\ ProcessTypes /\ LifeCycle /\ LocalSound

------------------------------------------------------------------------------
(* Buckets, blocks and requests *)

LEMMA PutBucket ==
  ASSUME NEW K, NEW V, NEW f, IsBucket(f, K, V), NEW k \in K, NEW v \in V
  PROVE  /\ IsBucket(Put(f, k, v), K, V)
         /\ DOMAIN Put(f, k, v) = DOMAIN f \cup {k}
         /\ Put(f, k, v)[k] = v
         /\ \A x \in DOMAIN f : x # k => Put(f, k, v)[x] = f[x]
  BY DEF IsBucket, Put

LEMMA EmptyIsBucket == \A K, V : IsBucket(EmptyBucket, K, V) /\ DOMAIN EmptyBucket = {}
  BY DEF IsBucket, EmptyBucket

LEMMA NewBlockFields ==
  ASSUME NEW h \in Nat, NEW n \in Nat, NEW p \in Nat, NEW d \in AnyDoc
  PROVE  /\ NewBlock(h, n, p, d) \in Blocks
         /\ NewBlock(h, n, p, d).hash = h
         /\ NewBlock(h, n, p, d).height = n
         /\ NewBlock(h, n, p, d).prev = p
         /\ NewBlock(h, n, p, d).doc = d
         /\ NewBlock(h, n, p, d).sigs = <<>>
  BY DEF NewBlock, Blocks

\* Adding a signature appends one entry and leaves the rest alone.
LEMMA AddSignatureFields ==
  ASSUME NEW b \in Blocks, NEW k \in Key, NEW v \in BOOLEAN
  PROVE  LET c == AddSignature(b, k, v) IN
         /\ c \in Blocks
         /\ c.hash = b.hash /\ c.height = b.height /\ c.prev = b.prev /\ c.doc = b.doc
         /\ Len(b.sigs) \in Nat
         /\ Len(c.sigs) = Len(b.sigs) + 1
         /\ c.sigs[Len(c.sigs)] = Signature(k, v)
         /\ \A i \in 1..Len(b.sigs) : c.sigs[i] = b.sigs[i]
  <1> DEFINE s == Signature(k, v)
             c == AddSignature(b, k, v)
  <1>1. s \in Sig
    BY DEF Signature, Sig
  <1>2. b.sigs \in Seq(Sig)
    BY DEF Blocks
  <1>3. /\ Append(b.sigs, s) \in Seq(Sig)
        /\ Len(b.sigs) \in Nat
        /\ Len(Append(b.sigs, s)) = Len(b.sigs) + 1
        /\ Append(b.sigs, s)[Len(b.sigs) + 1] = s
        /\ \A i \in 1..Len(b.sigs) : Append(b.sigs, s)[i] = b.sigs[i]
    BY <1>1, <1>2
  <1>4. c = [b EXCEPT !.sigs = Append(b.sigs, s)]
    BY DEF AddSignature
  <1>5. /\ c \in Blocks
        /\ c.hash = b.hash /\ c.height = b.height /\ c.prev = b.prev /\ c.doc = b.doc
        /\ c.sigs = Append(b.sigs, s)
    BY <1>3, <1>4 DEF Blocks
  <1> HIDE DEF s, c
  <1>6. QED
    BY <1>3, <1>5 DEF s, c

LEMMA NoRequestType == NoRequest \in Request /\ NoRequest.step = "idle"
  BY NewBlockFields DEF NoRequest, NewRequest, NoBlock, Request, Steps, ZeroHash, AnyDoc

LEMMA EnterRequest ==
  ASSUME req \in [Thread -> Request], NEW t \in Thread, NEW r \in Request, Enter(t, r)
  PROVE  /\ req' \in [Thread -> Request]
         /\ req'[t] = r
         /\ \A u \in Thread : u # t => req'[u] = req[u]
  BY DEF Enter

LEMMA GotoRequest ==
  ASSUME req \in [Thread -> Request], NEW t \in Thread, NEW s \in Steps,
         NEW b \in Blocks, Goto(t, s, b)
  PROVE  /\ req' \in [Thread -> Request]
         /\ req'[t].step = s /\ req'[t].block = b
         /\ req'[t].op = req[t].op /\ req'[t].key = req[t].key
         /\ \A u \in Thread : u # t => req'[u] = req[u]
  BY DEF Goto, Request

LEMMA RespondRequest ==
  ASSUME req \in [Thread -> Request], NEW t \in Thread, Respond(t)
  PROVE  /\ req' \in [Thread -> Request]
         /\ req'[t].step = "idle"
         /\ \A u \in Thread : u # t => req'[u] = req[u]
  BY NoRequestType DEF Respond

------------------------------------------------------------------------------
(* The store *)

LEMMA DiskUnchanged ==
  ASSUME DiskTypes, DiskSound, UNCHANGED disk
  PROVE  DiskTypes' /\ DiskSound'
  BY DEF disk, DiskTypes, DiskSound, ParentsStored, TipIsHighest, HeightIndexSound,
         DocIndexSound, OneSignaturePerKey, MetadataSound

\* The buckets after SaveBlock.
LEMMA SaveBlockBuckets ==
  ASSUME DiskTypes, NEW b \in Blocks, b.hash \in Hash, SaveBlock(b),
         UNCHANGED docMeta
  PROVE  /\ DiskTypes'
         /\ DOMAIN blocks' = DOMAIN blocks \cup {b.hash}
         /\ blocks'[b.hash] = b
         /\ \A h \in DOMAIN blocks : h # b.hash => blocks'[h] = blocks[h]
         /\ DOMAIN heightIdx' = DOMAIN heightIdx \cup {b.height}
         /\ heightIdx'[b.height] = b.hash
         /\ \A n \in DOMAIN heightIdx : n # b.height => heightIdx'[n] = heightIdx[n]
         /\ DOMAIN docIdx' = DOMAIN docIdx \cup {b.doc}
         /\ docIdx'[b.doc] = b.hash
         /\ \A d \in DOMAIN docIdx : d # b.doc => docIdx'[d] = docIdx[d]
         /\ IF b.height > lastHeight
              THEN lastHash' = b.hash /\ lastHeight' = b.height
              ELSE lastHash' = lastHash /\ lastHeight' = lastHeight
         /\ docMeta' = docMeta
  <1>1. /\ b.hash \in Nat /\ b.height \in Nat /\ b.doc \in AnyDoc
    BY DEF Blocks
  <1>2. /\ blocks' = Put(blocks, b.hash, b)
        /\ heightIdx' = Put(heightIdx, b.height, b.hash)
        /\ docIdx' = Put(docIdx, b.doc, b.hash)
    BY DEF SaveBlock, IndexHeight, IndexDocument
  <1>3. IF b.height > lastHeight
          THEN lastHash' = b.hash /\ lastHeight' = b.height
          ELSE lastHash' = lastHash /\ lastHeight' = lastHeight
    BY DEF SaveBlock, MovesTip
  <1>4. /\ IsBucket(blocks', Hash, Blocks)
        /\ DOMAIN blocks' = DOMAIN blocks \cup {b.hash}
        /\ blocks'[b.hash] = b
        /\ \A h \in DOMAIN blocks : h # b.hash => blocks'[h] = blocks[h]
    <2>1. IsBucket(blocks, Hash, Blocks)
      BY DEF DiskTypes
    <2> QED
      BY <1>2, <2>1 DEF Put, IsBucket
  <1>5. /\ IsBucket(heightIdx', Nat, Hash)
        /\ DOMAIN heightIdx' = DOMAIN heightIdx \cup {b.height}
        /\ heightIdx'[b.height] = b.hash
        /\ \A n \in DOMAIN heightIdx : n # b.height => heightIdx'[n] = heightIdx[n]
    <2>1. IsBucket(heightIdx, Nat, Hash) /\ b.height \in Nat /\ b.hash \in Hash
      BY <1>1 DEF DiskTypes
    <2> QED
      BY <1>2, <2>1 DEF Put, IsBucket
  <1>6. /\ IsBucket(docIdx', AnyDoc, Hash)
        /\ DOMAIN docIdx' = DOMAIN docIdx \cup {b.doc}
        /\ docIdx'[b.doc] = b.hash
        /\ \A d \in DOMAIN docIdx : d # b.doc => docIdx'[d] = docIdx[d]
    <2>1. IsBucket(docIdx, AnyDoc, Hash) /\ b.doc \in AnyDoc /\ b.hash \in Hash
      BY <1>1 DEF DiskTypes
    <2> QED
      BY <1>2, <2>1 DEF Put, IsBucket
  <1>7. DiskTypes'
    BY <1>1, <1>3, <1>4, <1>5, <1>6 DEF DiskTypes
  <1> QED
    BY <1>3, <1>4, <1>5, <1>6, <1>7

\* A block is saved whose parent is stored and which, if it is the highest,
\* hangs on the tip: the store stays sound.
LEMMA SaveNewBlock ==
  ASSUME DiskTypes, DiskSound, DOMAIN blocks # {},
         NEW b \in Blocks, b.hash \in Hash, b.hash \notin DOMAIN blocks,
         b.height \in 1..(lastHeight + 1), b.prev \in DOMAIN blocks,
         blocks[b.prev].height = b.height - 1,
         Len(b.sigs) <= 1,
         SaveBlock(b), UNCHANGED docMeta
  PROVE  DiskTypes' /\ DiskSound'
  <1>1. /\ DiskTypes'
        /\ DOMAIN blocks' = DOMAIN blocks \cup {b.hash}
        /\ blocks'[b.hash] = b
        /\ \A h \in DOMAIN blocks : blocks'[h] = blocks[h]
    BY SaveBlockBuckets
  <1>2. /\ DOMAIN heightIdx' = DOMAIN heightIdx \cup {b.height}
        /\ heightIdx'[b.height] = b.hash
        /\ \A n \in DOMAIN heightIdx : n # b.height => heightIdx'[n] = heightIdx[n]
    BY SaveBlockBuckets
  <1>3. /\ DOMAIN docIdx' = DOMAIN docIdx \cup {b.doc}
        /\ docIdx'[b.doc] = b.hash
        /\ \A d \in DOMAIN docIdx : d # b.doc => docIdx'[d] = docIdx[d]
    BY SaveBlockBuckets
  <1>4. IF b.height > lastHeight
          THEN lastHash' = b.hash /\ lastHeight' = b.height
          ELSE lastHash' = lastHash /\ lastHeight' = lastHeight
    BY SaveBlockBuckets
  <1>5. docMeta' = docMeta
    OBVIOUS
  <1>6. /\ \A h \in DOMAIN blocks : blocks[h] \in Blocks /\ blocks[h].height \in Nat
        /\ lastHeight \in Nat /\ b.height \in Nat /\ b.height # 0
        /\ b.sigs \in Seq(Sig)
    BY DEF DiskTypes, IsBucket, Blocks
  <1>7. ParentsStored'
    <2>1. \A h \in DOMAIN blocks : blocks[h].hash = h
      BY DEF DiskSound, ParentsStored
    <2>2. \A h \in DOMAIN blocks :
            IF blocks[h].height = 0
              THEN blocks[h].prev = ZeroHash /\ \A g \in DOMAIN blocks : blocks[g].height = 0 => g = h
              ELSE blocks[h].prev \in DOMAIN blocks
                   /\ blocks[blocks[h].prev].height = blocks[h].height - 1
      BY DEF DiskSound, ParentsStored
    <2> QED
      BY <1>1, <1>6, <2>1, <2>2 DEF ParentsStored
  <1>8. TipIsHighest'
    <2>1. /\ lastHash \in DOMAIN blocks
          /\ blocks[lastHash].height = lastHeight
          /\ \A h \in DOMAIN blocks : blocks[h].height <= lastHeight
      BY DEF DiskSound, TipIsHighest
    <2> QED
      BY <1>1, <1>4, <1>6, <2>1 DEF TipIsHighest
  <1>9. HeightIndexSound'
    <2>1. /\ DOMAIN heightIdx = 0..lastHeight
          /\ \A n \in DOMAIN heightIdx :
               heightIdx[n] \in DOMAIN blocks /\ blocks[heightIdx[n]].height = n
      BY DEF DiskSound, HeightIndexSound
    <2>2. DOMAIN heightIdx' = 0..lastHeight'
      BY <1>2, <1>4, <1>6, <2>1
    <2> QED
      BY <1>1, <1>2, <2>1, <2>2 DEF HeightIndexSound
  <1>10. DocIndexSound'
    <2>1. /\ \A h \in DOMAIN blocks : blocks[h].height > 0 => blocks[h].doc \in DOMAIN docIdx
          /\ \A d \in DOMAIN docIdx : docIdx[d] \in DOMAIN blocks /\ blocks[docIdx[d]].doc = d
      BY DEF DiskSound, DocIndexSound
    <2> QED
      BY <1>1, <1>3, <2>1 DEF DocIndexSound
  <1>11. OneSignaturePerKey'
    <2>1. \A i, j \in DOMAIN b.sigs : i = j
      <3>1. DOMAIN b.sigs = 1..Len(b.sigs) /\ Len(b.sigs) \in Nat
        BY <1>6
      <3> QED
        BY <3>1
    <2> QED
      BY <1>1, <2>1 DEF OneSignaturePerKey, DiskSound
  <1>12. MetadataSound'
    BY <1>1, <1>5 DEF MetadataSound, DiskSound
  <1> QED
    BY <1>1, <1>7, <1>8, <1>9, <1>10, <1>11, <1>12 DEF DiskSound

\* A stored block is written back with one signature more, of a key that had
\* none: the store stays sound, and nothing but that block changes.
LEMMA SaveSignedBlock ==
  ASSUME DiskTypes, DiskSound, NEW h \in DOMAIN blocks, NEW k \in Key,
         ~HasSignature(blocks[h], k), SaveBlock(AddSignature(blocks[h], k, TRUE)),
         UNCHANGED docMeta
  PROVE  /\ DiskTypes' /\ DiskSound'
         /\ DOMAIN blocks' = DOMAIN blocks
         /\ blocks'[h] = AddSignature(blocks[h], k, TRUE)
         /\ \A g \in DOMAIN blocks : g # h => blocks'[g] = blocks[g]
         /\ Core(blocks'[h]) = Core(blocks[h])
         /\ lastHash' = lastHash /\ lastHeight' = lastHeight
  <1> DEFINE a == blocks[h]
             b == AddSignature(a, k, TRUE)
  <1>1. /\ a \in Blocks /\ h \in Hash /\ a.hash = h
        /\ lastHeight \in Nat /\ a.height \in Nat /\ a.height <= lastHeight
        /\ a.sigs \in Seq(Sig)
    <2>1. a \in Blocks /\ h \in Hash /\ lastHeight \in Nat
      BY DEF DiskTypes, IsBucket
    <2>2. a.hash = h /\ a.height <= lastHeight
      BY DEF DiskSound, ParentsStored, TipIsHighest
    <2> QED
      BY <2>1, <2>2 DEF Blocks
  <1>2. /\ b \in Blocks
        /\ b.hash = h /\ b.height = a.height /\ b.prev = a.prev /\ b.doc = a.doc
    BY <1>1, AddSignatureFields
  <1>s. /\ Len(a.sigs) \in Nat
        /\ Len(b.sigs) = Len(a.sigs) + 1
        /\ b.sigs[Len(b.sigs)] = Signature(k, TRUE)
        /\ \A i \in 1..Len(a.sigs) : b.sigs[i] = a.sigs[i]
    BY <1>1, AddSignatureFields
  <1>t. SaveBlock(b)
    OBVIOUS
  <1> HIDE DEF a, b
  <1>3. /\ DiskTypes'
        /\ DOMAIN blocks' = DOMAIN blocks
        /\ blocks'[h] = b
        /\ \A g \in DOMAIN blocks : g # h => blocks'[g] = blocks[g]
    <2>1. /\ DiskTypes'
          /\ DOMAIN blocks' = DOMAIN blocks \cup {b.hash}
          /\ blocks'[b.hash] = b
          /\ \A g \in DOMAIN blocks : g # b.hash => blocks'[g] = blocks[g]
      BY <1>1, <1>2, <1>t, SaveBlockBuckets
    <2> QED
      BY <1>2, <2>1
  <1>4. /\ DOMAIN heightIdx' = DOMAIN heightIdx \cup {a.height}
        /\ heightIdx'[a.height] = h
        /\ \A n \in DOMAIN heightIdx : n # a.height => heightIdx'[n] = heightIdx[n]
    BY <1>1, <1>2, <1>t, SaveBlockBuckets
  <1>5. /\ DOMAIN docIdx' = DOMAIN docIdx \cup {a.doc}
        /\ docIdx'[a.doc] = h
        /\ \A d \in DOMAIN docIdx : d # a.doc => docIdx'[d] = docIdx[d]
    BY <1>1, <1>2, <1>t, SaveBlockBuckets
  <1>6. lastHash' = lastHash /\ lastHeight' = lastHeight
    <2>1. ~(b.height > lastHeight)
      BY <1>1, <1>2
    <2> QED
      BY <1>1, <1>2, <1>t, <2>1, SaveBlockBuckets
  <1>7. Core(b) = Core(a)
    BY <1>1, <1>2 DEF Core
  <1>8. \A g \in DOMAIN blocks :
          /\ blocks'[g].hash = blocks[g].hash /\ blocks'[g].height = blocks[g].height
          /\ blocks'[g].prev = blocks[g].prev /\ blocks'[g].doc = blocks[g].doc
    BY <1>1, <1>2, <1>3 DEF a
  <1>9. ParentsStored'
    BY <1>3, <1>8 DEF ParentsStored, DiskSound
  <1>10. TipIsHighest'
    BY <1>3, <1>6, <1>8 DEF TipIsHighest, DiskSound
  <1>11. HeightIndexSound'
    <2>1. /\ DOMAIN heightIdx = 0..lastHeight
          /\ \A n \in DOMAIN heightIdx :
               heightIdx[n] \in DOMAIN blocks /\ blocks[heightIdx[n]].height = n
      BY DEF DiskSound, HeightIndexSound
    <2>2. DOMAIN heightIdx' = 0..lastHeight'
      BY <1>1, <1>4, <1>6, <2>1
    <2>3. \A n \in DOMAIN heightIdx' :
            heightIdx'[n] \in DOMAIN blocks /\ blocks[heightIdx'[n]].height = n
      BY <1>4, <2>1 DEF a
    <2> QED
      BY <1>3, <1>8, <2>2, <2>3 DEF HeightIndexSound
  <1>12. DocIndexSound'
    <2>1. /\ \A g \in DOMAIN blocks : blocks[g].height > 0 => blocks[g].doc \in DOMAIN docIdx
          /\ \A d \in DOMAIN docIdx : docIdx[d] \in DOMAIN blocks /\ blocks[docIdx[d]].doc = d
      BY DEF DiskSound, DocIndexSound
    <2>2. \A d \in DOMAIN docIdx' : docIdx'[d] \in DOMAIN blocks /\ blocks[docIdx'[d]].doc = d
      BY <1>5, <2>1 DEF a
    <2> QED
      BY <1>3, <1>5, <1>8, <2>1, <2>2 DEF DocIndexSound
  <1>13. OneSignaturePerKey'
    <2>1. DOMAIN a.sigs = 1..Len(a.sigs) /\ DOMAIN b.sigs = 1..Len(b.sigs)
      BY <1>1, <1>2, <1>s DEF Blocks
    <2>2. \A i \in 1..Len(a.sigs) : a.sigs[i].key # k
      BY <2>1 DEF HasSignature, a
    <2>3. \A i, j \in 1..Len(a.sigs) : a.sigs[i].key = a.sigs[j].key => i = j
      BY <2>1 DEF OneSignaturePerKey, DiskSound, a
    <2>4. Signature(k, TRUE).key = k
      BY DEF Signature
    <2>5. \A i, j \in DOMAIN b.sigs : b.sigs[i].key = b.sigs[j].key => i = j
      <3>1. \A i \in DOMAIN b.sigs : i # Len(b.sigs) =>
              i \in 1..Len(a.sigs) /\ b.sigs[i].key = a.sigs[i].key
        BY <1>s, <2>1
      <3>2. b.sigs[Len(b.sigs)].key = k
        BY <1>s, <2>4
      <3> QED
        BY <2>2, <2>3, <3>1, <3>2
    <2> QED
      BY <1>3, <2>5 DEF OneSignaturePerKey, DiskSound
  <1>14. MetadataSound'
    BY <1>3, <1>8 DEF MetadataSound, DiskSound
  <1> QED
    BY <1>3, <1>6, <1>7, <1>9, <1>10, <1>11, <1>12, <1>13, <1>14 DEF DiskSound, a, b

\* The first block of an empty store.
LEMMA SaveGenesis ==
  ASSUME DiskTypes, DiskSound, DOMAIN blocks = {}, clock \in Nat, clock + 1 \in Hash,
         heightIdx = EmptyBucket, InitGenesis, UNCHANGED <<docIdx, docMeta>>
  PROVE  /\ DiskTypes' /\ DiskSound'
         /\ DOMAIN blocks' = {clock + 1}
         /\ clock' = clock + 1
  <1> DEFINE g == NewBlock(clock + 1, 0, ZeroHash, ZeroDoc)
  <1>1. /\ g \in Blocks /\ g.hash = clock + 1 /\ g.height = 0 /\ g.prev = ZeroHash
        /\ g.sigs = <<>>
    BY NewBlockFields DEF AnyDoc, ZeroHash
  <1>2. /\ blocks' = Put(blocks, g.hash, g)
        /\ heightIdx' = Put(heightIdx, 0, g.hash)
        /\ lastHash' = g.hash /\ lastHeight' = 0 /\ clock' = clock + 1
    BY DEF InitGenesis
  <1> HIDE DEF g
  <1>3. /\ IsBucket(blocks', Hash, Blocks)
        /\ DOMAIN blocks' = {g.hash} /\ blocks'[g.hash] = g
    BY <1>1, <1>2 DEF DiskTypes, IsBucket, Put
  <1>4. /\ IsBucket(heightIdx', Nat, Hash)
        /\ DOMAIN heightIdx' = {0} /\ heightIdx'[0] = g.hash
    BY <1>1, <1>2 DEF DiskTypes, IsBucket, Put, EmptyBucket
  <1>5. DiskTypes'
    BY <1>1, <1>2, <1>3, <1>4 DEF DiskTypes, ZeroHash
  <1>6. docIdx = EmptyBucket /\ docMeta = EmptyBucket
    BY DEF DiskSound, DocIndexSound, MetadataSound, DiskTypes, IsBucket, EmptyBucket
  <1>7. ParentsStored' /\ TipIsHighest'
    BY <1>1, <1>2, <1>3 DEF ParentsStored, TipIsHighest
  <1>8. HeightIndexSound'
    <2>1. 0..lastHeight' = {0}
      BY <1>2
    <2> QED
      BY <1>1, <1>3, <1>4, <2>1 DEF HeightIndexSound
  <1>9. DocIndexSound' /\ MetadataSound'
    BY <1>1, <1>3, <1>6 DEF DocIndexSound, MetadataSound, EmptyBucket
  <1>10. OneSignaturePerKey'
    BY <1>1, <1>3 DEF OneSignaturePerKey
  <1> QED
    BY <1>1, <1>2, <1>3, <1>5, <1>7, <1>8, <1>9, <1>10 DEF DiskSound

------------------------------------------------------------------------------
(* One lemma per action: it preserves the invariant *)

LEMMA InitInductive == Init => Inductive
  <1> SUFFICES ASSUME Init PROVE Inductive
    OBVIOUS
  <1> USE DEF Init
  <1>1. DiskTypes
    BY EmptyIsBucket DEF DiskTypes, ZeroHash
  <1>2. DiskSound
    BY EmptyIsBucket DEF DiskSound, ParentsStored, TipIsHighest, HeightIndexSound,
       DocIndexSound, OneSignaturePerKey, MetadataSound
  <1>3. ProcessTypes
    BY EmptyIsBucket, NoRequestType DEF ProcessTypes
  <1>4. LifeCycle
    BY EmptyIsBucket, ConstantsAssumption DEF LifeCycle
  <1>5. LocalSound
    BY NoRequestType, ConstantsAssumption
       DEF LocalSound, BuiltBlocks, BuiltContent, UploadsKept, LockProtects
  <1> QED
    BY <1>1, <1>2, <1>3, <1>4, <1>5 DEF Inductive

\* The local invariants mention the request of each thread apart, so an action
\* that changes that of t alone, to a step they say nothing of, keeps them.
LEMMA RequestEnds ==
  ASSUME Inductive, NEW t \in Thread, req' \in [Thread -> Request],
         req'[t].step \in {"idle", "next"},
         \A u \in Thread : u # t => req'[u] = req[u],
         UNCHANGED <<blocks, lastHash, lastHeight, clock, up>>,
         blockMu' = IF blockMu = t THEN Nobody ELSE blockMu,
         up
  PROVE  LocalSound' /\ LifeCycle'
  <1> USE DEF Inductive, LocalSound
  <1>1. BuiltBlocks'
    BY DEF BuiltBlocks
  <1>2. BuiltContent'
    BY DEF BuiltContent
  <1>3. UploadsKept'
    BY DEF UploadsKept
  <1>4. LockProtects'
    BY ConstantsAssumption DEF LockProtects
  <1>5. LifeCycle'
    BY DEF LifeCycle
  <1> QED
    BY <1>1, <1>2, <1>3, <1>4, <1>5

LEMMA ServingMeansUp ==
  ASSUME Inductive, NEW t \in Thread, req[t].step # "idle"
  PROVE  up /\ DOMAIN blocks # {}
  BY NoRequestType DEF Inductive, LifeCycle

LEMMA TipBlock ==
  ASSUME Inductive, up
  PROVE  /\ lastHash \in DOMAIN blocks /\ LastBlock = blocks[lastHash]
         /\ LastBlock \in Blocks
         /\ LastBlock.height = lastHeight /\ LastBlock.hash = lastHash
  BY DEF Inductive, LifeCycle, DiskSound, DiskTypes, TipIsHighest, ParentsStored,
         LastBlock, IsBucket

LEMMA NextBlockFields ==
  ASSUME Inductive, up, NEW d \in AnyDoc
  PROVE  /\ NextBlock(d) \in Blocks
         /\ NextBlock(d).hash = clock + 1
         /\ NextBlock(d).height = lastHeight + 1
         /\ NextBlock(d).prev = lastHash
         /\ NextBlock(d).doc = d
         /\ NextBlock(d).sigs = <<>>
  <1>1. clock + 1 \in Nat /\ lastHeight + 1 \in Nat /\ lastHash \in Nat
    BY DEF Inductive, DiskTypes, ProcessTypes
  <1>2. NextBlock(d) = NewBlock(clock + 1, lastHeight + 1, lastHash, d)
    BY TipBlock DEF NextBlock
  <1> QED
    BY <1>1, <1>2, NewBlockFields

LEMMA ReceiveFileStep ==
  ASSUME Inductive, NEW t \in Thread, NEW op \in {"upload", "bulk"}, NEW d \in Doc,
         ReceiveFile(t, op, d)
  PROVE  Inductive'
  <1> USE DEF Inductive
  <1>1. /\ up /\ req[t].step \in {"idle", "next"}
        /\ Enter(t, NewRequest(op, "filed", Holding(d), Nobody, FALSE))
        /\ UNCHANGED <<disk, up, blockMu, notified, clock>>
    BY DEF ReceiveFile
  <1>2. /\ req' \in [Thread -> Request]
        /\ req'[t].step = "filed" /\ req'[t].op = op /\ req'[t].block.doc = d
        /\ \A u \in Thread : u # t => req'[u] = req[u]
    <2>1. Holding(d) \in Blocks /\ Holding(d).doc = d
      BY NewBlockFields DEF Holding, ZeroHash, AnyDoc
    <2> DEFINE r == NewRequest(op, "filed", Holding(d), Nobody, FALSE)
    <2>2. r \in Request /\ r.step = "filed" /\ r.op = op /\ r.block = Holding(d)
      BY <2>1 DEF NewRequest, Request, Steps
    <2>3. req \in [Thread -> Request] /\ Enter(t, r)
      BY <1>1 DEF ProcessTypes
    <2> HIDE DEF r
    <2> QED
      BY <2>1, <2>2, <2>3, EnterRequest
  <1>3. DiskTypes' /\ DiskSound'
    BY <1>1, DiskUnchanged
  <1>4. UNCHANGED <<blocks, lastHash, lastHeight, heightIdx>>
    BY <1>1 DEF disk
  <1>5. ProcessTypes'
    BY <1>1, <1>2 DEF ProcessTypes
  <1>6. LifeCycle'
    BY <1>1, <1>4 DEF LifeCycle
  <1>7. BuiltBlocks'
    BY <1>1, <1>2, <1>4 DEF BuiltBlocks, LocalSound
  <1>8. BuiltContent'
    BY <1>1, <1>2, <1>4 DEF BuiltContent, LocalSound
  <1>9. UploadsKept'
    BY <1>1, <1>2, <1>4 DEF UploadsKept, LocalSound
  <1>10. LockProtects'
    BY <1>1, <1>2, <1>4 DEF LockProtects, LocalSound
  <1> QED
    BY <1>3, <1>4, <1>5, <1>6, <1>7, <1>8, <1>9, <1>10 DEF LocalSound

\* The thread takes a new block into its hands; the tip is still its parent.
LEMMA BlockBuilt ==
  ASSUME Inductive, up, NEW t \in Thread, clock < MaxBlocks, clock' = clock + 1,
         req[t].step \in {"idle", "filed"},
         req' \in [Thread -> Request],
         \A u \in Thread : u # t => req'[u] = req[u],
         req'[t].step = "built",
         req'[t].block.hash = clock + 1,
         req'[t].block.height = lastHeight + 1,
         req'[t].block.prev = lastHash,
         Len(req'[t].block.sigs) <= 1,
         \/ /\ req'[t].op = "create" /\ Len(req'[t].block.sigs) = 1
            /\ ~req'[t].block.sigs[1].valid
         \/ req'[t].op # "create" /\ req'[t].block.doc \in Doc,
         UNCHANGED <<disk, up, blockMu, notified>>
  PROVE  Inductive'
  <1> USE DEF Inductive
  <1>1. DiskTypes' /\ DiskSound'
    BY DiskUnchanged
  <1>2. UNCHANGED <<blocks, heightIdx, lastHash, lastHeight>>
    BY DEF disk
  <1>3. ProcessTypes'
    BY DEF ProcessTypes
  <1>4. LifeCycle'
    <2>1. DOMAIN blocks # {}
      BY DEF LifeCycle
    <2>2. clock' \in 0..MaxBlocks /\ \A h \in DOMAIN blocks : h <= clock'
      <3>1. \A h \in DOMAIN blocks : h \in Nat /\ h <= clock
        BY DEF DiskTypes, IsBucket, Hash, LifeCycle
      <3> QED
        BY <3>1, ConstantsAssumption DEF LifeCycle, ProcessTypes
    <2> QED
      BY <1>2, <2>1, <2>2 DEF LifeCycle
  <1>5. BuiltBlocks'
    <2>1. /\ lastHash \in DOMAIN blocks /\ blocks[lastHash].height = lastHeight
          /\ lastHeight \in Nat /\ clock \in Nat
          /\ \A h \in DOMAIN blocks : h <= clock
      BY DEF DiskSound, TipIsHighest, LifeCycle, DiskTypes, ProcessTypes
    <2>2. \A u \in Thread : u # t /\ req[u].step = "built" => req[u].block.hash \in 1..clock
      BY DEF LocalSound, BuiltBlocks
    <2>3. clock + 1 \notin DOMAIN blocks
      BY <2>1
    <2>4. \A u \in Thread : u # t /\ req[u].step = "built" => req[u].block.hash # clock + 1
      BY <2>1, <2>2
    <2>5. ASSUME NEW u \in Thread, u # t, req'[u].step = "built"
          PROVE  /\ req'[u].block.hash \in 1..clock'
                 /\ \A w \in Thread \ {u} : req'[w].step = "built" =>
                        req'[w].block.hash # req'[u].block.hash
                 /\ req'[u].block.hash \notin DOMAIN blocks'
                 /\ req'[u].block.height \in 1..(lastHeight' + 1)
                 /\ req'[u].block.prev \in DOMAIN blocks'
                 /\ blocks'[req'[u].block.prev].height = req'[u].block.height - 1
                 /\ req'[u].block.height = lastHeight' + 1 => req'[u].block.prev = lastHash'
      <3>1. req'[u] = req[u]
        BY <2>5
      <3>2. \A w \in Thread \ {u} : req'[w].step = "built" =>
                        req'[w].block.hash # req'[u].block.hash
        BY <2>4, <2>5, <3>1 DEF LocalSound, BuiltBlocks
      <3>3. req'[u].block.hash \in 1..clock'
        BY <2>1, <2>2, <2>5, <3>1
      <3> QED
        BY <1>2, <2>5, <3>1, <3>2, <3>3 DEF LocalSound, BuiltBlocks
    <2>6. /\ req'[t].block.hash \in 1..clock'
          /\ \A w \in Thread \ {t} : req'[w].step = "built" =>
                 req'[w].block.hash # req'[t].block.hash
          /\ req'[t].block.hash \notin DOMAIN blocks'
          /\ req'[t].block.height \in 1..(lastHeight' + 1)
          /\ req'[t].block.prev \in DOMAIN blocks'
          /\ blocks'[req'[t].block.prev].height = req'[t].block.height - 1
          /\ req'[t].block.height = lastHeight' + 1 => req'[t].block.prev = lastHash'
      BY <1>2, <2>1, <2>3, <2>4
    <2> QED
      BY <2>5, <2>6 DEF BuiltBlocks
  <1>6. BuiltContent'
    BY <1>2 DEF LocalSound, BuiltContent
  <1>7. UploadsKept'
    BY <1>2 DEF LocalSound, UploadsKept
  <1>8. LockProtects'
    BY <1>2 DEF LocalSound, LockProtects
  <1> QED
    BY <1>1, <1>3, <1>4, <1>5, <1>6, <1>7, <1>8 DEF LocalSound

LEMMA BuildBlockStep ==
  ASSUME Inductive, NEW t \in Thread, BuildBlock(t)
  PROVE  Inductive'
  <1> DEFINE b == NextBlock(req[t].block.doc)
  <1>1. /\ req[t].step = "filed" /\ clock < MaxBlocks /\ clock' = clock + 1
        /\ Goto(t, "built", b)
        /\ UNCHANGED <<disk, up, blockMu, notified>>
    BY DEF BuildBlock
  <1>2. up /\ req \in [Thread -> Request]
    BY <1>1, ServingMeansUp DEF Inductive, ProcessTypes
  <1>3. req[t].op # "create" /\ req[t].block.doc \in Doc
    BY <1>1 DEF Inductive, LocalSound, UploadsKept
  <1>4. req[t].block.doc \in AnyDoc
    BY <1>2 DEF Request, Blocks
  <1>5. /\ b \in Blocks /\ b.hash = clock + 1 /\ b.height = lastHeight + 1
        /\ b.prev = lastHash /\ b.doc = req[t].block.doc /\ b.sigs = <<>>
    BY <1>2, <1>4, NextBlockFields
  <1> HIDE DEF b
  <1>6. /\ req' \in [Thread -> Request]
        /\ req'[t].step = "built" /\ req'[t].block = b /\ req'[t].op = req[t].op
        /\ \A u \in Thread : u # t => req'[u] = req[u]
    <2>1. "built" \in Steps
      BY DEF Steps
    <2> QED
      BY <1>1, <1>2, <1>5, <2>1, GotoRequest
  <1>7. Len(b.sigs) = 0
    BY <1>5
  <1> QED
    BY <1>1, <1>2, <1>3, <1>5, <1>6, <1>7, BlockBuilt

LEMMA BuildSignedBlockStep ==
  ASSUME Inductive, NEW t \in Thread, NEW k \in Key, NEW d \in Doc,
         BuildSignedBlock(t, k, d)
  PROVE  Inductive'
  <1> DEFINE a == NextBlock(d)
             b == AddSignature(a, k, FALSE)
             r == NewRequest("create", "built", b, Nobody, FALSE)
  <1>1. /\ up /\ req[t].step = "idle" /\ clock < MaxBlocks /\ clock' = clock + 1
        /\ Enter(t, r)
        /\ UNCHANGED <<disk, up, blockMu, notified>>
    BY DEF BuildSignedBlock
  <1>2. req \in [Thread -> Request]
    BY DEF Inductive, ProcessTypes
  <1>3. /\ a \in Blocks /\ a.hash = clock + 1 /\ a.height = lastHeight + 1
        /\ a.prev = lastHash /\ a.sigs = <<>>
    BY <1>1, NextBlockFields DEF AnyDoc
  <1>4. Len(a.sigs) = 0
    BY <1>3
  <1> HIDE DEF a
  <1>5. /\ b \in Blocks /\ b.hash = clock + 1 /\ b.height = lastHeight + 1
        /\ b.prev = lastHash
        /\ Len(b.sigs) = Len(a.sigs) + 1
        /\ b.sigs[Len(b.sigs)] = Signature(k, FALSE)
    BY <1>3, AddSignatureFields
  <1> HIDE DEF b
  <1>6. Len(b.sigs) = 1 /\ Len(b.sigs) <= 1 /\ ~b.sigs[1].valid
    <2>1. Len(b.sigs) = 1 /\ Len(b.sigs) <= 1
      BY <1>4, <1>5
    <2>2. b.sigs[1] = Signature(k, FALSE)
      BY <1>5, <2>1
    <2>3. ~Signature(k, FALSE).valid
      BY DEF Signature
    <2> QED
      BY <2>1, <2>2, <2>3
  <1>7. r \in Request /\ r.step = "built" /\ r.op = "create" /\ r.block = b
    BY <1>5 DEF NewRequest, Request, Steps
  <1> HIDE DEF r
  <1>8. /\ req' \in [Thread -> Request] /\ req'[t] = r
        /\ \A u \in Thread : u # t => req'[u] = req[u]
    BY <1>1, <1>2, <1>7, EnterRequest
  <1>9. req'[t].step = "built" /\ req'[t].op = "create" /\ req'[t].block = b
    BY <1>7, <1>8
  <1>10. /\ req'[t].block.hash = clock + 1 /\ req'[t].block.height = lastHeight + 1
         /\ req'[t].block.prev = lastHash
         /\ Len(req'[t].block.sigs) <= 1
         /\ Len(req'[t].block.sigs) = 1 /\ ~req'[t].block.sigs[1].valid
    BY <1>5, <1>6, <1>9
  <1>11. /\ req' \in [Thread -> Request]
         /\ \A u \in Thread : u # t => req'[u] = req[u]
         /\ req[t].step \in {"idle", "filed"}
    BY <1>1, <1>8
  <1>12. /\ up /\ clock < MaxBlocks /\ clock' = clock + 1
         /\ UNCHANGED <<disk, up, blockMu, notified>>
    BY <1>1
  <1> QED
    BY <1>9, <1>10, <1>11, <1>12, BlockBuilt

LEMMA StoreBlockStep ==
  ASSUME Inductive, NEW t \in Thread, StoreBlock(t)
  PROVE  Inductive'
  <1> DEFINE b == req[t].block
  <1>1. /\ req[t].step = "built"
        /\ SaveBlock(b)
        /\ IF req[t].op = "create" THEN Respond(t) ELSE Goto(t, "stored", b)
        /\ UNCHANGED <<docMeta, up, blockMu, notified, clock>>
    BY DEF StoreBlock
  <1>2. /\ up /\ DOMAIN blocks # {} /\ req \in [Thread -> Request]
        /\ b \in Blocks /\ b.doc \in AnyDoc
    BY <1>1, ServingMeansUp DEF Inductive, ProcessTypes, Request, Blocks
  <1>3. /\ b.hash \in 1..clock /\ b.hash \notin DOMAIN blocks
        /\ b.height \in 1..(lastHeight + 1)
        /\ b.prev \in DOMAIN blocks /\ blocks[b.prev].height = b.height - 1
        /\ \A u \in Thread \ {t} : req[u].step = "built" => req[u].block.hash # b.hash
    BY <1>1 DEF Inductive, LocalSound, BuiltBlocks
  <1>4. /\ Len(b.sigs) <= 1
        /\ \/ req[t].op = "create" /\ Len(b.sigs) = 1 /\ ~b.sigs[1].valid
           \/ req[t].op # "create" /\ b.doc \in Doc
    BY <1>1 DEF Inductive, LocalSound, BuiltContent
  <1>5. b.hash \in Hash /\ clock \in 0..MaxBlocks
    BY <1>3, ConstantsAssumption DEF Inductive, LifeCycle, Hash
  <1>6. /\ req' \in [Thread -> Request]
        /\ \A u \in Thread : u # t => req'[u] = req[u]
        /\ \/ req'[t].step = "idle"
           \/ req'[t].step = "stored" /\ req'[t].block = b /\ req[t].op # "create"
    <2>1. "stored" \in Steps
      BY DEF Steps
    <2>2. CASE req[t].op = "create"
      BY <1>1, <1>2, <2>2, RespondRequest
    <2>3. CASE req[t].op # "create"
      BY <1>1, <1>2, <2>1, <2>3, GotoRequest
    <2> QED
      BY <2>2, <2>3
  <1> HIDE DEF b
  <1>7. /\ DiskTypes' /\ DiskSound'
    BY <1>1, <1>2, <1>3, <1>4, <1>5, SaveNewBlock DEF Inductive
  <1>8. /\ DOMAIN blocks' = DOMAIN blocks \cup {b.hash}
        /\ blocks'[b.hash] = b
        /\ \A h \in DOMAIN blocks : blocks'[h] = blocks[h]
    BY <1>1, <1>2, <1>3, <1>5, SaveBlockBuckets DEF Inductive
  <1>9. IF b.height > lastHeight
          THEN lastHash' = b.hash /\ lastHeight' = b.height
          ELSE lastHash' = lastHash /\ lastHeight' = lastHeight
    BY <1>1, <1>2, <1>5, SaveBlockBuckets DEF Inductive
  <1>10. ProcessTypes'
    BY <1>1, <1>6 DEF Inductive, ProcessTypes
  <1>11. LifeCycle'
    <2>1. \A h \in DOMAIN blocks' : h <= clock'
      BY <1>1, <1>3, <1>8 DEF Inductive, LifeCycle
    <2> QED
      BY <1>1, <1>2, <1>8, <2>1 DEF Inductive, LifeCycle
  <1>12. BuiltBlocks'
    <2> SUFFICES ASSUME NEW u \in Thread, req'[u].step = "built"
                 PROVE  /\ req'[u].block.hash \in 1..clock'
                        /\ req'[u].block.hash \notin DOMAIN blocks'
                        /\ \A w \in Thread \ {u} : req'[w].step = "built" =>
                              req'[w].block.hash # req'[u].block.hash
                        /\ req'[u].block.height \in 1..(lastHeight' + 1)
                        /\ req'[u].block.prev \in DOMAIN blocks'
                        /\ blocks'[req'[u].block.prev].height = req'[u].block.height - 1
                        /\ req'[u].block.height = lastHeight' + 1 => req'[u].block.prev = lastHash'
      BY DEF BuiltBlocks
    <2>1. u # t /\ req'[u] = req[u]
      BY <1>6
    <2>2. /\ req[u].block.hash \in 1..clock
          /\ req[u].block.hash \notin DOMAIN blocks
          /\ \A w \in Thread \ {u} : req[w].step = "built" =>
                req[w].block.hash # req[u].block.hash
          /\ req[u].block.height \in 1..(lastHeight + 1)
          /\ req[u].block.prev \in DOMAIN blocks
          /\ blocks[req[u].block.prev].height = req[u].block.height - 1
          /\ req[u].block.height = lastHeight + 1 => req[u].block.prev = lastHash
      BY <2>1 DEF Inductive, LocalSound, BuiltBlocks
    <2>3. req[u].block.hash # b.hash
      BY <1>3, <2>1
    <2>4. \A w \in Thread \ {u} : req'[w].step = "built" =>
             req'[w].block.hash # req'[u].block.hash
      BY <1>6, <2>1, <2>2
    <2>5. lastHeight \in Nat /\ b.height \in Nat
      BY <1>2 DEF Inductive, DiskTypes, Blocks
    <2>6. /\ req[u].block.height \in 1..(lastHeight' + 1)
          /\ req[u].block.height = lastHeight' + 1 => req[u].block.prev = lastHash'
      BY <1>3, <1>9, <2>2, <2>5
    <2> QED
      BY <1>1, <1>8, <2>1, <2>2, <2>3, <2>4, <2>6
  <1>13. BuiltContent'
    BY <1>1, <1>6 DEF Inductive, LocalSound, BuiltContent
  <1>14. UploadsKept'
    <2>1. req[t].op # "create" => b.doc \in Doc
      BY <1>4
    <2> QED
      BY <1>1, <1>6, <1>8, <2>1 DEF Inductive, LocalSound, UploadsKept
  <1>15. LockProtects'
    <2> SUFFICES ASSUME NEW u \in Thread
                 PROVE  /\ blockMu = u <=> req'[u].step \in {"locked", "signed"}
                        /\ req'[u].step \in {"locked", "signed"} =>
                             req'[u].block.hash \in DOMAIN blocks'
                        /\ req'[u].step = "locked" =>
                             /\ req'[u].key \in Key
                             /\ req'[u].block = AddSignature(blocks'[req'[u].block.hash],
                                                            req'[u].key, TRUE)
                             /\ ~HasSignature(blocks'[req'[u].block.hash], req'[u].key)
                        /\ req'[u].step = "checked" => req'[u].key \in Key
      BY <1>1 DEF LockProtects
    <2>1. /\ blockMu = u <=> req[u].step \in {"locked", "signed"}
          /\ req[u].step \in {"locked", "signed"} => req[u].block.hash \in DOMAIN blocks
          /\ req[u].step = "locked" =>
               /\ req[u].key \in Key
               /\ req[u].block = AddSignature(blocks[req[u].block.hash], req[u].key, TRUE)
               /\ ~HasSignature(blocks[req[u].block.hash], req[u].key)
          /\ req[u].step = "checked" => req[u].key \in Key
      BY DEF Inductive, LocalSound, LockProtects
    <2>2. CASE u = t
      BY <1>1, <1>6, <2>1, <2>2
    <2>3. CASE u # t
      <3>1. req'[u] = req[u]
        BY <1>6, <2>3
      <3>2. req[u].step = "locked" => blocks'[req[u].block.hash] = blocks[req[u].block.hash]
        BY <1>8, <2>1
      <3> QED
        BY <1>8, <2>1, <3>1, <3>2
    <2> QED
      BY <2>2, <2>3
  <1> QED
    BY <1>7, <1>10, <1>11, <1>12, <1>13, <1>14, <1>15 DEF Inductive, LocalSound

\* A handler returns, or a bulk upload comes to its next file, and the disk
\* stays as it is.
LEMMA QuietEnd ==
  ASSUME Inductive, NEW t \in Thread, req[t].step # "idle",
         Respond(t) \/ Goto(t, "next", NoBlock),
         UNCHANGED <<disk, up, clock>>,
         blockMu' = IF req[t].step \in {"locked", "signed"} THEN Nobody ELSE blockMu,
         IsBucket(notified', Hash, Nat)
  PROVE  Inductive'
  <1>1. DiskTypes' /\ DiskSound'
    BY DiskUnchanged DEF Inductive
  <1>2. /\ req' \in [Thread -> Request]
        /\ req'[t].step \in {"idle", "next"}
        /\ \A u \in Thread : u # t => req'[u] = req[u]
    <2>1. NoBlock \in Blocks /\ "next" \in Steps /\ req \in [Thread -> Request]
      BY NewBlockFields DEF NoBlock, Steps, ZeroHash, AnyDoc, Inductive, ProcessTypes
    <2>2. CASE Respond(t)
      BY <2>1, <2>2, RespondRequest
    <2>3. CASE Goto(t, "next", NoBlock)
      BY <2>1, <2>3, GotoRequest
    <2> QED
      BY <2>2, <2>3
  <1>3. blockMu' = IF blockMu = t THEN Nobody ELSE blockMu
    BY DEF Inductive, LocalSound, LockProtects
  <1>4. ProcessTypes'
    BY <1>2, <1>3 DEF Inductive, ProcessTypes
  <1>5. LocalSound' /\ LifeCycle'
    BY <1>2, <1>3, RequestEnds, ServingMeansUp DEF disk
  <1> QED
    BY <1>1, <1>4, <1>5 DEF Inductive

LEMMA UploadFailsStep ==
  ASSUME Inductive, NEW t \in Thread, UploadFails(t)
  PROVE  Inductive'
  BY QuietEnd DEF UploadFails, Inductive, ProcessTypes

LEMMA StoreBlockFailsStep ==
  ASSUME Inductive, NEW t \in Thread, StoreBlockFails(t)
  PROVE  Inductive'
  BY QuietEnd DEF StoreBlockFails, Inductive, ProcessTypes

LEMMA SaveMetadataFailsStep ==
  ASSUME Inductive, NEW t \in Thread, SaveMetadataFails(t)
  PROVE  Inductive'
  BY QuietEnd DEF SaveMetadataFails, Inductive, ProcessTypes

LEMMA BulkDoneStep ==
  ASSUME Inductive, NEW t \in Thread, BulkDone(t)
  PROVE  Inductive'
  BY QuietEnd DEF BulkDone, Inductive, ProcessTypes

LEMMA LockAndRejectStep ==
  ASSUME Inductive, NEW t \in Thread, LockAndReject(t)
  PROVE  Inductive'
  BY QuietEnd DEF LockAndReject, Inductive, ProcessTypes

LEMMA StoreSignatureFailsStep ==
  ASSUME Inductive, NEW t \in Thread, StoreSignatureFails(t)
  PROVE  Inductive'
  BY QuietEnd DEF StoreSignatureFails, Inductive, ProcessTypes

LEMMA ValidSignaturesType == \A b \in Blocks : ValidSignatures(b) \in Nat
  <1> SUFFICES ASSUME NEW b \in Blocks PROVE ValidSignatures(b) \in Nat
    OBVIOUS
  <1> DEFINE S == {i \in DOMAIN b.sigs : b.sigs[i].valid}
  <1>1. DOMAIN b.sigs = 1..Len(b.sigs) /\ Len(b.sigs) \in Nat
    BY DEF Blocks
  <1>2. IsFiniteSet(1..Len(b.sigs))
    BY <1>1, FS_Interval
  <1>3. S \subseteq 1..Len(b.sigs)
    BY <1>1
  <1>4. IsFiniteSet(S)
    BY <1>2, <1>3, FS_Subset
  <1>5. Cardinality(S) \in Nat
    BY <1>4, FS_CardinalityType
  <1> QED
    BY <1>5 DEF ValidSignatures

LEMMA AnswerSignatureStep ==
  ASSUME Inductive, NEW t \in Thread, AnswerSignature(t)
  PROVE  Inductive'
  <1> DEFINE b == req[t].block
  <1>1. /\ req[t].step = "signed" /\ Respond(t) /\ blockMu' = Nobody
        /\ notified' = Put(notified, b.hash, ValidSignatures(b))
        /\ UNCHANGED <<disk, up, clock>>
    BY DEF AnswerSignature
  <1>2. b \in Blocks /\ b.hash \in Hash /\ IsBucket(notified, Hash, Nat)
    BY <1>1 DEF Inductive, ProcessTypes, Request, LocalSound, LockProtects, DiskTypes, IsBucket
  <1>3. ValidSignatures(b) \in Nat
    BY <1>2, ValidSignaturesType
  <1>4. IsBucket(notified', Hash, Nat)
    BY <1>1, <1>2, <1>3 DEF IsBucket, Put
  <1> QED
    BY <1>1, <1>4, QuietEnd

LEMMA AnnounceBlockStep ==
  ASSUME Inductive, NEW t \in Thread, AnnounceBlock(t)
  PROVE  Inductive'
  <1>1. /\ req[t].step = "stored"
        /\ UNCHANGED <<disk, up, blockMu, notified, clock>>
    BY DEF AnnounceBlock
  <1>2. CASE req[t].op # "bulk"
    BY <1>1, <1>2, QuietEnd DEF AnnounceBlock, Inductive, ProcessTypes
  <1>3. CASE req[t].op = "bulk"
    <2> DEFINE b == req[t].block
    <2>1. Goto(t, "announced", b)
      BY <1>3 DEF AnnounceBlock
    <2>2. /\ req' \in [Thread -> Request]
          /\ req'[t].step = "announced" /\ req'[t].block = req[t].block
          /\ \A u \in Thread : u # t => req'[u] = req[u]
      <3>1. "announced" \in Steps /\ req \in [Thread -> Request] /\ b \in Blocks
        BY DEF Steps, Inductive, ProcessTypes, Request
      <3> QED
        BY <2>1, <3>1, GotoRequest
    <2>3. UNCHANGED <<blocks, lastHash, lastHeight, heightIdx>>
      BY <1>1 DEF disk
    <2>4. DiskTypes' /\ DiskSound'
      BY <1>1, DiskUnchanged DEF Inductive
    <2>5. ProcessTypes'
      BY <1>1, <2>2 DEF Inductive, ProcessTypes
    <2>6. LifeCycle'
      BY <1>1, <2>3, ServingMeansUp DEF Inductive, LifeCycle
    <2>7. BuiltBlocks'
      BY <1>1, <2>2, <2>3 DEF Inductive, LocalSound, BuiltBlocks
    <2>8. BuiltContent'
      BY <1>1, <2>2, <2>3 DEF Inductive, LocalSound, BuiltContent
    <2>9. UploadsKept'
      BY <1>1, <2>2, <2>3 DEF Inductive, LocalSound, UploadsKept
    <2>10. LockProtects'
      BY <1>1, <2>2, <2>3 DEF Inductive, LocalSound, LockProtects
    <2> QED
      BY <2>4, <2>5, <2>6, <2>7, <2>8, <2>9, <2>10 DEF Inductive, LocalSound
  <1> QED
    BY <1>2, <1>3

LEMMA SaveMetadataStep ==
  ASSUME Inductive, NEW t \in Thread, SaveMetadata(t)
  PROVE  Inductive'
  <1> DEFINE b == req[t].block
  <1>1. /\ req[t].step = "announced"
        /\ docMeta' = Put(docMeta, b.doc, b.hash)
        /\ Goto(t, "next", NoBlock)
        /\ UNCHANGED <<blocks, heightIdx, docIdx, lastHash, lastHeight,
                       up, blockMu, notified, clock>>
    BY DEF SaveMetadata
  <1>2. /\ b.doc \in Doc /\ b.hash \in DOMAIN blocks /\ blocks[b.hash].doc = b.doc
    BY <1>1 DEF Inductive, LocalSound, UploadsKept
  <1>3. b.doc \in Doc /\ b.hash \in Hash
    BY <1>2 DEF Inductive, DiskTypes, IsBucket
  <1>4. /\ IsBucket(docMeta', Doc, Hash)
        /\ DOMAIN docMeta' = DOMAIN docMeta \cup {b.doc}
        /\ docMeta'[b.doc] = b.hash
        /\ \A d \in DOMAIN docMeta : d # b.doc => docMeta'[d] = docMeta[d]
    BY <1>1, <1>3 DEF Inductive, DiskTypes, IsBucket, Put
  <1>5. DiskTypes'
    BY <1>1, <1>4 DEF Inductive, DiskTypes
  <1>6. MetadataSound'
    BY <1>1, <1>2, <1>4 DEF Inductive, DiskSound, MetadataSound
  <1>7. DiskSound'
    BY <1>1, <1>6 DEF Inductive, DiskSound, ParentsStored, TipIsHighest, HeightIndexSound,
       DocIndexSound, OneSignaturePerKey
  <1>8. /\ req' \in [Thread -> Request]
        /\ req'[t].step \in {"idle", "next"}
        /\ \A u \in Thread : u # t => req'[u] = req[u]
    <2>1. NoBlock \in Blocks /\ "next" \in Steps /\ req \in [Thread -> Request]
      BY NewBlockFields DEF NoBlock, Steps, ZeroHash, AnyDoc, Inductive, ProcessTypes
    <2> QED
      BY <1>1, <2>1, GotoRequest
  <1>9. blockMu # t /\ up
    BY <1>1, ServingMeansUp DEF Inductive, LocalSound, LockProtects
  <1>10. ProcessTypes'
    BY <1>1, <1>8 DEF Inductive, ProcessTypes
  <1>11. LocalSound' /\ LifeCycle'
    BY <1>1, <1>8, <1>9, RequestEnds
  <1> QED
    BY <1>5, <1>7, <1>10, <1>11 DEF Inductive

\* A thread that waits for blockMu or has just taken it: the blocks in the
\* hands of the others do not matter to it.
LEMMA SigningProgress ==
  ASSUME Inductive, NEW t \in Thread, UNCHANGED <<disk, up, notified, clock>>, up,
         req[t].step \in {"idle", "checked"},
         req' \in [Thread -> Request],
         \A u \in Thread : u # t => req'[u] = req[u],
         req'[t].step \in {"checked", "locked"}, req'[t].key \in Key,
         blockMu' = IF req'[t].step = "locked" THEN t ELSE blockMu,
         req'[t].step = "locked" =>
           LET b == req'[t].block IN
           /\ blockMu = Nobody
           /\ b.hash \in DOMAIN blocks
           /\ b = AddSignature(blocks[b.hash], req'[t].key, TRUE)
           /\ ~HasSignature(blocks[b.hash], req'[t].key)
  PROVE  Inductive'
  <1> USE DEF Inductive
  <1>1. DiskTypes' /\ DiskSound'
    BY DiskUnchanged
  <1>2. UNCHANGED <<blocks, heightIdx, lastHash, lastHeight>>
    BY DEF disk
  <1>3. ProcessTypes'
    BY DEF ProcessTypes
  <1>4. LifeCycle'
    BY <1>2 DEF LifeCycle
  <1>5. BuiltBlocks'
    BY <1>2 DEF LocalSound, BuiltBlocks
  <1>6. BuiltContent'
    BY <1>2 DEF LocalSound, BuiltContent
  <1>7. UploadsKept'
    BY <1>2 DEF LocalSound, UploadsKept
  <1>8. LockProtects'
    <2>1. ASSUME NEW u \in Thread, u # t
          PROVE  /\ blockMu' = u <=> req'[u].step \in {"locked", "signed"}
                 /\ req'[u].step \in {"locked", "signed"} => req'[u].block.hash \in DOMAIN blocks
                 /\ req'[u].step = "locked" =>
                      /\ req'[u].key \in Key
                      /\ req'[u].block = AddSignature(blocks[req'[u].block.hash], req'[u].key, TRUE)
                      /\ ~HasSignature(blocks[req'[u].block.hash], req'[u].key)
                 /\ req'[u].step = "checked" => req'[u].key \in Key
      BY <2>1, ConstantsAssumption DEF LocalSound, LockProtects
    <2>2. blockMu # t
      BY DEF LocalSound, LockProtects
    <2> QED
      BY <1>2, <2>1, <2>2 DEF LockProtects
  <1> QED
    BY <1>1, <1>3, <1>4, <1>5, <1>6, <1>7, <1>8 DEF LocalSound

LEMMA BeginSignStep ==
  ASSUME Inductive, NEW t \in Thread, NEW h \in DOMAIN blocks \cup {ZeroHash},
         NEW k \in Key, NEW valid \in BOOLEAN, BeginSign(t, h, k, valid)
  PROVE  Inductive'
  <1> DEFINE r == NewRequest("sign", "checked", Naming(h), k, valid)
  <1>1. /\ up /\ req[t].step = "idle" /\ Enter(t, r)
        /\ UNCHANGED <<disk, up, blockMu, notified, clock>>
    BY DEF BeginSign
  <1>2. req \in [Thread -> Request]
    BY DEF Inductive, ProcessTypes
  <1>3. Naming(h) \in Blocks
    <2>1. h \in Nat
      BY DEF Inductive, DiskTypes, IsBucket, Hash, ZeroHash
    <2> QED
      BY <2>1, NewBlockFields DEF Naming, ZeroHash, AnyDoc
  <1>4. r \in Request /\ r.step = "checked" /\ r.key = k
    BY <1>3 DEF NewRequest, Request, Steps
  <1> HIDE DEF r
  <1>5. /\ req' \in [Thread -> Request] /\ req'[t] = r
        /\ \A u \in Thread : u # t => req'[u] = req[u]
    BY <1>1, <1>2, <1>4, EnterRequest
  <1> QED
    BY <1>1, <1>4, <1>5, SigningProgress

LEMMA LockAndSignStep ==
  ASSUME Inductive, NEW t \in Thread, LockAndSign(t)
  PROVE  Inductive'
  <1> DEFINE h == req[t].block.hash
             k == req[t].key
             b == AddSignature(blocks[h], k, TRUE)
  <1>1. /\ req[t].step = "checked" /\ blockMu = Nobody /\ blockMu' = t
        /\ h \in DOMAIN blocks /\ ~HasSignature(blocks[h], k)
        /\ Goto(t, "locked", b)
        /\ UNCHANGED <<disk, up, notified, clock>>
    BY DEF LockAndSign, LockFree, Signable
  <1>2. /\ up /\ k \in Key /\ req \in [Thread -> Request]
    BY <1>1, ServingMeansUp DEF Inductive, ProcessTypes, LocalSound, LockProtects
  <1>3. blocks[h] \in Blocks /\ blocks[h].hash = h
    BY <1>1 DEF Inductive, DiskTypes, IsBucket, DiskSound, ParentsStored
  <1>4. b \in Blocks /\ b.hash = h
    BY <1>2, <1>3, AddSignatureFields
  <1>5. b = AddSignature(blocks[h], k, TRUE)
    OBVIOUS
  <1> HIDE DEF b
  <1>6. /\ req' \in [Thread -> Request]
        /\ req'[t].step = "locked" /\ req'[t].block = b /\ req'[t].key = k
        /\ \A u \in Thread : u # t => req'[u] = req[u]
    <2>1. "locked" \in Steps
      BY DEF Steps
    <2> QED
      BY <1>1, <1>2, <1>4, <2>1, GotoRequest
  <1>7. /\ req'[t].block.hash = h
        /\ req'[t].block = AddSignature(blocks[h], req'[t].key, TRUE)
        /\ ~HasSignature(blocks[h], req'[t].key)
    BY <1>1, <1>4, <1>5, <1>6
  <1> HIDE DEF h, k
  <1> QED
    BY <1>1, <1>2, <1>6, <1>7, SigningProgress DEF h

\* What the save of a signature changes: one entry more in one block.
LEMMA SignatureStored ==
  ASSUME Inductive, NEW t \in Thread, StoreSignature(t)
  PROVE  LET h == req[t].block.hash
             k == req[t].key
         IN /\ h \in DOMAIN blocks /\ k \in Key /\ ~HasSignature(blocks[h], k)
            /\ DiskTypes' /\ DiskSound'
            /\ DOMAIN blocks' = DOMAIN blocks
            /\ blocks'[h] = AddSignature(blocks[h], k, TRUE)
            /\ \A g \in DOMAIN blocks : g # h => blocks'[g] = blocks[g]
            /\ Core(blocks'[h]) = Core(blocks[h])
            /\ lastHash' = lastHash /\ lastHeight' = lastHeight
  <1> DEFINE h == req[t].block.hash
             k == req[t].key
  <1>1. /\ req[t].step = "locked" /\ SaveBlock(req[t].block)
        /\ UNCHANGED docMeta
    BY DEF StoreSignature
  <1>2. /\ h \in DOMAIN blocks /\ k \in Key /\ ~HasSignature(blocks[h], k)
        /\ req[t].block = AddSignature(blocks[h], k, TRUE)
    BY <1>1 DEF Inductive, LocalSound, LockProtects
  <1>3. SaveBlock(AddSignature(blocks[h], k, TRUE))
    BY <1>1, <1>2
  <1> HIDE DEF h, k
  <1> QED
    BY <1>1, <1>2, <1>3, SaveSignedBlock DEF Inductive, h, k

LEMMA StoreSignatureStep ==
  ASSUME Inductive, NEW t \in Thread, StoreSignature(t)
  PROVE  Inductive'
  <1> DEFINE h == req[t].block.hash
             k == req[t].key
  <1>1. /\ req[t].step = "locked" /\ Goto(t, "signed", req[t].block)
        /\ UNCHANGED <<docMeta, up, blockMu, notified, clock>>
    BY DEF StoreSignature
  <1>2. /\ h \in DOMAIN blocks
        /\ DiskTypes' /\ DiskSound'
        /\ DOMAIN blocks' = DOMAIN blocks
        /\ \A g \in DOMAIN blocks : g # h => blocks'[g] = blocks[g]
        /\ Core(blocks'[h]) = Core(blocks[h])
        /\ lastHash' = lastHash /\ lastHeight' = lastHeight
    BY SignatureStored
  <1>3. \A g \in DOMAIN blocks : blocks'[g].height = blocks[g].height /\ blocks'[g].doc = blocks[g].doc
    BY <1>2 DEF Core
  <1>4. /\ req' \in [Thread -> Request]
        /\ req'[t].step = "signed" /\ req'[t].block = req[t].block
        /\ \A u \in Thread : u # t => req'[u] = req[u]
    <2>1. /\ "signed" \in Steps /\ req \in [Thread -> Request] /\ req[t].block \in Blocks
      BY DEF Steps, Inductive, ProcessTypes, Request
    <2> QED
      BY <1>1, <2>1, GotoRequest
  <1> HIDE DEF h, k
  <1>5. ProcessTypes'
    BY <1>1, <1>4 DEF Inductive, ProcessTypes
  <1>6. LifeCycle'
    BY <1>1, <1>2, ServingMeansUp DEF Inductive, LifeCycle
  <1>7. BuiltBlocks'
    BY <1>1, <1>2, <1>3, <1>4 DEF Inductive, LocalSound, BuiltBlocks
  <1>8. BuiltContent'
    BY <1>1, <1>4 DEF Inductive, LocalSound, BuiltContent
  <1>9. UploadsKept'
    BY <1>1, <1>2, <1>3, <1>4 DEF Inductive, LocalSound, UploadsKept
  <1>10. LockProtects'
    <2>1. blockMu = t /\ \A u \in Thread : u # t => req[u].step \notin {"locked", "signed"}
      BY <1>1 DEF Inductive, LocalSound, LockProtects
    <2> QED
      BY <1>1, <1>2, <1>4, <2>1 DEF Inductive, LocalSound, LockProtects, h
  <1> QED
    BY <1>2, <1>5, <1>6, <1>7, <1>8, <1>9, <1>10 DEF Inductive, LocalSound

\* With no request under way the invariants of the threads hold trivially.
LEMMA AllIdle ==
  ASSUME req' = [t \in Thread |-> NoRequest], blockMu' = Nobody
  PROVE  LocalSound' /\ req' \in [Thread -> Request]
  BY NoRequestType, ConstantsAssumption
     DEF LocalSound, BuiltBlocks, BuiltContent, UploadsKept, LockProtects

LEMMA CrashStep ==
  ASSUME Inductive, Crash
  PROVE  Inductive'
  <1> USE DEF Inductive, Crash
  <1>1. DiskTypes' /\ DiskSound'
    BY DiskUnchanged
  <1>2. LocalSound' /\ req' \in [Thread -> Request]
    BY AllIdle
  <1>3. ProcessTypes'
    BY <1>2, EmptyIsBucket DEF ProcessTypes
  <1>4. LifeCycle'
    BY DEF LifeCycle, disk
  <1> QED
    BY <1>1, <1>2, <1>3, <1>4

LEMMA StartStep ==
  ASSUME Inductive, Start
  PROVE  Inductive'
  <1> USE DEF Inductive
  <1>1. /\ ~up /\ up' /\ InitGenesis
        /\ UNCHANGED <<docIdx, docMeta, blockMu, req, notified>>
    BY DEF Start
  <1>2. LocalSound' /\ req' \in [Thread -> Request]
    <2>1. req' = [t \in Thread |-> NoRequest]
      BY <1>1 DEF LifeCycle
    <2>2. blockMu' = Nobody
      BY <1>1, <2>1, NoRequestType DEF LocalSound, LockProtects, ProcessTypes, LifeCycle
    <2> QED
      BY <2>1, <2>2, AllIdle
  <1>3. CASE DOMAIN blocks # {}
    <2>1. UNCHANGED <<blocks, heightIdx, lastHash, lastHeight, clock>>
      BY <1>1, <1>3 DEF InitGenesis
    <2>2. DiskTypes' /\ DiskSound'
      BY <1>1, <2>1, DiskUnchanged DEF disk
    <2>3. ProcessTypes' /\ LifeCycle'
      BY <1>1, <1>2, <1>3, <2>1 DEF ProcessTypes, LifeCycle
    <2> QED
      BY <1>2, <2>2, <2>3
  <1>4. CASE DOMAIN blocks = {}
    <2>1. clock = 0 /\ heightIdx = EmptyBucket
      BY <1>4 DEF LifeCycle
    <2>2. clock \in Nat /\ clock + 1 \in Hash /\ clock + 1 <= MaxBlocks
      BY <2>1, ConstantsAssumption DEF Hash
    <2>3. /\ DiskTypes' /\ DiskSound'
          /\ DOMAIN blocks' = {clock + 1} /\ clock' = clock + 1
      BY <1>1, <1>4, <2>1, <2>2, SaveGenesis
    <2>4. ProcessTypes' /\ LifeCycle'
      BY <1>1, <1>2, <2>1, <2>2, <2>3 DEF ProcessTypes, LifeCycle
    <2> QED
      BY <1>2, <2>3, <2>4
  <1> QED
    BY <1>3, <1>4

LEMMA ProceedInductive ==
  ASSUME Inductive, NEW t \in Thread, Proceed(t)
  PROVE  Inductive'
  <1>1. CASE BuildBlock(t)
    BY <1>1, BuildBlockStep
  <1>2. CASE StoreBlock(t)
    BY <1>2, StoreBlockStep
  <1>3. CASE StoreBlockFails(t)
    BY <1>3, StoreBlockFailsStep
  <1>4. CASE AnnounceBlock(t)
    BY <1>4, AnnounceBlockStep
  <1>5. CASE SaveMetadata(t)
    BY <1>5, SaveMetadataStep
  <1>6. CASE BulkDone(t)
    BY <1>6, BulkDoneStep
  <1>7. CASE LockAndSign(t)
    BY <1>7, LockAndSignStep
  <1>8. CASE LockAndReject(t)
    BY <1>8, LockAndRejectStep
  <1>9. CASE StoreSignature(t)
    BY <1>9, StoreSignatureStep
  <1>10. CASE StoreSignatureFails(t)
    BY <1>10, StoreSignatureFailsStep
  <1>11. CASE AnswerSignature(t)
    BY <1>11, AnswerSignatureStep
  <1>12. CASE SaveMetadataFails(t)
    BY <1>12, SaveMetadataFailsStep
  <1>13. CASE UploadFails(t)
    BY <1>13, UploadFailsStep
  <1> QED
    BY <1>1, <1>2, <1>3, <1>4, <1>5, <1>6, <1>7, <1>8, <1>9, <1>10, <1>11, <1>12, <1>13
       DEF Proceed, Work, Send

LEMMA NextInductive == Inductive /\ [Next]_vars => Inductive'
  <1> SUFFICES ASSUME Inductive, [Next]_vars PROVE Inductive'
    OBVIOUS
  <1>1. CASE Start
    BY <1>1, StartStep
  <1>2. CASE Crash
    BY <1>2, CrashStep
  <1>3. ASSUME NEW t \in Thread, Arrive(t)
        PROVE  Inductive'
    <2>1. CASE \E op \in {"upload", "bulk"}, d \in Doc : ReceiveFile(t, op, d)
      BY <2>1, ReceiveFileStep
    <2>2. CASE \E k \in Key, d \in Doc : BuildSignedBlock(t, k, d)
      BY <2>2, BuildSignedBlockStep
    <2>3. CASE \E h \in DOMAIN blocks \cup {ZeroHash}, k \in Key, valid \in BOOLEAN :
                 BeginSign(t, h, k, valid)
      BY <2>3, BeginSignStep
    <2> QED
      BY <1>3, <2>1, <2>2, <2>3 DEF Arrive
  <1>4. ASSUME NEW t \in Thread, Proceed(t)
        PROVE  Inductive'
    BY <1>4, ProceedInductive
  <1>5. CASE UNCHANGED vars
    <2>1. UNCHANGED <<disk, up, blockMu, req, notified, clock>>
      BY <1>5 DEF vars
    <2>2. DiskTypes' /\ DiskSound'
      BY <2>1, DiskUnchanged DEF Inductive
    <2>3. UNCHANGED <<blocks, heightIdx, lastHash, lastHeight>>
      BY <2>1 DEF disk
    <2>4. ProcessTypes'
      BY <2>1 DEF Inductive, ProcessTypes
    <2>5. LifeCycle'
      BY <2>1, <2>3 DEF Inductive, LifeCycle
    <2>6. LocalSound'
      BY <2>1, <2>3 DEF Inductive, LocalSound, BuiltBlocks, BuiltContent, UploadsKept,
         LockProtects
    <2> QED
      BY <2>2, <2>4, <2>5, <2>6 DEF Inductive
  <1> QED
    BY <1>1, <1>2, <1>3, <1>4, <1>5 DEF Next

------------------------------------------------------------------------------
(* The theorems *)

\* The strengthening holds in every reachable state.
THEOREM InductiveAlways == Spec => []Inductive
  <1> QED
    BY InitInductive, NextInductive, PTL DEF Spec

\* Every variable of the server and of its database keeps to its kind.
THEOREM TypeCorrect == Spec => []TypeOK
  <1>1. Inductive => TypeOK
    BY DEF Inductive, DiskTypes, ProcessTypes, TypeOK
  <1> QED
    BY <1>1, InductiveAlways, PTL

\* The blocks form one tree under the genesis block, the tip is a highest block
\* of it, and the height index leads to a block for every height up to it,
\* however the requests that make blocks interleave, fail and die.
THEOREM ChainSound == Spec => [](ParentsStored /\ TipIsHighest /\ HeightIndexSound)
  <1>1. Inductive => ParentsStored /\ TipIsHighest /\ HeightIndexSound
    BY DEF Inductive, DiskSound
  <1> QED
    BY <1>1, InductiveAlways, PTL

\* Every document of a block is found by the index, whatever was saved since, a late
\* signature of another block of the document included, and metadata never names a
\* block that is not there.
THEOREM DocumentsSound == Spec => [](DocIndexSound /\ MetadataSound)
  <1>1. Inductive => DocIndexSound /\ MetadataSound
    BY DEF Inductive, DiskSound
  <1> QED
    BY <1>1, InductiveAlways, PTL

\* No race between two requests of one key makes it sign a block twice.
THEOREM SignedOnce == Spec => []OneSignaturePerKey
  <1>1. Inductive => OneSignaturePerKey
    BY DEF Inductive, DiskSound
  <1> QED
    BY <1>1, InductiveAlways, PTL

------------------------------------------------------------------------------
(* What one step does to the chain *)

\* Block b, and nothing else, comes into the store.
BlockAdded(b) ==
  /\ b \in Blocks /\ b.hash \in Hash /\ b.hash \notin DOMAIN blocks
  /\ Len(b.sigs) <= 1
  /\ DOMAIN blocks' = DOMAIN blocks \cup {b.hash}
  /\ blocks'[b.hash] = b
  /\ \A h \in DOMAIN blocks : blocks'[h] = blocks[h]

GenesisAdded(b) ==
  /\ BlockAdded(b)
  /\ DOMAIN blocks = {} /\ lastHash = ZeroHash
  /\ b.prev = ZeroHash /\ b.sigs = <<>>
  /\ lastHash' = b.hash

\* It hangs on the tip and is the next tip, or on an older block.
ChildAdded(b) ==
  /\ BlockAdded(b)
  /\ lastHash # ZeroHash
  /\ b.prev \in DOMAIN blocks
  /\ \/ b.prev = lastHash /\ lastHash' = b.hash /\ lastHeight' = lastHeight + 1
     \/ b.prev # lastHash /\ lastHash' = lastHash /\ lastHeight' = lastHeight

SignatureAdded(h, k) ==
  /\ h \in DOMAIN blocks /\ k \in Key /\ blocks[h] \in Blocks
  /\ ~HasSignature(blocks[h], k)
  /\ DOMAIN blocks' = DOMAIN blocks
  /\ blocks'[h] = AddSignature(blocks[h], k, TRUE)
  /\ \A g \in DOMAIN blocks : g # h => blocks'[g] = blocks[g]
  /\ lastHash' = lastHash /\ lastHeight' = lastHeight

LEMMA StoreBlockEffect ==
  ASSUME Inductive, NEW t \in Thread, StoreBlock(t)
  PROVE  ChildAdded(req[t].block)
  <1> DEFINE b == req[t].block
  <1>1. /\ req[t].step = "built" /\ SaveBlock(b)
        /\ UNCHANGED docMeta
    BY DEF StoreBlock
  <1>2. /\ up /\ b \in Blocks
    BY <1>1, ServingMeansUp DEF Inductive, ProcessTypes, Request
  <1>3. /\ b.hash \in 1..clock /\ b.hash \notin DOMAIN blocks
        /\ b.height \in 1..(lastHeight + 1)
        /\ b.prev \in DOMAIN blocks /\ blocks[b.prev].height = b.height - 1
        /\ b.height = lastHeight + 1 => b.prev = lastHash
        /\ Len(b.sigs) <= 1
    BY <1>1 DEF Inductive, LocalSound, BuiltBlocks, BuiltContent
  <1>4. b.hash \in Hash
    BY <1>3, ConstantsAssumption DEF Inductive, LifeCycle, Hash
  <1>5. /\ lastHash \in DOMAIN blocks /\ blocks[lastHash].height = lastHeight
        /\ lastHeight \in Nat /\ lastHash # ZeroHash
    <2>1. lastHash \in DOMAIN blocks /\ blocks[lastHash].height = lastHeight
      BY <1>2, TipBlock
    <2> QED
      BY <2>1 DEF Inductive, DiskTypes, IsBucket, Hash, ZeroHash
  <1> HIDE DEF b
  <1>6. /\ DOMAIN blocks' = DOMAIN blocks \cup {b.hash}
        /\ blocks'[b.hash] = b
        /\ \A h \in DOMAIN blocks : blocks'[h] = blocks[h]
    BY <1>1, <1>2, <1>3, <1>4, SaveBlockBuckets DEF Inductive
  <1>7. IF b.height > lastHeight
          THEN lastHash' = b.hash /\ lastHeight' = b.height
          ELSE lastHash' = lastHash /\ lastHeight' = lastHeight
    BY <1>1, <1>2, <1>4, SaveBlockBuckets DEF Inductive
  <1>8. BlockAdded(b)
    BY <1>2, <1>3, <1>4, <1>6 DEF BlockAdded
  <1>9. \/ b.prev = lastHash /\ lastHash' = b.hash /\ lastHeight' = lastHeight + 1
        \/ b.prev # lastHash /\ lastHash' = lastHash /\ lastHeight' = lastHeight
    <2>1. CASE b.height = lastHeight + 1
      BY <1>3, <1>5, <1>7, <2>1
    <2>2. CASE b.height # lastHeight + 1
      <3>1. b.height <= lastHeight
        BY <1>3, <1>5, <2>2
      <3>2. b.prev # lastHash
        BY <1>3, <1>5, <3>1
      <3> QED
        BY <1>3, <1>5, <1>7, <3>1, <3>2
    <2> QED
      BY <2>1, <2>2
  <1> QED
    BY <1>3, <1>5, <1>8, <1>9 DEF ChildAdded, b

LEMMA StartEffect ==
  ASSUME Inductive, Start
  PROVE  \/ UNCHANGED <<blocks, lastHash, lastHeight>>
         \/ \E b \in Blocks : GenesisAdded(b)
  <1>1. InitGenesis
    BY DEF Start
  <1>2. CASE DOMAIN blocks # {}
    BY <1>1, <1>2 DEF InitGenesis
  <1>3. CASE DOMAIN blocks = {}
    <2> DEFINE g == NewBlock(clock + 1, 0, ZeroHash, ZeroDoc)
    <2>1. /\ blocks' = Put(blocks, g.hash, g) /\ lastHash' = g.hash
      BY <1>1, <1>3 DEF InitGenesis
    <2>2. clock + 1 \in Hash /\ clock + 1 \in Nat /\ lastHash = ZeroHash
      BY <1>3, ConstantsAssumption DEF Inductive, LifeCycle, Hash
    <2>3. /\ g \in Blocks /\ g.hash = clock + 1 /\ g.prev = ZeroHash /\ g.sigs = <<>>
      BY <2>2, NewBlockFields DEF ZeroHash, AnyDoc
    <2> HIDE DEF g
    <2>4. DOMAIN blocks' = {g.hash} /\ blocks'[g.hash] = g
      BY <1>3, <2>1 DEF Put
    <2>5. Len(g.sigs) <= 1
      BY <2>3
    <2>6. GenesisAdded(g)
      BY <1>3, <2>1, <2>2, <2>3, <2>4, <2>5 DEF GenesisAdded, BlockAdded
    <2> QED
      BY <2>3, <2>6
  <1> QED
    BY <1>2, <1>3

LEMMA StepEffect ==
  ASSUME Inductive, [Next]_vars
  PROVE  \/ UNCHANGED <<blocks, lastHash, lastHeight>>
         \/ \E b \in Blocks : GenesisAdded(b)
         \/ \E b \in Blocks : ChildAdded(b)
         \/ \E h \in DOMAIN blocks, k \in Key : SignatureAdded(h, k)
  <1>1. CASE Start
    BY <1>1, StartEffect
  <1>2. CASE Crash \/ UNCHANGED vars
    BY <1>2 DEF Crash, vars, disk
  <1>3. ASSUME NEW t \in Thread, Arrive(t)
        PROVE  UNCHANGED <<blocks, lastHash, lastHeight>>
    BY <1>3 DEF Arrive, ReceiveFile, BuildSignedBlock, BeginSign, disk
  <1>4. ASSUME NEW t \in Thread, StoreBlock(t)
        PROVE  \E b \in Blocks : ChildAdded(b)
    BY <1>4, StoreBlockEffect DEF ChildAdded, BlockAdded
  <1>5. ASSUME NEW t \in Thread, StoreSignature(t)
        PROVE  \E h \in DOMAIN blocks, k \in Key : SignatureAdded(h, k)
    <2> DEFINE h == req[t].block.hash
               k == req[t].key
    <2>1. /\ h \in DOMAIN blocks /\ k \in Key /\ ~HasSignature(blocks[h], k)
          /\ DOMAIN blocks' = DOMAIN blocks
          /\ blocks'[h] = AddSignature(blocks[h], k, TRUE)
          /\ \A g \in DOMAIN blocks : g # h => blocks'[g] = blocks[g]
          /\ lastHash' = lastHash /\ lastHeight' = lastHeight
      BY <1>5, SignatureStored
    <2>2. blocks[h] \in Blocks
      BY <2>1 DEF Inductive, DiskTypes, IsBucket
    <2> HIDE DEF h, k
    <2>3. SignatureAdded(h, k)
      BY <2>1, <2>2 DEF SignatureAdded
    <2> QED
      BY <2>1, <2>3
  <1>6. ASSUME NEW t \in Thread, Proceed(t), ~StoreBlock(t), ~StoreSignature(t)
        PROVE  UNCHANGED <<blocks, lastHash, lastHeight>>
    BY <1>6 DEF Proceed, Work, Send, UploadFails, BuildBlock, StoreBlockFails, AnnounceBlock, SaveMetadata, SaveMetadataFails, BulkDone,
       LockAndSign, LockAndReject, StoreSignatureFails, AnswerSignature, disk
  <1> QED
    BY <1>1, <1>2, <1>3, <1>4, <1>5, <1>6 DEF Next

\* A new tip is the child of the old one, whatever was saved in between.
THEOREM TipOnlyExtends == Spec => TipExtends
  <1> DEFINE Step == lastHash' # lastHash =>
                       /\ blocks'[lastHash'].prev = lastHash
                       /\ lastHash # ZeroHash => lastHeight' = lastHeight + 1
  <1>1. Inductive /\ [Next]_vars => [Step]_vars
    <2> SUFFICES ASSUME Inductive, [Next]_vars, lastHash' # lastHash
                 PROVE  /\ blocks'[lastHash'].prev = lastHash
                        /\ lastHash # ZeroHash => lastHeight' = lastHeight + 1
      OBVIOUS
    <2>1. ASSUME NEW b \in Blocks, GenesisAdded(b)
          PROVE  blocks'[lastHash'].prev = lastHash /\ lastHash = ZeroHash
      BY <2>1 DEF GenesisAdded, BlockAdded
    <2>2. ASSUME NEW b \in Blocks, ChildAdded(b)
          PROVE  blocks'[lastHash'].prev = lastHash /\ lastHeight' = lastHeight + 1
      BY <2>2 DEF ChildAdded, BlockAdded
    <2> QED
      BY <2>1, <2>2, StepEffect DEF SignatureAdded
  <1> HIDE DEF Step
  <1>2. Spec => [][Step]_vars
    BY <1>1, InductiveAlways, PTL DEF Spec
  <1> QED
    BY <1>2, PTL DEF TipExtends, Step

\* No stored block is lost or altered, and no signature of it.
THEOREM OnlyAppended == Spec => BlocksAppendOnly
  <1> DEFINE Kept(h) == /\ h \in DOMAIN blocks'
                        /\ Core(blocks'[h]) = Core(blocks[h])
                        /\ IsPrefixOf(blocks[h].sigs, blocks'[h].sigs)
             Step == \A h \in DOMAIN blocks : Kept(h)
  <1>1. Inductive /\ [Next]_vars => [Step]_vars
    <2> SUFFICES ASSUME Inductive, [Next]_vars, NEW h \in DOMAIN blocks
                 PROVE  Kept(h)
      OBVIOUS
    <2>1. blocks[h] \in Blocks /\ Len(blocks[h].sigs) \in Nat
      BY DEF Inductive, DiskTypes, IsBucket, Blocks
    <2>2. ASSUME h \in DOMAIN blocks', blocks'[h] = blocks[h]
          PROVE  Kept(h)
      BY <2>1, <2>2 DEF IsPrefixOf
    <2>3. CASE UNCHANGED blocks
      BY <2>2, <2>3
    <2>4. ASSUME NEW b \in Blocks, BlockAdded(b)
          PROVE  Kept(h)
      BY <2>2, <2>4 DEF BlockAdded
    <2>5. ASSUME NEW g \in DOMAIN blocks, NEW k \in Key, SignatureAdded(g, k)
          PROVE  Kept(h)
      <3>1. CASE h # g
        BY <2>2, <2>5, <3>1 DEF SignatureAdded
      <3>2. CASE h = g
        <4> DEFINE c == AddSignature(blocks[h], k, TRUE)
        <4>1. blocks'[h] = c /\ h \in DOMAIN blocks'
          BY <2>5, <3>2 DEF SignatureAdded
        <4>2. /\ c.hash = blocks[h].hash /\ c.height = blocks[h].height
              /\ c.prev = blocks[h].prev /\ c.doc = blocks[h].doc
              /\ Len(c.sigs) = Len(blocks[h].sigs) + 1
              /\ \A i \in 1..Len(blocks[h].sigs) : c.sigs[i] = blocks[h].sigs[i]
          BY <2>1, AddSignatureFields
        <4> HIDE DEF c
        <4>3. Core(c) = Core(blocks[h])
          BY <4>2 DEF Core
        <4>4. IsPrefixOf(blocks[h].sigs, c.sigs)
          BY <2>1, <4>2 DEF IsPrefixOf
        <4> QED
          BY <4>1, <4>3, <4>4
      <3> QED
        BY <3>1, <3>2
    <2> QED
      BY <2>3, <2>4, <2>5, StepEffect DEF GenesisAdded, ChildAdded
  <1> HIDE DEF Step
  <1>2. Spec => [][Step]_vars
    BY <1>1, InductiveAlways, PTL DEF Spec
  <1> QED
    BY <1>2, PTL DEF BlocksAppendOnly, Step

------------------------------------------------------------------------------
(* The chain that ends at a block *)

LEMMA StoredParent ==
  ASSUME Inductive, NEW h \in DOMAIN blocks
  PROVE  /\ h # ZeroHash
         /\ blocks[h].height \in Nat
         /\ IF blocks[h].height = 0
              THEN blocks[h].prev = ZeroHash
              ELSE /\ blocks[h].prev \in DOMAIN blocks
                   /\ blocks[blocks[h].prev].height = blocks[h].height - 1
  <1>1. h \in Hash /\ blocks[h] \in Blocks
    BY DEF Inductive, DiskTypes, IsBucket
  <1> QED
    BY <1>1 DEF Inductive, DiskSound, ParentsStored, Blocks, Hash, ZeroHash

LEMMA ChainClosed ==
  ASSUME Inductive, NEW h \in DOMAIN blocks
  PROVE  h \in Chain(h) /\ Closed(Chain(h)) /\ Chain(h) \subseteq DOMAIN blocks
  <1>1. ASSUME NEW y \in Chain(h), blocks[y].prev # ZeroHash
        PROVE  blocks[y].prev \in Chain(h)
    <2>1. y \in DOMAIN blocks
      BY DEF Chain
    <2>2. blocks[y].prev \in DOMAIN blocks
      BY <1>1, <2>1, StoredParent
    <2>3. ASSUME NEW S \in SUBSET DOMAIN blocks, h \in S, Closed(S)
          PROVE  blocks[y].prev \in S
      BY <1>1, <2>3 DEF Chain, Closed
    <2> QED
      BY <2>2, <2>3 DEF Chain
  <1> QED
    BY <1>1 DEF Chain, Closed

\* The parents of stored blocks, and so their chains, are for good.
LEMMA ChainKept ==
  ASSUME Inductive,
         DOMAIN blocks \subseteq DOMAIN blocks',
         \A g \in DOMAIN blocks : blocks'[g].prev = blocks[g].prev,
         NEW h \in DOMAIN blocks
  PROVE  Chain(h)' = Chain(h)
  <1>1. ASSUME NEW S \in SUBSET DOMAIN blocks
        PROVE  Closed(S)' <=> Closed(S)
    BY DEF Closed
  <1>2. Closed(DOMAIN blocks)
    BY StoredParent DEF Closed
  <1>3. ASSUME NEW a \in Chain(h)'
        PROVE  a \in Chain(h)
    <2>1. \A S \in SUBSET DOMAIN blocks' : h \in S /\ Closed(S)' => a \in S
      BY DEF Chain
    <2>2. a \in DOMAIN blocks
      BY <1>1, <1>2, <2>1
    <2>3. \A S \in SUBSET DOMAIN blocks : h \in S /\ Closed(S) => a \in S
      BY <1>1, <2>1
    <2> QED
      BY <2>2, <2>3 DEF Chain
  <1>4. ASSUME NEW a \in Chain(h)
        PROVE  a \in Chain(h)'
    <2>1. a \in DOMAIN blocks'
      BY DEF Chain
    <2>2. ASSUME NEW S \in SUBSET DOMAIN blocks', h \in S, Closed(S)'
          PROVE  a \in S
      <3> DEFINE T == S \cap DOMAIN blocks
      <3>1. Closed(T)
        BY <1>2, <2>2 DEF Closed
      <3>2. T \in SUBSET DOMAIN blocks /\ h \in T
        BY <2>2
      <3> QED
        BY <3>1, <3>2 DEF Chain
    <2> QED
      BY <2>1, <2>2 DEF Chain
  <1> QED
    BY <1>3, <1>4

\* The chain of a new block is that of its parent and the block itself.
LEMMA ChainOfNew ==
  ASSUME Inductive, NEW b \in Blocks, ChildAdded(b)
  PROVE  Chain(b.hash)' = Chain(b.prev) \cup {b.hash}
  <1> DEFINE x == b.hash
             p == b.prev
  <1>1. /\ x \notin DOMAIN blocks /\ p \in DOMAIN blocks
        /\ DOMAIN blocks' = DOMAIN blocks \cup {x}
        /\ blocks'[x] = b
        /\ \A g \in DOMAIN blocks : blocks'[g] = blocks[g]
    BY DEF ChildAdded, BlockAdded
  <1>2. p # ZeroHash
    BY <1>1, StoredParent
  <1>3. Chain(p)' = Chain(p)
    BY <1>1, ChainKept
  <1>4. blocks'[x].prev = p
    BY <1>1
  <1> HIDE DEF x, p
  <1>5. ASSUME NEW a \in Chain(x)'
        PROVE  a \in Chain(p) \cup {x}
    <2>1. p \in Chain(p) /\ Closed(Chain(p)) /\ Chain(p) \subseteq DOMAIN blocks
      BY <1>1, ChainClosed
    <2>2. PICK S : S = Chain(p) \cup {x}
      OBVIOUS
    <2>3. Closed(S)'
      BY <1>1, <1>4, <2>1, <2>2 DEF Closed
    <2>4. S \in SUBSET DOMAIN blocks' /\ x \in S
      BY <1>1, <2>1, <2>2
    <2> QED
      BY <2>2, <2>3, <2>4 DEF Chain
  <1>6. ASSUME NEW a \in Chain(p)
        PROVE  a \in Chain(x)'
    <2>1. a \in Chain(p)'
      BY <1>3
    <2>2. ASSUME NEW S \in SUBSET DOMAIN blocks', x \in S, Closed(S)'
          PROVE  a \in S
      <3>1. p \in S
        BY <1>2, <1>4, <2>2 DEF Closed
      <3> QED
        BY <2>1, <2>2, <3>1 DEF Chain
    <2> QED
      BY <2>1, <2>2 DEF Chain
  <1>7. x \in Chain(x)'
    BY <1>1 DEF Chain
  <1> QED
    BY <1>5, <1>6, <1>7 DEF x, p

\* Every chain, not only that of the tip, goes down to the genesis block in steps
\* of one.
ChainsNumbered ==
  \A h \in DOMAIN blocks :
    /\ \A a \in Chain(h) : blocks[a].height <= blocks[h].height
    /\ NumberedChain(h)

\* What a chain says of heights hangs on the chain and its heights alone.
LEMMA NumberingKept ==
  ASSUME Inductive, ChainsNumbered, NEW h \in DOMAIN blocks,
         Chain(h)' = Chain(h),
         \A g \in DOMAIN blocks : blocks'[g].height = blocks[g].height
  PROVE  /\ \A a \in Chain(h)' : blocks'[a].height <= blocks'[h].height
         /\ NumberedChain(h)'
  <1>1. Chain(h) \subseteq DOMAIN blocks
    BY ChainClosed
  <1> QED
    BY <1>1 DEF ChainsNumbered, NumberedChain

LEMMA NumberingOfNew ==
  ASSUME Inductive, Inductive', ChainsNumbered, NEW b \in Blocks, ChildAdded(b)
  PROVE  /\ \A a \in Chain(b.hash)' : blocks'[a].height <= blocks'[b.hash].height
         /\ NumberedChain(b.hash)'
  <1> DEFINE x == b.hash
             p == b.prev
             m == blocks[p].height
  <1>1. /\ x \notin DOMAIN blocks /\ p \in DOMAIN blocks
        /\ DOMAIN blocks' = DOMAIN blocks \cup {x}
        /\ blocks'[x] = b
        /\ \A g \in DOMAIN blocks : blocks'[g] = blocks[g]
    BY DEF ChildAdded, BlockAdded
  <1>2. /\ Chain(p) \subseteq DOMAIN blocks
        /\ Chain(x)' = Chain(p) \cup {x}
    BY <1>1, ChainClosed, ChainOfNew
  <1>3. m \in Nat /\ p # ZeroHash
    BY <1>1, StoredParent
  <1>4. blocks'[x].height = m + 1
    <2>1. /\ blocks'[x].height \in Nat
          /\ IF blocks'[x].height = 0
               THEN blocks'[x].prev = ZeroHash
               ELSE blocks'[blocks'[x].prev].height = blocks'[x].height - 1
      <3>1. x \in DOMAIN blocks'
        BY <1>1
      <3>2. blocks'[x] \in Blocks
        BY <3>1 DEF Inductive, DiskTypes, IsBucket
      <3> QED
        BY <3>1, <3>2 DEF Inductive, DiskSound, ParentsStored, Blocks
    <2> QED
      BY <1>1, <1>3, <2>1
  <1>5. /\ \A a \in Chain(p) : blocks[a].height \in Nat /\ blocks[a].height <= m
        /\ NumberedChain(p)
    BY <1>1, <1>2, StoredParent DEF ChainsNumbered
  <1> HIDE DEF x, p, m
  <1>6. \A a \in Chain(p) : blocks'[a].height = blocks[a].height
    BY <1>1, <1>2
  <1>7. \A a \in Chain(x)' : blocks'[a].height <= blocks'[x].height
    BY <1>2, <1>3, <1>4, <1>5, <1>6
  <1>8. ASSUME NEW n \in 0..(m + 1)
        PROVE  \E a \in Chain(p) \cup {x} :
                 /\ blocks'[a].height = n
                 /\ \A c \in Chain(p) \cup {x} : blocks'[c].height = n => c = a
    <2>1. CASE n = m + 1
      BY <1>3, <1>4, <1>5, <1>6, <2>1
    <2>2. CASE n # m + 1
      <3>1. n \in 0..m
        BY <1>3, <2>2
      <3>2. PICK a \in Chain(p) : /\ blocks[a].height = n
                                  /\ \A c \in Chain(p) : blocks[c].height = n => c = a
        BY <1>5, <3>1 DEF NumberedChain, m
      <3> QED
        BY <1>4, <1>6, <2>2, <3>2
    <2> QED
      BY <2>1, <2>2
  <1>9. NumberedChain(x)'
    BY <1>2, <1>4, <1>8 DEF NumberedChain
  <1> QED
    BY <1>7, <1>9 DEF x

LEMMA NumberingOfGenesis ==
  ASSUME Inductive', NEW b \in Blocks, GenesisAdded(b)
  PROVE  ChainsNumbered'
  <1> DEFINE g == b.hash
  <1>1. /\ DOMAIN blocks' = {g} /\ blocks'[g] = b
        /\ b.prev = ZeroHash /\ g \in Hash
    BY DEF GenesisAdded, BlockAdded
  <1>2. blocks'[g].height = 0
    <2>1. blocks'[g] \in Blocks
      BY <1>1
    <2>2. ZeroHash \notin DOMAIN blocks'
      BY <1>1 DEF Hash, ZeroHash
    <2> QED
      BY <1>1, <2>1, <2>2 DEF Inductive, DiskSound, ParentsStored, Blocks
  <1> HIDE DEF g
  <1>3. Chain(g)' = {g}
    BY <1>1 DEF Chain
  <1>4. \A n \in 0..0 : n = 0
    OBVIOUS
  <1>5. NumberedChain(g)'
    BY <1>2, <1>3, <1>4 DEF NumberedChain
  <1> QED
    BY <1>1, <1>2, <1>3, <1>5 DEF ChainsNumbered

LEMMA SignatureKeepsCore ==
  ASSUME NEW h \in DOMAIN blocks, NEW k \in Key, SignatureAdded(h, k),
         NEW g \in DOMAIN blocks
  PROVE  /\ blocks'[g].prev = blocks[g].prev
         /\ blocks'[g].height = blocks[g].height
  <1> DEFINE c == AddSignature(blocks[h], k, TRUE)
  <1>1. c.prev = blocks[h].prev /\ c.height = blocks[h].height
    BY AddSignatureFields DEF SignatureAdded
  <1>2. blocks'[h] = c /\ (g # h => blocks'[g] = blocks[g])
    BY DEF SignatureAdded
  <1> HIDE DEF c
  <1> QED
    BY <1>1, <1>2

LEMMA ChainsNumberedStep ==
  ASSUME Inductive, Inductive', ChainsNumbered, [Next]_vars
  PROVE  ChainsNumbered'
  <1>1. ASSUME DOMAIN blocks \subseteq DOMAIN blocks',
               \A g \in DOMAIN blocks : /\ blocks'[g].prev = blocks[g].prev
                                        /\ blocks'[g].height = blocks[g].height,
               NEW h \in DOMAIN blocks
        PROVE  /\ \A a \in Chain(h)' : blocks'[a].height <= blocks'[h].height
               /\ NumberedChain(h)'
    BY <1>1, ChainKept, NumberingKept
  <1>2. CASE UNCHANGED blocks
    BY <1>1, <1>2 DEF ChainsNumbered
  <1>3. ASSUME NEW b \in Blocks, GenesisAdded(b)
        PROVE  ChainsNumbered'
    BY <1>3, NumberingOfGenesis
  <1>4. ASSUME NEW b \in Blocks, ChildAdded(b)
        PROVE  ChainsNumbered'
    <2>1. /\ DOMAIN blocks' = DOMAIN blocks \cup {b.hash}
          /\ \A g \in DOMAIN blocks : blocks'[g] = blocks[g]
      BY <1>4 DEF ChildAdded, BlockAdded
    <2> QED
      BY <1>1, <1>4, <2>1, NumberingOfNew DEF ChainsNumbered
  <1>5. ASSUME NEW h \in DOMAIN blocks, NEW k \in Key, SignatureAdded(h, k)
        PROVE  ChainsNumbered'
    <2>1. DOMAIN blocks' = DOMAIN blocks
      BY <1>5 DEF SignatureAdded
    <2> QED
      BY <1>1, <1>5, <2>1, SignatureKeepsCore DEF ChainsNumbered
  <1> QED
    BY <1>2, <1>3, <1>4, <1>5, StepEffect

\* Blocks of one height there may be, but the chain that ends at the tip has one
\* of each height.
THEOREM ChainIsNumbered == Spec => []OneOfEachHeightOnChain
  <1>1. Init => ChainsNumbered
    BY DEF Init, ChainsNumbered, EmptyBucket
  <1>2. ChainsNumbered => OneOfEachHeightOnChain
    BY DEF ChainsNumbered, OneOfEachHeightOnChain
  <1> QED
    BY <1>1, <1>2, ChainsNumberedStep, InductiveAlways, PTL DEF Spec

\* What is on the chain of the tip stays on it, for good and at its height: the
\* chain in force is never rewritten, whatever is made beside it.
THEOREM ChainOnlyGrows ==
  Spec => [][\A a \in Chain(lastHash) :
               /\ a \in Chain(lastHash)'
               /\ blocks'[a].height = blocks[a].height]_vars
  <1> DEFINE Step == \A a \in Chain(lastHash) :
                       /\ a \in Chain(lastHash)'
                       /\ blocks'[a].height = blocks[a].height
  <1>1. Inductive /\ [Next]_vars => [Step]_vars
    <2> SUFFICES ASSUME Inductive, [Next]_vars, NEW a \in Chain(lastHash)
                 PROVE  /\ a \in Chain(lastHash)'
                        /\ blocks'[a].height = blocks[a].height
      OBVIOUS
    <2>1. a \in DOMAIN blocks /\ lastHash \in DOMAIN blocks
      BY DEF Chain, Inductive, DiskSound, TipIsHighest
    <2>2. CASE UNCHANGED <<blocks, lastHash>>
      BY <2>2 DEF Chain, Closed
    <2>3. ASSUME NEW b \in Blocks, ChildAdded(b)
          PROVE  /\ a \in Chain(lastHash)'
                 /\ blocks'[a].height = blocks[a].height
      <3>1. /\ DOMAIN blocks \subseteq DOMAIN blocks'
            /\ \A g \in DOMAIN blocks : blocks'[g] = blocks[g]
        BY <2>3 DEF ChildAdded, BlockAdded
      <3>2. CASE lastHash' = lastHash
        <4>1. \A h \in DOMAIN blocks : Chain(h)' = Chain(h)
          BY <3>1, ChainKept
        <4> QED
          BY <2>1, <3>1, <3>2, <4>1 DEF Chain, Closed
      <3>3. CASE b.prev = lastHash /\ lastHash' = b.hash
        <4>1. Chain(b.hash)' = Chain(b.prev) \cup {b.hash}
          BY <2>3, ChainOfNew
        <4> QED
          BY <2>1, <3>1, <3>3, <4>1 DEF Chain, Closed
      <3> QED
        BY <2>3, <3>2, <3>3 DEF ChildAdded
    <2>4. ASSUME NEW h \in DOMAIN blocks, NEW k \in Key, SignatureAdded(h, k)
          PROVE  /\ a \in Chain(lastHash)'
                 /\ blocks'[a].height = blocks[a].height
      <3>1. /\ DOMAIN blocks' = DOMAIN blocks /\ lastHash' = lastHash
            /\ \A g \in DOMAIN blocks : /\ blocks'[g].prev = blocks[g].prev
                                        /\ blocks'[g].height = blocks[g].height
        BY <2>4, SignatureKeepsCore DEF SignatureAdded
      <3> QED
        BY <2>1, <3>1 DEF Chain, Closed
    <2> QED
      BY <2>1, <2>2, <2>3, <2>4, StepEffect DEF GenesisAdded
  <1> HIDE DEF Step
  <1>2. Spec => [][Step]_vars
    BY <1>1, InductiveAlways, PTL DEF Spec
  <1> QED
    BY <1>2, PTL DEF Step

------------------------------------------------------------------------------
(* What is counted *)

\* The keys of the entries that verify, and of those that do not.
Verified(b)   == {b.sigs[i].key : i \in {j \in DOMAIN b.sigs : b.sigs[j].valid}}
Unverified(b) == {b.sigs[i].key : i \in {j \in DOMAIN b.sigs : ~b.sigs[j].valid}}

\* An entry that does not verify is that of the maker, which is the first.
MakerFirst ==
  \A h \in DOMAIN blocks : \A i \in DOMAIN blocks[h].sigs :
    ~blocks[h].sigs[i].valid => i = 1

\* What module Consensus takes of a stored block: counting the entries that verify
\* counts keys, and at most one key, its maker, has an entry that does not.
CountsAreKeys ==
  \A h \in DOMAIN blocks :
    LET b == blocks[h] IN
    /\ ValidSignatures(b) = Cardinality(Verified(b))
    /\ Unverified(b) \cap Verified(b) = {}
    /\ \A j, k \in Unverified(b) : j = k

LEMMA EntriesOf ==
  ASSUME NEW b \in Blocks
  PROVE  /\ Len(b.sigs) \in Nat
         /\ DOMAIN b.sigs = 1..Len(b.sigs)
         /\ \A i \in DOMAIN b.sigs : b.sigs[i].key \in Key /\ b.sigs[i].valid \in BOOLEAN
  <1>1. b.sigs \in Seq(Sig)
    BY DEF Blocks
  <1>2. /\ Len(b.sigs) \in Nat /\ DOMAIN b.sigs = 1..Len(b.sigs)
        /\ \A i \in DOMAIN b.sigs : b.sigs[i] \in Sig
    BY <1>1
  <1> QED
    BY <1>2 DEF Sig

\* When no key has two entries, the entries that verify are as many as their keys,
\* of which there are finitely many.
LEMMA EntriesCountKeys ==
  ASSUME NEW b \in Blocks,
         \A i, j \in DOMAIN b.sigs : b.sigs[i].key = b.sigs[j].key => i = j
  PROVE  ValidSignatures(b) = Cardinality(Verified(b)) /\ IsFiniteSet(Verified(b))
  <1> DEFINE V == {i \in DOMAIN b.sigs : b.sigs[i].valid}
             f == [i \in V |-> b.sigs[i].key]
  <1>1. IsFiniteSet(V)
    <2>1. V \subseteq 1..Len(b.sigs) /\ Len(b.sigs) \in Nat
      BY EntriesOf
    <2>2. IsFiniteSet(1..Len(b.sigs))
      BY <2>1, FS_Interval
    <2> QED
      BY <2>1, <2>2, FS_Subset
  <1>2. f \in Surjection(V, Verified(b))
    BY DEF Surjection, Verified
  <1>3. f \in Injection(V, Verified(b))
    BY DEF Injection, IsInjective, Verified
  <1>4. Cardinality(Verified(b)) = Cardinality(V) /\ IsFiniteSet(Verified(b))
    BY <1>1, <1>2, <1>3, FS_Surjection
  <1> QED
    BY <1>4 DEF ValidSignatures

\* A signature that is added verifies, and is one more.
LEMMA VerifiedGrow ==
  ASSUME NEW b \in Blocks, NEW k \in Key
  PROVE  LET c == AddSignature(b, k, TRUE) IN
         /\ Verified(c) = Verified(b) \cup {k}
         /\ Unverified(c) = Unverified(b)
         /\ \A i \in DOMAIN c.sigs : ~c.sigs[i].valid => i \in DOMAIN b.sigs /\ ~b.sigs[i].valid
  <1> DEFINE c == AddSignature(b, k, TRUE)
             n == Len(b.sigs)
  <1>1. /\ c \in Blocks /\ n \in Nat /\ Len(c.sigs) = n + 1
        /\ c.sigs[Len(c.sigs)] = Signature(k, TRUE)
        /\ \A i \in 1..n : c.sigs[i] = b.sigs[i]
    BY AddSignatureFields
  <1>2. DOMAIN b.sigs = 1..n
    BY EntriesOf
  <1> HIDE DEF c
  <1>3. DOMAIN c.sigs = 1..(n + 1)
    BY <1>1, EntriesOf
  <1> HIDE DEF n
  <1>4. DOMAIN c.sigs = DOMAIN b.sigs \cup {n + 1} /\ n + 1 \notin DOMAIN b.sigs
    BY <1>1, <1>2, <1>3
  <1>5. c.sigs[n + 1].key = k /\ c.sigs[n + 1].valid
    <2>1. c.sigs[n + 1] = Signature(k, TRUE)
      BY <1>1
    <2> QED
      BY <2>1 DEF Signature
  <1>6. \A i \in DOMAIN b.sigs : c.sigs[i] = b.sigs[i]
    BY <1>1, <1>2
  <1>7. Verified(c) = Verified(b) \cup {k}
    BY <1>4, <1>5, <1>6 DEF Verified
  <1>8. \A i \in DOMAIN c.sigs : ~c.sigs[i].valid => i \in DOMAIN b.sigs /\ ~b.sigs[i].valid
    BY <1>4, <1>5, <1>6
  <1>9. Unverified(c) = Unverified(b)
    BY <1>4, <1>5, <1>6 DEF Unverified
  <1> QED
    BY <1>7, <1>8, <1>9 DEF c

LEMMA MakerFirstStep == Inductive /\ MakerFirst /\ [Next]_vars => MakerFirst'
  <1> SUFFICES ASSUME Inductive, MakerFirst, [Next]_vars
               PROVE  MakerFirst'
    OBVIOUS
  <1>1. CASE UNCHANGED blocks
    BY <1>1 DEF MakerFirst
  <1>2. ASSUME NEW b \in Blocks, BlockAdded(b)
        PROVE  MakerFirst'
    <2>1. \A i \in DOMAIN b.sigs : i = 1
      BY <1>2, EntriesOf DEF BlockAdded
    <2> QED
      BY <1>2, <2>1 DEF BlockAdded, MakerFirst
  <1>3. ASSUME NEW h \in DOMAIN blocks, NEW k \in Key, SignatureAdded(h, k)
        PROVE  MakerFirst'
    <2> DEFINE c == AddSignature(blocks[h], k, TRUE)
    <2>1. \A i \in DOMAIN c.sigs :
            ~c.sigs[i].valid => i \in DOMAIN blocks[h].sigs /\ ~blocks[h].sigs[i].valid
      BY <1>3, VerifiedGrow DEF SignatureAdded
    <2>2. /\ DOMAIN blocks' = DOMAIN blocks /\ blocks'[h] = c
          /\ \A g \in DOMAIN blocks : g # h => blocks'[g] = blocks[g]
      BY <1>3 DEF SignatureAdded
    <2> HIDE DEF c
    <2> QED
      BY <2>1, <2>2 DEF MakerFirst
  <1> QED
    BY <1>1, <1>2, <1>3, StepEffect DEF GenesisAdded, ChildAdded

\* The signatures of a block are a set of keys and at most one maker beside them.
THEOREM SignaturesAreKeys == Spec => []CountsAreKeys
  <1>1. Init => MakerFirst
    BY DEF Init, MakerFirst, EmptyBucket
  <1>2. Inductive /\ MakerFirst => CountsAreKeys
    <2> SUFFICES ASSUME Inductive, MakerFirst, NEW h \in DOMAIN blocks
                 PROVE  /\ ValidSignatures(blocks[h]) = Cardinality(Verified(blocks[h]))
                        /\ Unverified(blocks[h]) \cap Verified(blocks[h]) = {}
                        /\ \A j, k \in Unverified(blocks[h]) : j = k
      BY DEF CountsAreKeys
    <2>1. blocks[h] \in Blocks
      BY DEF Inductive, DiskTypes, IsBucket
    <2>2. \A i, j \in DOMAIN blocks[h].sigs :
            blocks[h].sigs[i].key = blocks[h].sigs[j].key => i = j
      BY DEF Inductive, DiskSound, OneSignaturePerKey
    <2>3. ValidSignatures(blocks[h]) = Cardinality(Verified(blocks[h]))
      BY <2>1, <2>2, EntriesCountKeys
    <2>4. Unverified(blocks[h]) \cap Verified(blocks[h]) = {}
      BY <2>2 DEF Verified, Unverified
    <2>5. \A j, k \in Unverified(blocks[h]) : j = k
      BY DEF Unverified, MakerFirst
    <2> QED
      BY <2>3, <2>4, <2>5
  <1> QED
    BY <1>1, <1>2, MakerFirstStep, InductiveAlways, PTL DEF Spec

\* A step adds to a stored block at most one key that had no entry in it, and
\* never changes its maker: as seen from one block, every step is a SaveSignature
\* of module Consensus or leaves the signatures alone.
THEOREM SignedKeyByKey ==
  Spec => [][\A h \in DOMAIN blocks :
               /\ Unverified(blocks'[h]) = Unverified(blocks[h])
               /\ \/ Verified(blocks'[h]) = Verified(blocks[h])
                  \/ \E k \in Key \ (Verified(blocks[h]) \cup Unverified(blocks[h])) :
                       Verified(blocks'[h]) = Verified(blocks[h]) \cup {k}]_vars
  <1> DEFINE Step ==
               \A h \in DOMAIN blocks :
                 /\ Unverified(blocks'[h]) = Unverified(blocks[h])
                 /\ \/ Verified(blocks'[h]) = Verified(blocks[h])
                    \/ \E k \in Key \ (Verified(blocks[h]) \cup Unverified(blocks[h])) :
                         Verified(blocks'[h]) = Verified(blocks[h]) \cup {k}
  <1>1. Inductive /\ [Next]_vars => [Step]_vars
    <2> SUFFICES ASSUME Inductive, [Next]_vars
                 PROVE  Step
      OBVIOUS
    <2>1. ASSUME \A h \in DOMAIN blocks : blocks'[h] = blocks[h]
          PROVE  Step
      BY <2>1
    <2>2. ASSUME NEW g \in DOMAIN blocks, NEW k \in Key, SignatureAdded(g, k)
          PROVE  Step
      <3>1. /\ blocks'[g] = AddSignature(blocks[g], k, TRUE) /\ blocks[g] \in Blocks
            /\ \A h \in DOMAIN blocks : h # g => blocks'[h] = blocks[h]
            /\ ~HasSignature(blocks[g], k)
        BY <2>2 DEF SignatureAdded
      <3>2. /\ Verified(blocks'[g]) = Verified(blocks[g]) \cup {k}
            /\ Unverified(blocks'[g]) = Unverified(blocks[g])
        BY <3>1, VerifiedGrow
      <3>3. k \notin Verified(blocks[g]) \cup Unverified(blocks[g])
        BY <3>1 DEF HasSignature, Verified, Unverified
      <3> QED
        BY <3>1, <3>2, <3>3
    <2> HIDE DEF Step
    <2> QED
      BY <2>1, <2>2, StepEffect DEF GenesisAdded, ChildAdded, BlockAdded
  <1> HIDE DEF Step
  <1>2. Spec => [][Step]_vars
    BY <1>1, InductiveAlways, PTL DEF Spec
  <1> QED
    BY <1>2, PTL DEF Step

------------------------------------------------------------------------------
(* What is announced *)

\* No count was announced that the stored block does not bear out, and a request
\* between save and announcement holds the block as it is stored.
CountsBacked ==
  /\ \A h \in DOMAIN notified :
       h \in DOMAIN blocks /\ notified[h] <= ValidSignatures(blocks[h])
  /\ \A t \in Thread : req[t].step = "signed" => req[t].block = blocks[req[t].block.hash]

\* A signature more does not lower the count.
LEMMA ValidSignaturesGrow ==
  ASSUME NEW b \in Blocks, NEW k \in Key, NEW v \in BOOLEAN
  PROVE  ValidSignatures(b) <= ValidSignatures(AddSignature(b, k, v))
  <1> DEFINE c == AddSignature(b, k, v)
             S == {i \in DOMAIN b.sigs : b.sigs[i].valid}
             T == {i \in DOMAIN c.sigs : c.sigs[i].valid}
  <1>1. /\ DOMAIN b.sigs = 1..Len(b.sigs) /\ Len(b.sigs) \in Nat
        /\ DOMAIN c.sigs = 1..Len(c.sigs) /\ Len(c.sigs) = Len(b.sigs) + 1
        /\ \A i \in 1..Len(b.sigs) : c.sigs[i] = b.sigs[i]
    <2>1. c \in Blocks /\ Len(c.sigs) = Len(b.sigs) + 1
          /\ \A i \in 1..Len(b.sigs) : c.sigs[i] = b.sigs[i]
      BY AddSignatureFields
    <2> HIDE DEF c
    <2> QED
      BY <2>1 DEF Blocks
  <1> HIDE DEF c
  <1>2. S \subseteq T
    BY <1>1
  <1>3. T \subseteq 1..Len(c.sigs) /\ IsFiniteSet(1..Len(c.sigs))
    BY <1>1, FS_Interval
  <1>4. IsFiniteSet(T)
    BY <1>3, FS_Subset
  <1>5. Cardinality(S) <= Cardinality(T)
    BY <1>2, <1>4, FS_Subset
  <1> QED
    BY <1>5 DEF ValidSignatures, c

\* A step but for StoreSignature brings no request between save and announcement.
LEMMA NobodyElseSigns ==
  ASSUME Inductive, NEW t \in Thread, Arrive(t) \/ Proceed(t), ~StoreSignature(t)
  PROVE  \A u \in Thread : req'[u].step = "signed" => req'[u] = req[u]
  <1>1. req \in [Thread -> Request]
    BY DEF Inductive, ProcessTypes
  <1>2. NoRequest.step # "signed"
    BY NoRequestType
  <1>3. CASE Arrive(t)
    <2>1. CASE \E op \in {"upload", "bulk"}, d \in Doc : ReceiveFile(t, op, d)
      BY <1>1, <2>1 DEF ReceiveFile, Enter, NewRequest
    <2>2. CASE \E k \in Key, d \in Doc : BuildSignedBlock(t, k, d)
      <3>1. PICK k \in Key, d \in Doc : BuildSignedBlock(t, k, d)
        BY <2>2
      <3> DEFINE r == NewRequest("create", "built", AddSignature(NextBlock(d), k, FALSE),
                                 Nobody, FALSE)
      <3>2. req' = [req EXCEPT ![t] = r]
        BY <3>1 DEF BuildSignedBlock, Enter
      <3>3. r.step = "built"
        BY DEF NewRequest
      <3> HIDE DEF r
      <3> QED
        BY <1>1, <3>2, <3>3
    <2>3. CASE \E h \in DOMAIN blocks \cup {ZeroHash}, k \in Key, valid \in BOOLEAN :
                 BeginSign(t, h, k, valid)
      BY <1>1, <2>3 DEF BeginSign, Enter, NewRequest
    <2> QED
      BY <1>3, <2>1, <2>2, <2>3 DEF Arrive
  <1>4. CASE BuildBlock(t) \/ StoreBlock(t) \/ AnnounceBlock(t) \/ UploadFails(t)
    BY <1>1, <1>2, <1>4 DEF BuildBlock, StoreBlock, AnnounceBlock, UploadFails, Goto,
       Respond, Request
  <1>5. CASE StoreBlockFails(t) \/ SaveMetadata(t) \/ SaveMetadataFails(t) \/ BulkDone(t)
    BY <1>1, <1>2, <1>5 DEF StoreBlockFails, SaveMetadata, SaveMetadataFails, BulkDone, Goto,
       Respond, Request
  <1>6. CASE LockAndSign(t) \/ LockAndReject(t)
    BY <1>1, <1>2, <1>6 DEF LockAndSign, LockAndReject, Goto, Respond, Request
  <1>7. CASE StoreSignatureFails(t) \/ AnswerSignature(t)
    BY <1>1, <1>2, <1>7 DEF StoreSignatureFails, AnswerSignature, Respond
  <1> QED
    BY <1>3, <1>4, <1>5, <1>6, <1>7 DEF Proceed, Work, Send

\* Blocks are added or left alone, and nothing is announced.
LEMMA UnannouncedStep ==
  ASSUME Inductive, CountsBacked, notified' = notified,
         \A h \in DOMAIN blocks : h \in DOMAIN blocks' /\ blocks'[h] = blocks[h],
         \A u \in Thread : req'[u].step = "signed" => req'[u] = req[u]
  PROVE  CountsBacked'
  <1>1. \A h \in DOMAIN notified' :
          h \in DOMAIN blocks' /\ notified'[h] <= ValidSignatures(blocks'[h])
    BY DEF CountsBacked
  <1>2. ASSUME NEW t \in Thread, req'[t].step = "signed"
        PROVE  req'[t].block = blocks'[req'[t].block.hash]
    <2>1. req'[t] = req[t]
      BY <1>2
    <2>2. req[t].block.hash \in DOMAIN blocks
      BY <1>2, <2>1 DEF Inductive, LocalSound, LockProtects
    <2>3. req[t].block = blocks[req[t].block.hash]
      BY <1>2, <2>1 DEF CountsBacked
    <2> QED
      BY <2>1, <2>2, <2>3
  <1> QED
    BY <1>1, <1>2 DEF CountsBacked

\* What is announced is the count of the stored block.
LEMMA AnnouncedCount ==
  ASSUME Inductive, CountsBacked, NEW t \in Thread, AnswerSignature(t)
  PROVE  LET h == req[t].block.hash IN
         /\ h \in DOMAIN blocks /\ blocks' = blocks
         /\ DOMAIN notified' = DOMAIN notified \cup {h}
         /\ notified'[h] = ValidSignatures(blocks[h])
         /\ \A g \in DOMAIN notified : g # h => notified'[g] = notified[g]
  BY DEF AnswerSignature, CountsBacked, Inductive, LocalSound, LockProtects, Put, disk

LEMMA CountsStep ==
  ASSUME Inductive, CountsBacked, [Next]_vars
  PROVE  CountsBacked'
  <1>1. CASE Start
    <2>1. \A h \in DOMAIN blocks : h \in DOMAIN blocks' /\ blocks'[h] = blocks[h]
      BY <1>1, StartEffect DEF GenesisAdded, BlockAdded
    <2> QED
      BY <1>1, <2>1, UnannouncedStep DEF Start
  <1>2. CASE Crash
    BY <1>2, NoRequestType DEF Crash, CountsBacked, EmptyBucket
  <1>3. CASE UNCHANGED vars
    BY <1>3 DEF vars, disk, CountsBacked
  <1>4. ASSUME NEW t \in Thread, AnswerSignature(t)
        PROVE  CountsBacked'
    <2>1. ~StoreSignature(t)
      BY <1>4 DEF AnswerSignature, StoreSignature
    <2>2. \A u \in Thread : req'[u].step = "signed" => req'[u] = req[u]
      BY <1>4, <2>1, NobodyElseSigns DEF Proceed, Work, Send
    <2> DEFINE h == req[t].block.hash
    <2>3. /\ h \in DOMAIN blocks /\ blocks' = blocks
          /\ DOMAIN notified' = DOMAIN notified \cup {h}
          /\ notified'[h] = ValidSignatures(blocks[h])
          /\ \A g \in DOMAIN notified : g # h => notified'[g] = notified[g]
      BY <1>4, AnnouncedCount
    <2>4. ValidSignatures(blocks[h]) \in Nat
      BY <2>3, ValidSignaturesType DEF Inductive, DiskTypes, IsBucket
    <2> HIDE DEF h
    <2>5. \A g \in DOMAIN notified' :
            g \in DOMAIN blocks' /\ notified'[g] <= ValidSignatures(blocks'[g])
      BY <2>3, <2>4 DEF CountsBacked
    <2>6. \A u \in Thread : req'[u].step = "signed" => req'[u].block = blocks'[req'[u].block.hash]
      BY <2>2, <2>3 DEF CountsBacked
    <2> QED
      BY <2>5, <2>6 DEF CountsBacked
  <1>5. ASSUME NEW t \in Thread, StoreSignature(t)
        PROVE  CountsBacked'
    <2> DEFINE h == req[t].block.hash
               k == req[t].key
    <2>1. /\ h \in DOMAIN blocks /\ k \in Key
          /\ DOMAIN blocks' = DOMAIN blocks
          /\ blocks'[h] = AddSignature(blocks[h], k, TRUE)
          /\ \A g \in DOMAIN blocks : g # h => blocks'[g] = blocks[g]
      BY <1>5, SignatureStored
    <2>2. /\ req[t].step = "locked" /\ notified' = notified
          /\ Goto(t, "signed", req[t].block)
      BY <1>5 DEF StoreSignature
    <2>3. req[t].block = AddSignature(blocks[h], k, TRUE)
      BY <2>2 DEF Inductive, LocalSound, LockProtects
    <2>4. \A u \in Thread : u # t => req'[u] = req[u] /\ req'[u].step # "signed"
      <3>1. blockMu = t
        BY <2>2 DEF Inductive, LocalSound, LockProtects
      <3>2. \A u \in Thread : u # t => req[u].step # "signed"
        BY <3>1 DEF Inductive, LocalSound, LockProtects
      <3> QED
        BY <2>2, <3>2 DEF Goto, Inductive, ProcessTypes
    <2>5. req'[t].block = req[t].block
      BY <2>2 DEF Goto, Inductive, ProcessTypes, Request
    <2>6. ValidSignatures(blocks[h]) <= ValidSignatures(blocks'[h])
      BY <2>1, ValidSignaturesGrow DEF Inductive, DiskTypes, IsBucket
    <2>7. /\ \A g \in DOMAIN blocks : blocks[g] \in Blocks /\ blocks'[g] \in Blocks
          /\ \A g \in DOMAIN notified : notified[g] \in Nat
      BY <1>5, <2>1, SignatureStored DEF Inductive, DiskTypes, ProcessTypes, IsBucket
    <2>8. \A g \in DOMAIN notified :
            g \in DOMAIN blocks' /\ notified[g] <= ValidSignatures(blocks'[g])
      <3> SUFFICES ASSUME NEW g \in DOMAIN notified
                   PROVE  g \in DOMAIN blocks' /\ notified[g] <= ValidSignatures(blocks'[g])
        OBVIOUS
      <3>1. g \in DOMAIN blocks /\ notified[g] <= ValidSignatures(blocks[g])
        BY DEF CountsBacked
      <3>2. /\ notified[g] \in Nat
            /\ ValidSignatures(blocks[g]) \in Nat /\ ValidSignatures(blocks'[g]) \in Nat
        BY <2>7, <3>1, ValidSignaturesType
      <3>3. CASE g = h
        <4>1. ValidSignatures(blocks[g]) <= ValidSignatures(blocks'[g])
          BY <2>6, <3>3
        <4>2. g \in DOMAIN blocks'
          BY <2>1, <3>1
        <4> HIDE DEF h, k
        <4> QED
          BY <3>1, <3>2, <4>1, <4>2
      <3>4. CASE g # h
        BY <2>1, <3>1, <3>4
      <3> QED
        BY <3>3, <3>4
    <2> QED
      BY <2>1, <2>2, <2>3, <2>4, <2>5, <2>8 DEF CountsBacked
  <1>6. ASSUME NEW t \in Thread, Arrive(t) \/ Proceed(t), ~StoreSignature(t),
               ~AnswerSignature(t)
        PROVE  CountsBacked'
    <2>1. \A g \in DOMAIN blocks : g \in DOMAIN blocks' /\ blocks'[g] = blocks[g]
      <3>1. CASE StoreBlock(t)
        BY <3>1, StoreBlockEffect DEF ChildAdded, BlockAdded
      <3>2. CASE ~StoreBlock(t)
        BY <1>6, <3>2 DEF Arrive, ReceiveFile, BuildSignedBlock, BeginSign, Proceed, Work, Send, UploadFails, BuildBlock,
           StoreBlockFails, AnnounceBlock, SaveMetadata, SaveMetadataFails, BulkDone,
           LockAndSign, LockAndReject, StoreSignatureFails, disk
      <3> QED
        BY <3>1, <3>2
    <2>2. notified' = notified
      BY <1>6 DEF Arrive, ReceiveFile, BuildSignedBlock, BeginSign, Proceed, Work, Send, UploadFails, BuildBlock, StoreBlock,
         StoreBlockFails, AnnounceBlock, SaveMetadata, SaveMetadataFails, BulkDone,
         LockAndSign, LockAndReject, StoreSignatureFails
    <2> QED
      BY <1>6, <2>1, <2>2, NobodyElseSigns, UnannouncedStep
  <1> QED
    BY <1>1, <1>2, <1>3, <1>4, <1>5, <1>6 DEF Next

\* The counts that BroadcastConsensus reports of a block never go back, because
\* blockMu is held from the read of the block to the announcement.
THEOREM CountsInOrder == Spec => NotificationsInOrder
  <1> DEFINE Step == \A h \in DOMAIN notified \cap DOMAIN notified' : notified'[h] >= notified[h]
  <1>1. Init => CountsBacked
    BY NoRequestType DEF Init, CountsBacked, EmptyBucket
  <1>2. Inductive /\ CountsBacked /\ [Next]_vars => CountsBacked'
    BY CountsStep
  <1>3. Inductive /\ CountsBacked /\ [Next]_vars => [Step]_vars
    <2> SUFFICES ASSUME Inductive, CountsBacked, [Next]_vars,
                        NEW h \in DOMAIN notified \cap DOMAIN notified'
                 PROVE  notified'[h] >= notified[h]
      OBVIOUS
    <2>1. notified[h] \in Nat /\ ValidSignatures(blocks[h]) \in Nat
      BY ValidSignaturesType DEF CountsBacked, Inductive, ProcessTypes, DiskTypes, IsBucket
    <2>2. ASSUME NEW t \in Thread, AnswerSignature(t)
          PROVE  notified'[h] >= notified[h]
      <3>1. notified'[h] = ValidSignatures(blocks[h]) \/ notified'[h] = notified[h]
        BY <2>2, AnnouncedCount
      <3>2. notified[h] <= ValidSignatures(blocks[h])
        BY DEF CountsBacked
      <3> QED
        BY <2>1, <3>1, <3>2
    <2>3. CASE Crash
      BY <2>3 DEF Crash, EmptyBucket
    <2>4. CASE notified' = notified
      BY <2>1, <2>4
    <2> QED
      BY <2>2, <2>3, <2>4 DEF Next, vars, Start, Arrive, ReceiveFile, BuildSignedBlock, BeginSign,
         Proceed, Work, Send, UploadFails, BuildBlock, StoreBlock, StoreBlockFails, AnnounceBlock, SaveMetadata,
         SaveMetadataFails, BulkDone, LockAndSign, LockAndReject, StoreSignature,
         StoreSignatureFails
  <1> HIDE DEF Step
  <1>4. Spec => [][Step]_vars
    BY <1>1, <1>2, <1>3, InductiveAlways, PTL DEF Spec
  <1> QED
    BY <1>4, PTL DEF NotificationsInOrder, Step

------------------------------------------------------------------------------
(* The store implements the ledger *)

\* The ledger and the endorsements that module Ledger sees.
SeenLedger   == [h \in DOMAIN blocks |-> [parent |-> blocks[h].prev, doc |-> blocks[h].doc]]
SeenEndorsed == [h \in DOMAIN blocks |-> Signers(blocks[h])]

\* At most one key signs a block as it is made.
LEMMA SignersOfNew ==
  ASSUME NEW b \in Blocks, Len(b.sigs) <= 1
  PROVE  Signers(b) \in L!Makers
  <1>1. b.sigs \in Seq(Sig) /\ Len(b.sigs) \in Nat /\ DOMAIN b.sigs = 1..Len(b.sigs)
    BY DEF Blocks
  <1>2. CASE Len(b.sigs) = 0
    <2>1. DOMAIN b.sigs = {}
      BY <1>1, <1>2
    <2> QED
      BY <2>1 DEF Signers, L!Makers
  <1>3. CASE Len(b.sigs) = 1
    <2>1. DOMAIN b.sigs = {1}
      BY <1>1, <1>3
    <2>2. b.sigs[1] \in Sig
      BY <1>1, <2>1
    <2>3. b.sigs[1].key \in Key
      BY <2>2 DEF Sig
    <2>4. Signers(b) = {b.sigs[1].key}
      BY <2>1 DEF Signers
    <2> QED
      BY <2>3, <2>4 DEF L!Makers
  <1>4. Len(b.sigs) = 0 \/ Len(b.sigs) = 1
    <2> DEFINE n == Len(b.sigs)
    <2>1. n \in Nat /\ n <= 1
      BY <1>1
    <2> HIDE DEF n
    <2>2. n = 0 \/ n = 1
      BY <2>1
    <2> QED
      BY <2>2 DEF n
  <1> QED
    BY <1>2, <1>3, <1>4

LEMMA SignersGrow ==
  ASSUME NEW b \in Blocks, NEW k \in Key
  PROVE  Signers(AddSignature(b, k, TRUE)) = Signers(b) \cup {k}
  <1> DEFINE c == AddSignature(b, k, TRUE)
  <1>1. /\ c \in Blocks /\ Len(b.sigs) \in Nat
        /\ Len(c.sigs) = Len(b.sigs) + 1
        /\ c.sigs[Len(c.sigs)] = Signature(k, TRUE)
        /\ \A i \in 1..Len(b.sigs) : c.sigs[i] = b.sigs[i]
    BY AddSignatureFields
  <1>b. DOMAIN b.sigs = 1..Len(b.sigs)
    <2>1. b.sigs \in Seq(Sig)
      BY DEF Blocks
    <2> QED
      BY <2>1
  <1> HIDE DEF c
  <1>c. DOMAIN c.sigs = 1..Len(c.sigs)
    <2>1. c.sigs \in Seq(Sig)
      BY <1>1 DEF Blocks
    <2> QED
      BY <2>1
  <1>2. DOMAIN b.sigs = 1..Len(b.sigs) /\ DOMAIN c.sigs = 1..Len(c.sigs)
    BY <1>b, <1>c
  <1>3. DOMAIN c.sigs = DOMAIN b.sigs \cup {Len(c.sigs)}
    BY <1>1, <1>2
  <1>4. c.sigs[Len(c.sigs)].key = k
    BY <1>1 DEF Signature
  <1> QED
    BY <1>1, <1>2, <1>3, <1>4 DEF Signers, c

LEMMA EnterLedger ==
  ASSUME NEW b \in Blocks, BlockAdded(b)
  PROVE  /\ L!Enter(b.hash, b.prev, b.doc, Signers(b))
         /\ Signers(b) \in L!Makers
         /\ b.doc \in AnyDoc
  <1>1. /\ b.hash \notin DOMAIN SeenLedger
        /\ SeenLedger' = [h \in DOMAIN SeenLedger \cup {b.hash} |->
                            IF h = b.hash THEN [parent |-> b.prev, doc |-> b.doc]
                                          ELSE SeenLedger[h]]
    BY DEF BlockAdded, SeenLedger
  <1>2. SeenEndorsed' = [h \in DOMAIN SeenLedger \cup {b.hash} |->
                            IF h = b.hash THEN Signers(b) ELSE SeenEndorsed[h]]
    BY DEF BlockAdded, SeenLedger, SeenEndorsed
  <1>3. Signers(b) \in L!Makers
    BY SignersOfNew DEF BlockAdded
  <1> QED
    BY <1>1, <1>2, <1>3 DEF L!Enter, SeenLedger, SeenEndorsed, Blocks

\* Every step of the server is a step of the ledger or leaves it alone.
LEMMA StepRefines == Inductive /\ [Next]_vars => [L!Next]_(L!vars)
  <1> SUFFICES ASSUME Inductive, [Next]_vars PROVE [L!Next]_(L!vars)
    OBVIOUS
  <1>1. CASE UNCHANGED <<blocks, lastHash, lastHeight>>
    BY <1>1 DEF L!vars
  <1>2. ASSUME NEW b \in Blocks, GenesisAdded(b)
        PROVE  L!Next
    <2>1. L!Enter(b.hash, ZeroHash, b.doc, {}) /\ b.doc \in AnyDoc
      <3>1. Signers(b) = {}
        BY <1>2 DEF GenesisAdded, Signers
      <3> QED
        BY <1>2, <3>1, EnterLedger DEF GenesisAdded
    <2>2. L!Found(b.hash, b.doc)
      BY <1>2, <2>1 DEF GenesisAdded, L!Found
    <2> QED
      BY <1>2, <2>1, <2>2 DEF L!Next, GenesisAdded, BlockAdded
  <1>3. ASSUME NEW b \in Blocks, ChildAdded(b)
        PROVE  L!Next
    <2>1. /\ L!Enter(b.hash, b.prev, b.doc, Signers(b))
          /\ Signers(b) \in L!Makers /\ b.doc \in AnyDoc /\ b.hash \in Hash
      BY <1>3, EnterLedger DEF ChildAdded, BlockAdded
    <2>2. CASE b.prev = lastHash
      <3>1. L!Extend(b.hash, b.doc, Signers(b))
        BY <1>3, <2>1, <2>2 DEF ChildAdded, L!Extend
      <3> QED
        BY <2>1, <3>1 DEF L!Next
    <2>3. CASE b.prev # lastHash
      <3>1. L!Branch(b.hash, b.prev, b.doc, Signers(b))
        BY <1>3, <2>1, <2>3 DEF ChildAdded, L!Branch
      <3> QED
        BY <1>3, <2>1, <3>1 DEF L!Next, ChildAdded
    <2> QED
      BY <2>2, <2>3
  <1>4. ASSUME NEW h \in DOMAIN blocks, NEW k \in Key, SignatureAdded(h, k)
        PROVE  L!Next
    <2> DEFINE c == AddSignature(blocks[h], k, TRUE)
    <2>1. /\ blocks[h] \in Blocks
          /\ k \notin Signers(blocks[h])
          /\ DOMAIN blocks' = DOMAIN blocks /\ blocks'[h] = c
          /\ \A g \in DOMAIN blocks : g # h => blocks'[g] = blocks[g]
          /\ lastHash' = lastHash
      BY <1>4 DEF SignatureAdded, HasSignature, Signers
    <2>2. c.prev = blocks[h].prev /\ c.doc = blocks[h].doc
      BY <2>1, AddSignatureFields
    <2>3. Signers(c) = Signers(blocks[h]) \cup {k}
      BY <2>1, SignersGrow
    <2> HIDE DEF c
    <2>4. SeenLedger' = SeenLedger
      BY <2>1, <2>2 DEF SeenLedger
    <2>5. SeenEndorsed' = [SeenEndorsed EXCEPT ![h] = @ \cup {k}]
      BY <2>1, <2>3 DEF SeenEndorsed
    <2>6. L!Endorse(h, k)
      BY <2>1, <2>4, <2>5 DEF L!Endorse, SeenLedger, SeenEndorsed
    <2> QED
      BY <2>6 DEF L!Next
  <1> QED
    BY <1>1, <1>2, <1>3, <1>4, StepEffect

\* The server, with its indexes, its concurrent handlers and its crashes, does
\* nothing to the blocks that module Ledger does not allow.
THEOREM ImplementsLedger == Spec => RefinesLedger
  <1>1. Init => L!Init
    BY DEF Init, L!Init, EmptyBucket
  <1> QED
    BY <1>1, StepRefines, InductiveAlways, PTL DEF Spec, RefinesLedger, L!Spec
==============================================================================
