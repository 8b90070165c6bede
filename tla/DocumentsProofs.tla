-------------------------- MODULE DocumentsProofs --------------------------
(***************************************************************************)
(* What Documents keeps, proved for any number of threads, documents,      *)
(* categories and blocks.  First, a server with categories is a            *)
(* ChainServer, so that what is proved of that holds here as well.         *)
(***************************************************************************)
EXTENDS Documents, ChainServerProofs

------------------------------------------------------------------------------
(* A server with categories is a ChainServer *)

LEMMA DocStepIsStep == [DocNext]_allVars => [Next]_vars
  <1> SUFFICES ASSUME [DocNext]_allVars PROVE [Next]_vars
    OBVIOUS
  <1>1. CASE Process
    BY <1>1 DEF Process, Next
  <1>2. ASSUME NEW c \in Category, CreateCategory(c) \/ DeleteCategory(c)
        PROVE  UNCHANGED vars
    BY <1>2 DEF CreateCategory, DeleteCategory
  <1>3. ASSUME NEW t \in Thread, NEW op \in {"upload", "bulk"}, NEW d \in Doc,
               NEW c \in FormValue, WriteFileIn(t, op, d, c)
        PROVE  Next
    BY <1>3 DEF WriteFileIn, Arrive, Next
  <1>4. ASSUME NEW t \in Thread, SaveMetadataIn(t) \/ SaveMetadataInFails(t)
        PROVE  Next
    BY <1>4 DEF SaveMetadataIn, SaveMetadataInFails, Proceed, Work, Next
  <1>5. ASSUME NEW t \in Thread, IncrementCategoryDocCount(t) \/ IncrementFails(t)
        PROVE  UNCHANGED vars
    BY <1>5 DEF IncrementCategoryDocCount, IncrementFails
  <1>6. ASSUME NEW t \in Thread, FinishFile(t)
        PROVE  UNCHANGED vars
    BY <1>6 DEF FinishFile
  <1>7. ASSUME NEW t \in Thread, WriteFails(t)
        PROVE  Next
    BY <1>7 DEF WriteFails, Proceed, Work, Next
  <1>8. ASSUME NEW t \in Thread, OtherStep(t)
        PROVE  Next
    BY <1>8 DEF OtherStep, Next
  <1>9. CASE UNCHANGED allVars
    BY <1>9 DEF allVars
  <1> QED
    BY <1>1, <1>2, <1>3, <1>4, <1>5, <1>6, <1>7, <1>8, <1>9 DEF DocNext

\* Whatever files are written and categories come and go, the blocks, indexes and
\* metadata are those of a ChainServer.
THEOREM DocumentsAreChain == DocSpec => Spec
  <1>1. DocInit => Init
    BY DEF DocInit
  <1> QED
    BY <1>1, DocStepIsStep, PTL DEF DocSpec, Spec

\* So every document is found, its metadata names its block, the chain has one
\* block of each height, the signatures of a block are as many keys, and the store
\* implements Ledger.
THEOREM DocumentsKept ==
  DocSpec => /\ [](DocIndexSound /\ MetadataSound)
             /\ [](OneOfEachHeightOnChain /\ CountsAreKeys)
             /\ RefinesLedger
  BY DocumentsAreChain, DocumentsSound, ChainIsNumbered, SignaturesAreKeys, ImplementsLedger, PTL

------------------------------------------------------------------------------
(* The inductive invariant *)

DocTypes ==
  /\ IsBucket(categories, Category, Nat)
  /\ IsBucket(metaCategory, Doc, FormValue) /\ IsFiniteSet(DOMAIN metaCategory)
  /\ form \in [Thread -> FormValue]
  /\ writing \in [Thread -> Writing]
  /\ \A t \in owing : t \in Thread /\ req[t].step = "next" /\ form[t] \in Category
  /\ \A t \in Thread : req[t].step = "idle" => form[t] = NoCategory

\* A file on its way to its metadata.
Carries(r) ==
  \/ r.step \in {"filed", "stored", "announced"}
  \/ r.step = "built" /\ r.op # "create"

\* Only a request whose file is written goes on with it, and who finds it there
\* leaves something behind, whichever of several writers of a file ends last.
FilesInPlace ==
  \A t \in Thread :
    /\ writing[t] # "no" => req[t].step = "filed"
    /\ writing[t] = "emptied" => PathOf(t) \in Kept
    /\ Carries(req[t]) /\ writing[t] = "no" => PathOf(t) \in Kept

\* Every block of a document may still be counted twice while its upload is before
\* the metadata, and once while the upload is before the second count.
Counted(c)   == IF c \in DOMAIN categories THEN categories[c] ELSE 0
Owing(c)     == {t \in owing : form[t] = c}
Uploading(c) == {t \in Thread : req[t].step \in {"stored", "announced"} /\ form[t] = c}

CountNotMore ==
  \A c \in Category :
    /\ IsFiniteSet(Owing(c)) /\ IsFiniteSet(Uploading(c))
    /\ Counted(c) + Cardinality(Owing(c)) + 2 * Cardinality(Uploading(c))
         <= 2 * Cardinality(Made)

DocInductive ==
  DocTypes /\ FilesInPlace /\ UploadedFileKept /\ ListedIsStored /\ DocCountCovers /\ CountNotMore

LEMMA HashesFinite == \A S \in SUBSET Hash : IsFiniteSet(S) /\ Cardinality(S) \in Nat
  <1>1. IsFiniteSet(Hash)
    BY ConstantsAssumption, FS_Interval DEF Hash
  <1> QED
    BY <1>1, FS_Subset, FS_CardinalityType

LEMMA MadeFinite ==
  ASSUME Inductive
  PROVE  Made \in SUBSET Hash /\ IsFiniteSet(Made) /\ Cardinality(Made) \in Nat
  <1>1. Made \in SUBSET Hash
    BY DEF Made, Inductive, DiskTypes, IsBucket
  <1> QED
    BY <1>1, HashesFinite

LEMMA MadeGrows ==
  ASSUME Inductive, Inductive', [Next]_vars
  PROVE  Made \subseteq Made' /\ Cardinality(Made) <= Cardinality(Made')
  <1>1. \A h \in DOMAIN blocks : h \in DOMAIN blocks' /\ blocks'[h].height = blocks[h].height
    <2>1. ASSUME NEW g \in DOMAIN blocks, NEW k \in Key, SignatureAdded(g, k),
                 NEW h \in DOMAIN blocks
          PROVE  h \in DOMAIN blocks' /\ blocks'[h].height = blocks[h].height
      <3>1. blocks[g] \in Blocks /\ blocks'[g] = AddSignature(blocks[g], k, TRUE)
        BY <2>1 DEF SignatureAdded
      <3>2. blocks'[g].height = blocks[g].height
        <4> DEFINE b == blocks[g]
        <4>1. AddSignature(b, k, TRUE).height = b.height
          <5> HIDE DEF b
          <5> QED
            BY <3>1, AddSignatureFields DEF b
        <4> QED
          BY <3>1, <4>1
      <3> QED
        BY <2>1, <3>2 DEF SignatureAdded
    <2> QED
      BY <2>1, StepEffect DEF GenesisAdded, ChildAdded, BlockAdded
  <1>2. Made \subseteq Made'
    BY <1>1 DEF Made
  <1>3. IsFiniteSet(Made')
    <2>1. Made' \in SUBSET Hash
      BY DEF Made, Inductive, DiskTypes, IsBucket
    <2> QED
      BY <2>1, HashesFinite
  <1> QED
    BY <1>2, <1>3, FS_Subset

\* An upload that stores its block makes one more.
LEMMA MadeOneMore ==
  ASSUME Inductive, Inductive', NEW t \in Thread, StoreBlock(t)
  PROVE  Cardinality(Made') = Cardinality(Made) + 1
  <1> DEFINE b == req[t].block
  <1>1. ChildAdded(b)
    BY StoreBlockEffect
  <1>2. b.height > 0
    BY DEF StoreBlock, Inductive, LocalSound, BuiltBlocks, DiskTypes
  <1> HIDE DEF b
  <1>3. b.hash \notin Made /\ Made' = Made \cup {b.hash}
    BY <1>1, <1>2 DEF ChildAdded, BlockAdded, Made
  <1> QED
    BY <1>3, MadeFinite, FS_AddElement

LEMMA DocInitInductive == DocInit => DocInductive
  <1> SUFFICES ASSUME DocInit PROVE DocInductive
    OBVIOUS
  <1> USE DEF DocInit
  <1>1. DocTypes
    BY EmptyIsBucket, FS_EmptySet DEF DocTypes, FormValue, Writing
  <1>2. \A t \in Thread : req[t].step = "idle"
    BY NoRequestType DEF Init
  <1>3. FilesInPlace
    BY <1>2 DEF FilesInPlace, Carries
  <1>4. UploadedFileKept /\ ListedIsStored /\ DocCountCovers
    BY EmptyIsBucket DEF Init, UploadedFileKept, ListedIsStored, DocCountCovers
  <1>5. ASSUME NEW c \in Category
        PROVE  Owing(c) = {} /\ Uploading(c) = {} /\ Counted(c) = 0
    BY <1>2, EmptyIsBucket DEF Owing, Uploading, Counted
  <1>6. Made = {}
    BY EmptyIsBucket DEF Made, Init
  <1>7. CountNotMore
    BY <1>5, <1>6, FS_EmptySet DEF CountNotMore
  <1> QED
    BY <1>1, <1>3, <1>4, <1>7 DEF DocInductive

------------------------------------------------------------------------------
(* What one step does to requests and sets of threads *)

LEMMA OthersStay ==
  ASSUME Inductive, NEW t \in Thread, Arrive(t) \/ Proceed(t)
  PROVE  \A u \in Thread : u # t => req'[u] = req[u]
  <1>1. req \in [Thread -> Request]
    BY DEF Inductive, ProcessTypes
  <1>2. CASE Arrive(t)
    BY <1>1, <1>2 DEF Arrive, ReceiveFile, BuildSignedBlock, BeginSign, Enter
  <1>3. CASE Proceed(t)
    BY <1>1, <1>3 DEF Proceed, Work, Send, UploadFails, BuildBlock, StoreBlock, StoreBlockFails, AnnounceBlock,
       SaveMetadata, SaveMetadataFails, BulkDone, LockAndSign, LockAndReject, StoreSignature,
       StoreSignatureFails, AnswerSignature, Goto, Respond
  <1> QED
    BY <1>2, <1>3

\* A step that has nothing to do with categories carries a file on, if at all, as
\* the same document, and brings it past its block only by storing that.
LEMMA FileCarriedOn ==
  ASSUME Inductive, NEW t \in Thread, OtherStep(t)
  PROVE  /\ Carries(req'[t]) =>
              /\ Carries(req[t]) /\ req'[t].block.doc = req[t].block.doc
              /\ req'[t].step # "idle"
         /\ req'[t].step \in {"stored", "announced"} =>
              req[t].step \in {"stored", "announced"} \/ StoreBlock(t)
  <1>1. req \in [Thread -> Request] /\ req[t] \in Request
    BY DEF Inductive, ProcessTypes
  <1>2. CASE Arrive(t) /\ req'[t].step # "filed"
    <2>1. ASSUME NEW op \in {"upload", "bulk"}, NEW d \in Doc, ReceiveFile(t, op, d)
          PROVE  FALSE
      BY <1>1, <1>2, <2>1 DEF ReceiveFile, Enter, NewRequest
    <2>2. ASSUME NEW k \in Key, NEW d \in Doc, BuildSignedBlock(t, k, d)
          PROVE  req'[t].step = "built" /\ req'[t].op = "create"
      BY <1>1, <2>2 DEF BuildSignedBlock, Enter, NewRequest
    <2>3. ASSUME NEW h, NEW k, NEW valid, BeginSign(t, h, k, valid)
          PROVE  req'[t].step = "checked"
      BY <1>1, <2>3 DEF BeginSign, Enter, NewRequest
    <2> QED
      BY <1>2, <2>1, <2>2, <2>3 DEF Arrive, Carries
  <1>3. CASE Proceed(t) /\ req[t].step # "announced"
    <2>1. CASE BuildBlock(t)
      <3>1. /\ req[t].step = "filed" /\ req'[t].step = "built"
            /\ req'[t].block = NextBlock(req[t].block.doc)
        BY <1>1, <2>1 DEF BuildBlock, Goto, Request
      <3>2. req'[t].block.doc = req[t].block.doc
        BY <3>1 DEF NextBlock, NewBlock
      <3> QED
        BY <3>1, <3>2 DEF Carries
    <2>2. CASE StoreBlock(t)
      <3>1. CASE req[t].op = "create"
        BY <1>1, <2>2, <3>1, RespondRequest DEF StoreBlock, Carries
      <3>2. CASE req[t].op # "create"
        BY <1>1, <2>2, <3>2 DEF StoreBlock, Carries, Goto, Request
      <3> QED
        BY <3>1, <3>2
    <2>3. CASE AnnounceBlock(t)
      <3>1. CASE req[t].op # "bulk"
        BY <1>1, <2>3, <3>1, RespondRequest DEF AnnounceBlock, Carries
      <3>2. CASE req[t].op = "bulk"
        BY <1>1, <2>3, <3>2 DEF AnnounceBlock, Carries, Goto, Request
      <3> QED
        BY <3>1, <3>2
    <2>4. CASE LockAndSign(t) \/ StoreSignature(t)
      <3>1. ASSUME NEW s \in Steps, NEW b, Goto(t, s, b)
            PROVE  req'[t].step = s
        BY <1>1, <3>1 DEF Goto, Request
      <3>2. req'[t].step \in {"locked", "signed"}
        BY <2>4, <3>1 DEF LockAndSign, StoreSignature, Steps
      <3> QED
        BY <3>2 DEF Carries
    <2>5. CASE (StoreBlockFails(t) \/ UploadFails(t)) /\ req[t].op = "bulk"
      BY <1>1, <2>5 DEF StoreBlockFails, UploadFails, Carries, Goto, Request
    <2>6. CASE \/ (StoreBlockFails(t) \/ UploadFails(t)) /\ req[t].op # "bulk"
               \/ BulkDone(t) \/ LockAndReject(t) \/ StoreSignatureFails(t) \/ AnswerSignature(t)
      <3>1. Respond(t)
        BY <2>6 DEF StoreBlockFails, UploadFails, BulkDone, LockAndReject, StoreSignatureFails, AnswerSignature
      <3> QED
        BY <1>1, <3>1, RespondRequest DEF Carries
    <2>7. ~SaveMetadata(t) /\ ~SaveMetadataFails(t)
      BY <1>3 DEF SaveMetadata, SaveMetadataFails
    <2> QED
      BY <1>3, <2>1, <2>2, <2>3, <2>4, <2>5, <2>6, <2>7, Zenon DEF Proceed, Work, Send
  <1> QED
    BY <1>2, <1>3 DEF OtherStep

LEMMA OneElement ==
  ASSUME NEW S, IsFiniteSet(S), NEW t, NEW B \in BOOLEAN, NEW T,
         T = IF B THEN S \cup {t} ELSE S \ {t}
  PROVE  /\ IsFiniteSet(T) /\ Cardinality(S) \in Nat
         /\ Cardinality(T) = Cardinality(S) + (IF B THEN 1 ELSE 0) - (IF t \in S THEN 1 ELSE 0)
  <1>1. Cardinality(S) \in Nat
    BY FS_CardinalityType
  <1>2. CASE B
    BY <1>1, <1>2, FS_AddElement
  <1>3. CASE ~B
    BY <1>1, <1>3, FS_RemoveElement
  <1> QED
    BY <1>2, <1>3

\* What becomes of the two sets of threads of a category when one thread moves.
OneMoves(t) ==
  /\ \A u \in Thread : u # t => req'[u] = req[u] /\ form'[u] = form[u]
  /\ owing' \ {t} = owing \ {t}

LEMMA SetsOfThreads ==
  ASSUME DocInductive, NEW t \in Thread, OneMoves(t), NEW c \in Category,
         owing' \subseteq Thread
  PROVE  /\ IsFiniteSet(Owing(c)') /\ IsFiniteSet(Uploading(c)')
         /\ Cardinality(Owing(c)') =
              Cardinality(Owing(c)) + (IF t \in owing' /\ form'[t] = c THEN 1 ELSE 0)
                                    - (IF t \in Owing(c) THEN 1 ELSE 0)
         /\ Cardinality(Uploading(c)') =
              Cardinality(Uploading(c))
                + (IF req'[t].step \in {"stored", "announced"} /\ form'[t] = c THEN 1 ELSE 0)
                - (IF t \in Uploading(c) THEN 1 ELSE 0)
         /\ Cardinality(Owing(c)) \in Nat /\ Cardinality(Uploading(c)) \in Nat
  <1>1. IsFiniteSet(Owing(c)) /\ IsFiniteSet(Uploading(c)) /\ owing \subseteq Thread
    BY DEF DocInductive, CountNotMore, DocTypes
  <1>2. Owing(c)' = IF t \in owing' /\ form'[t] = c THEN Owing(c) \cup {t} ELSE Owing(c) \ {t}
    BY <1>1 DEF OneMoves, Owing
  <1>3. Uploading(c)' = IF req'[t].step \in {"stored", "announced"} /\ form'[t] = c
                          THEN Uploading(c) \cup {t} ELSE Uploading(c) \ {t}
    BY DEF OneMoves, Uploading
  <1> DEFINE owes  == t \in owing' /\ form'[t] = c
             loads == req'[t].step \in {"stored", "announced"} /\ form'[t] = c
             O1 == Owing(c)
             O2 == Owing(c)'
             U1 == Uploading(c)
             U2 == Uploading(c)'
  <1>4. owes \in BOOLEAN /\ loads \in BOOLEAN
    OBVIOUS
  <1>5. /\ IsFiniteSet(O1) /\ IsFiniteSet(U1)
        /\ O2 = IF owes THEN O1 \cup {t} ELSE O1 \ {t}
        /\ U2 = IF loads THEN U1 \cup {t} ELSE U1 \ {t}
    BY <1>1, <1>2, <1>3
  <1> HIDE DEF owes, loads, O1, O2, U1, U2
  <1>6. /\ IsFiniteSet(O2) /\ Cardinality(O1) \in Nat
        /\ Cardinality(O2) = Cardinality(O1) + (IF owes THEN 1 ELSE 0) - (IF t \in O1 THEN 1 ELSE 0)
    BY <1>4, <1>5, OneElement
  <1>7. /\ IsFiniteSet(U2) /\ Cardinality(U1) \in Nat
        /\ Cardinality(U2) = Cardinality(U1) + (IF loads THEN 1 ELSE 0) - (IF t \in U1 THEN 1 ELSE 0)
    BY <1>4, <1>5, OneElement
  <1> QED
    BY <1>6, <1>7 DEF owes, loads, O1, O2, U1, U2

\* Nothing is listed that was not listed, and no number changes.
LEMMA ListsUnchanged ==
  ASSUME DocInductive, UNCHANGED <<categories, metaCategory, recreated>>
  PROVE  /\ DocCountCovers'
         /\ \A c : Counted(c)' = Counted(c)
         /\ IsBucket(categories', Category, Nat)
         /\ IsBucket(metaCategory', Doc, FormValue) /\ IsFiniteSet(DOMAIN metaCategory')
  BY DEF DocInductive, DocTypes, DocCountCovers, InCategory, Counted

LEMMA CountedType == ASSUME DocInductive, NEW c PROVE Counted(c) \in Nat
  BY DEF DocInductive, DocTypes, IsBucket, Counted

\* A step of one thread keeps the upper bound if it keeps it for that thread.
LEMMA BudgetKept ==
  ASSUME DocInductive, Inductive, Inductive', NEW t \in Thread, OneMoves(t),
         owing' \subseteq Thread, [Next]_vars,
         \A c \in Category :
           /\ Counted(c)' \in Nat
           /\ Counted(c)' + (IF t \in owing' /\ form'[t] = c THEN 1 ELSE 0)
                + 2 * (IF req'[t].step \in {"stored", "announced"} /\ form'[t] = c THEN 1 ELSE 0)
                + 2 * Cardinality(Made)
              <= Counted(c) + (IF t \in Owing(c) THEN 1 ELSE 0)
                   + 2 * (IF t \in Uploading(c) THEN 1 ELSE 0) + 2 * Cardinality(Made')
  PROVE  CountNotMore'
  <1> SUFFICES ASSUME NEW c \in Category
               PROVE  /\ IsFiniteSet(Owing(c)') /\ IsFiniteSet(Uploading(c)')
                      /\ Counted(c)' + Cardinality(Owing(c)')
                           + 2 * Cardinality(Uploading(c)') <= 2 * Cardinality(Made')
    BY DEF CountNotMore
  <1>1. Counted(c) + Cardinality(Owing(c)) + 2 * Cardinality(Uploading(c)) <= 2 * Cardinality(Made)
    BY DEF DocInductive, CountNotMore
  <1>2. Cardinality(Made) \in Nat /\ Cardinality(Made') \in Nat
    <2>1. Made' \in SUBSET Hash
      BY DEF Made, Inductive, DiskTypes, IsBucket
    <2> QED
      BY <2>1, HashesFinite, MadeFinite
  <1> QED
    BY <1>1, <1>2, SetsOfThreads, CountedType

LEMMA CountOne ==
  ASSUME DocInductive, NEW c \in FormValue, categories' = Count(c)
  PROVE  /\ IsBucket(categories', Category, Nat)
         /\ DOMAIN categories' = DOMAIN categories
         /\ \A x \in DOMAIN categories :
              categories'[x] = categories[x] + (IF x = c THEN 1 ELSE 0)
         /\ \A x : /\ Counted(x)' \in Nat
                   /\ Counted(x)' <= Counted(x) + (IF x = c THEN 1 ELSE 0)
  <1>1. IsBucket(categories, Category, Nat)
    BY DEF DocInductive, DocTypes
  <1>2. CASE c \in DOMAIN categories
    <2>1. categories' = Put(categories, c, categories[c] + 1)
      BY <1>2 DEF Count
    <2> QED
      BY <1>1, <1>2, <2>1 DEF IsBucket, Put, Counted
  <1>3. CASE c \notin DOMAIN categories
    BY <1>1, <1>3 DEF Count, IsBucket, Counted
  <1> QED
    BY <1>2, <1>3

\* A step that only lowers counters keeps the upper bound.
LEMMA CountersFall ==
  ASSUME DocInductive, Inductive, UNCHANGED <<vars, form, owing>>,
         \A x : Counted(x)' \in Nat /\ Counted(x)' <= Counted(x)
  PROVE  CountNotMore'
  <1> SUFFICES ASSUME NEW x \in Category
               PROVE  /\ IsFiniteSet(Owing(x)') /\ IsFiniteSet(Uploading(x)')
                      /\ Counted(x)' + Cardinality(Owing(x)')
                           + 2 * Cardinality(Uploading(x)') <= 2 * Cardinality(Made')
    BY DEF CountNotMore
  <1>1. Owing(x)' = Owing(x) /\ Uploading(x)' = Uploading(x) /\ Made' = Made
    BY DEF Owing, Uploading, Made, vars, disk
  <1>2. /\ IsFiniteSet(Owing(x)) /\ IsFiniteSet(Uploading(x))
        /\ Counted(x) + Cardinality(Owing(x)) + 2 * Cardinality(Uploading(x))
             <= 2 * Cardinality(Made)
    BY DEF DocInductive, CountNotMore
  <1>3. Cardinality(Owing(x)) \in Nat /\ Cardinality(Uploading(x)) \in Nat
    BY <1>2, FS_CardinalityType
  <1> QED
    BY <1>1, <1>2, <1>3, MadeFinite, CountedType

------------------------------------------------------------------------------
(* What is kept of files *)

KeptStays == Kept \subseteq Kept'

LEMMA KeptWhenSame == files' = files => KeptStays
  BY DEF KeptStays, Kept

\* Nothing of files, of the documents on their way or of the lists changes.
LEMMA FilesUnchanged ==
  ASSUME DocInductive, UNCHANGED <<vars, metaCategory, files, writing, form>>
  PROVE  FilesInPlace' /\ UploadedFileKept' /\ ListedIsStored'
  <1>1. Kept' = Kept
    BY DEF Kept
  <1>2. FilesInPlace'
    BY DEF DocInductive, FilesInPlace, Carries, PathOf, Path, Kept, vars
  <1>3. UploadedFileKept'
    BY DEF DocInductive, UploadedFileKept, WithoutFile, Kept, vars, disk
  <1>4. ListedIsStored'
    BY <1>1 DEF DocInductive, ListedIsStored
  <1> QED
    BY <1>2, <1>3, <1>4

\* Files are kept for the blocks that are there, whether or not one gains a
\* signature: that of its maker, if it has one, stays the first.
LEMMA OldBlocksHaveFiles ==
  ASSUME DocInductive, Inductive, Inductive', KeptStays,
         \/ UNCHANGED blocks
         \/ Start
         \/ \E t \in Thread : StoreSignature(t)
  PROVE  UploadedFileKept'
  <1>1. ASSUME NEW g \in DOMAIN blocks', blocks'[g].height > 0, ~WithoutFile(blocks'[g]),
               g \in DOMAIN blocks, blocks'[g] = blocks[g]
        PROVE  \E c \in FormValue : <<c, blocks'[g].doc>> \in Kept'
    <2>1. PICK c \in FormValue : <<c, blocks[g].doc>> \in Kept
      BY <1>1 DEF DocInductive, UploadedFileKept
    <2>2. <<c, blocks[g].doc>> \in Kept'
      BY <2>1 DEF KeptStays
    <2> QED
      BY <1>1, <2>2
  <1>2. CASE UNCHANGED blocks
    BY <1>1, <1>2 DEF UploadedFileKept
  <1>3. CASE Start
    <2>1. CASE \E b \in Blocks : GenesisAdded(b)
      <3>1. PICK b \in Blocks : GenesisAdded(b)
        BY <2>1
      <3>2. DOMAIN blocks' = {b.hash} /\ blocks'[b.hash] = b /\ b.prev = ZeroHash
        BY <3>1 DEF GenesisAdded, BlockAdded
      <3>3. b.height = 0
        BY <3>2 DEF Inductive, DiskSound, ParentsStored, DiskTypes, IsBucket, Hash, ZeroHash
      <3> QED
        BY <3>2, <3>3 DEF UploadedFileKept
    <2> QED
      BY <1>2, <1>3, <2>1, StartEffect
  <1>4. ASSUME NEW t \in Thread, StoreSignature(t)
        PROVE  UploadedFileKept'
    <2> DEFINE h == req[t].block.hash
               b == blocks[h]
               e == AddSignature(b, req[t].key, TRUE)
    <2>1. /\ h \in DOMAIN blocks /\ req[t].key \in Key
          /\ DOMAIN blocks' = DOMAIN blocks
          /\ blocks'[h] = e
          /\ \A g \in DOMAIN blocks : g # h => blocks'[g] = blocks[g]
      BY <1>4, SignatureStored
    <2>2. b \in Blocks
      BY <2>1 DEF Inductive, DiskTypes, IsBucket
    <2>3. /\ e.height = b.height /\ e.doc = b.doc
          /\ WithoutFile(b) => WithoutFile(e)
      <3> HIDE DEF h, b
      <3>1. /\ e.height = b.height /\ e.doc = b.doc
            /\ Len(b.sigs) \in Nat /\ Len(e.sigs) = Len(b.sigs) + 1
            /\ \A i \in 1..Len(b.sigs) : e.sigs[i] = b.sigs[i]
            /\ b.sigs \in Seq(Sig) /\ e.sigs \in Seq(Sig)
        BY <2>1, <2>2, AddSignatureFields DEF Blocks
      <3> HIDE DEF e
      <3>2. ASSUME WithoutFile(b) PROVE WithoutFile(e)
        <4>1. b.sigs # <<>> /\ ~b.sigs[1].valid
          BY <3>2 DEF WithoutFile
        <4>2. Len(b.sigs) > 0
          BY <3>1, <4>1
        <4> QED
          BY <3>1, <4>1, <4>2 DEF WithoutFile
      <3> QED
        BY <3>1, <3>2
    <2>4. ASSUME b.height > 0, ~WithoutFile(b)
          PROVE  \E c \in FormValue : <<c, b.doc>> \in Kept'
      <3>1. PICK c \in FormValue : <<c, b.doc>> \in Kept
        BY <2>1, <2>4 DEF DocInductive, UploadedFileKept
      <3> QED
        BY <3>1 DEF KeptStays
    <2> HIDE DEF h, b, e
    <2> SUFFICES ASSUME NEW g \in DOMAIN blocks', blocks'[g].height > 0,
                        ~WithoutFile(blocks'[g])
                 PROVE  \E c \in FormValue : <<c, blocks'[g].doc>> \in Kept'
      BY DEF UploadedFileKept
    <2>5. CASE g = h
      BY <2>1, <2>3, <2>4, <2>5
    <2>6. CASE g # h
      BY <1>1, <2>1, <2>6
    <2> QED
      BY <2>5, <2>6
  <1> QED
    BY <1>2, <1>3, <1>4

\* A block is stored by the request that carries its file, or came without one.
LEMMA NewBlockHasFile ==
  ASSUME DocInductive, Inductive, NEW t \in Thread, StoreBlock(t), writing[t] = "no",
         files' = files
  PROVE  UploadedFileKept'
  <1> DEFINE b == req[t].block
  <1>1. /\ req[t].step = "built" /\ Len(b.sigs) <= 1
        /\ \/ req[t].op = "create" /\ Len(b.sigs) = 1 /\ ~b.sigs[1].valid
           \/ req[t].op # "create"
    BY DEF StoreBlock, Inductive, LocalSound, BuiltContent
  <1>2. /\ DOMAIN blocks' = DOMAIN blocks \cup {b.hash} /\ blocks'[b.hash] = b
        /\ \A h \in DOMAIN blocks : blocks'[h] = blocks[h]
    BY StoreBlockEffect DEF ChildAdded, BlockAdded
  <1>3. ASSUME ~WithoutFile(b)
        PROVE  \E c \in FormValue : <<c, b.doc>> \in Kept
    <2>1. Carries(req[t])
      BY <1>1, <1>3 DEF Carries, WithoutFile
    <2>2. <<form[t], b.doc>> \in Kept /\ form[t] \in FormValue
      BY <2>1 DEF DocInductive, DocTypes, FilesInPlace, PathOf, Path
    <2> QED
      BY <2>2
  <1> HIDE DEF b
  <1>4. Kept' = Kept
    BY DEF Kept
  <1> SUFFICES ASSUME NEW g \in DOMAIN blocks', blocks'[g].height > 0, ~WithoutFile(blocks'[g])
               PROVE  \E c \in FormValue : <<c, blocks'[g].doc>> \in Kept'
    BY DEF UploadedFileKept
  <1>5. CASE g = b.hash
    BY <1>2, <1>3, <1>4, <1>5
  <1>6. CASE g # b.hash
    <2>1. g \in DOMAIN blocks /\ blocks'[g] = blocks[g]
      BY <1>2, <1>6
    <2> QED
      BY <1>4, <2>1 DEF DocInductive, UploadedFileKept
  <1> QED
    BY <1>5, <1>6

------------------------------------------------------------------------------
(* Every step keeps the invariant *)

LEMMA WriteFileInStep ==
  ASSUME DocInductive, Inductive, Inductive', NEW t \in Thread, NEW op \in {"upload", "bulk"},
         NEW d \in Doc, NEW c \in FormValue, WriteFileIn(t, op, d, c)
  PROVE  DocInductive'
  <1>1. /\ ReceiveFile(t, op, d) /\ t \notin owing
        /\ form' = [form EXCEPT ![t] = c]
        /\ UNCHANGED <<categories, metaCategory, owing, recreated>>
    BY DEF WriteFileIn
  <1>2. /\ req[t].step \in {"idle", "next"}
        /\ req'[t].step = "filed" /\ req'[t].block.doc = d
        /\ \A u \in Thread : u # t => req'[u] = req[u]
    <2>1. Arrive(t)
      BY <1>1 DEF Arrive
    <2>2. req'[t] = NewRequest(op, "filed", Holding(d), Nobody, FALSE)
      BY <1>1 DEF ReceiveFile, Enter, Inductive, ProcessTypes
    <2> QED
      BY <1>1, <2>1, <2>2, OthersStay DEF ReceiveFile, NewRequest, Holding, NewBlock
  <1>3. /\ form \in [Thread -> FormValue]
        /\ \A u \in owing : u \in Thread /\ req[u].step = "next" /\ form[u] \in Category
        /\ \A u \in Thread : req[u].step = "idle" => form[u] = NoCategory
    BY DEF DocInductive, DocTypes
  <1> DEFINE p == Path(c, d)
  <1>4. /\ writing \in [Thread -> Writing]
        /\ writing' = [u \in Thread |-> IF u = t THEN "alone"
                                         ELSE IF u \in Writers(p) THEN "emptied" ELSE writing[u]]
        /\ \E s \in {"lost", "torn"} :
             /\ files' = Put(files, p, s)
             /\ p \in Kept \/ Writers(p) # {} => s = "lost"
    BY DEF WriteFileIn, DocInductive, DocTypes, Kept
  <1>5. KeptStays /\ (Writers(p) # {} => p \in Kept')
    <2> HIDE DEF p
    <2> QED
      BY <1>4 DEF KeptStays, Kept, Put
  <1>6. DocTypes'
    BY <1>1, <1>2, <1>3, <1>4, ListsUnchanged DEF DocTypes, Writing
  <1>7. FilesInPlace'
    <2> SUFFICES ASSUME NEW u \in Thread
                 PROVE  /\ writing'[u] # "no" => req'[u].step = "filed"
                        /\ writing'[u] = "emptied" => PathOf(u)' \in Kept'
                        /\ Carries(req'[u]) /\ writing'[u] = "no" => PathOf(u)' \in Kept'
      BY DEF FilesInPlace, Kept
    <2>1. CASE u = t
      BY <1>2, <1>4, <2>1
    <2>2. CASE u # t
      <3>1. req'[u] = req[u] /\ form'[u] = form[u] /\ PathOf(u)' = PathOf(u)
        BY <1>1, <1>2, <1>3, <2>2 DEF PathOf
      <3>2. CASE u \in Writers(p)
        <4>1. writing[u] # "no" /\ PathOf(u) = p /\ writing'[u] = "emptied"
          BY <1>4, <2>2, <3>2 DEF Writers
        <4>2. p \in Kept' /\ req[u].step = "filed"
          BY <1>5, <3>2, <4>1 DEF DocInductive, FilesInPlace
        <4> HIDE DEF p
        <4> QED
          BY <3>1, <4>1, <4>2
      <3>3. CASE u \notin Writers(p)
        <4>1. writing'[u] = writing[u]
          BY <1>4, <2>2, <3>3
        <4>2. /\ writing[u] # "no" => req[u].step = "filed"
              /\ writing[u] = "emptied" => PathOf(u) \in Kept
              /\ Carries(req[u]) /\ writing[u] = "no" => PathOf(u) \in Kept
          BY DEF DocInductive, FilesInPlace
        <4> QED
          BY <1>5, <3>1, <4>1, <4>2 DEF KeptStays
      <3> QED
        BY <3>2, <3>3
    <2> QED
      BY <2>1, <2>2
  <1>8. UploadedFileKept' /\ ListedIsStored'
    <2>1. UploadedFileKept'
      BY <1>1, <1>5, OldBlocksHaveFiles DEF ReceiveFile, disk
    <2>2. ListedIsStored'
      BY <1>1, <1>5 DEF DocInductive, ListedIsStored, KeptStays
    <2> QED
      BY <2>1, <2>2
  <1>9. CountNotMore'
    <2>1. Made' = Made /\ [Next]_vars
      BY <1>1, DocStepIsStep DEF Made, ReceiveFile, disk, DocNext
    <2>2. OneMoves(t) /\ owing' \subseteq Thread
      BY <1>1, <1>2, <1>3 DEF OneMoves
    <2>3. \A x \in Category : Counted(x)' = Counted(x) /\ Counted(x) \in Nat
      BY <1>1, ListsUnchanged, CountedType
    <2> QED
      BY <1>1, <1>2, <2>1, <2>2, <2>3, BudgetKept, MadeFinite
  <1> QED
    BY <1>1, <1>6, <1>7, <1>8, <1>9, ListsUnchanged DEF DocInductive

LEMMA SaveMetadataInStep ==
  ASSUME DocInductive, Inductive, Inductive', NEW t \in Thread,
         SaveMetadataIn(t) \/ SaveMetadataInFails(t)
  PROVE  DocInductive'
  <1> DEFINE d == req[t].block.doc
  <1>1. /\ SaveMetadata(t) \/ SaveMetadataFails(t)
        /\ req[t].step = "announced"
        /\ owing' = IF form[t] = NoCategory THEN owing ELSE owing \cup {t}
        /\ UNCHANGED <<files, writing, form, recreated>>
    BY DEF SaveMetadataIn, SaveMetadataInFails, SaveMetadata, SaveMetadataFails
  <1>2. /\ req'[t].step = "next"
        /\ \A u \in Thread : u # t => req'[u] = req[u]
    <2>1. Proceed(t) /\ Goto(t, "next", NoBlock) /\ req[t] \in Request
      BY <1>1 DEF Proceed, Work, SaveMetadata, SaveMetadataFails, Inductive, ProcessTypes
    <2> QED
      BY <2>1, OthersStay DEF Goto, Request, Inductive, ProcessTypes
  <1>3. /\ d \in Doc /\ <<form[t], d>> \in Kept
        /\ form[t] \in FormValue
        /\ form \in [Thread -> FormValue]
        /\ \A u \in owing : u \in Thread /\ req[u].step = "next" /\ form[u] \in Category
        /\ \A u \in Thread : req[u].step = "idle" => form[u] = NoCategory
    BY <1>1 DEF DocInductive, DocTypes, FilesInPlace, Carries, PathOf, Path, Inductive,
       LocalSound, UploadsKept, DiskTypes
  <1>4. /\ t \notin owing /\ owing' \subseteq Thread /\ OneMoves(t)
        /\ form[t] # NoCategory => form[t] \in Category
    BY <1>1, <1>2, <1>3 DEF OneMoves, FormValue
  <1> HIDE DEF d
  <1>5. /\ IsBucket(metaCategory', Doc, FormValue) /\ IsFiniteSet(DOMAIN metaCategory')
        /\ \A e \in DOMAIN metaCategory' :
             IF e = d /\ ~SaveMetadataInFails(t) THEN metaCategory'[e] = form[t]
             ELSE e \in DOMAIN metaCategory /\ metaCategory'[e] = metaCategory[e]
    <2>1. CASE SaveMetadataInFails(t)
      BY <2>1 DEF SaveMetadataInFails, DocInductive, DocTypes
    <2>2. CASE SaveMetadataIn(t) /\ ~SaveMetadataInFails(t)
      <3>1. metaCategory' = Put(metaCategory, d, form[t])
        BY <2>2 DEF SaveMetadataIn, d
      <3>2. DOMAIN metaCategory' = DOMAIN metaCategory \cup {d}
        BY <3>1 DEF Put
      <3>3. IsFiniteSet(DOMAIN metaCategory')
        BY <3>2, FS_AddElement DEF DocInductive, DocTypes
      <3> QED
        BY <1>3, <2>2, <3>1, <3>3 DEF Put, IsBucket, DocInductive, DocTypes
    <2> QED
      BY <2>1, <2>2
  <1>6. /\ IsBucket(categories', Category, Nat)
        /\ DOMAIN categories' = DOMAIN categories
        /\ \A x \in DOMAIN categories :
             categories'[x] = categories[x]
               + (IF x = form[t] /\ ~SaveMetadataInFails(t) THEN 1 ELSE 0)
        /\ \A x : /\ Counted(x)' \in Nat
                  /\ Counted(x)' <= Counted(x) + (IF x = form[t] THEN 1 ELSE 0)
    <2>1. CASE SaveMetadataInFails(t)
      BY <2>1, CountedType DEF SaveMetadataInFails, DocInductive, DocTypes, IsBucket, Counted
    <2>2. CASE SaveMetadataIn(t) /\ ~SaveMetadataInFails(t)
      <3>1. categories' = Count(form[t])
        BY <2>2 DEF SaveMetadataIn
      <3> QED
        BY <1>3, <2>2, <3>1, CountOne
    <2> QED
      BY <2>1, <2>2
  <1>7. DocTypes'
    <2>1. writing' \in [Thread -> Writing]
      BY <1>1 DEF DocInductive, DocTypes
    <2> QED
      BY <1>1, <1>2, <1>3, <1>4, <1>5, <1>6, <2>1 DEF DocTypes
  <1>8. Kept' = Kept
    BY <1>1 DEF Kept
  <1>9. FilesInPlace' /\ UploadedFileKept'
    <2>1. FilesInPlace'
      <3> SUFFICES ASSUME NEW u \in Thread
                   PROVE  /\ writing[u] # "no" => req'[u].step = "filed"
                          /\ writing[u] = "emptied" => PathOf(u)' \in Kept'
                          /\ Carries(req'[u]) /\ writing[u] = "no" => PathOf(u)' \in Kept'
        BY <1>1 DEF FilesInPlace, Kept
      <3>1. CASE u = t
        BY <1>1, <1>2, <3>1 DEF DocInductive, FilesInPlace, Carries
      <3>2. CASE u # t
        BY <1>1, <1>2, <1>8, <3>2 DEF DocInductive, FilesInPlace, Carries, PathOf
      <3> QED
        BY <3>1, <3>2
    <2>2. UNCHANGED blocks
      BY <1>1 DEF SaveMetadata, SaveMetadataFails, disk
    <2> QED
      BY <1>1, <2>1, <2>2, KeptWhenSame, OldBlocksHaveFiles
  <1>10. ListedIsStored'
    BY <1>1, <1>3, <1>5, <1>8 DEF DocInductive, ListedIsStored
  <1>11. DocCountCovers'
    <2> SUFFICES ASSUME NEW c \in DOMAIN categories', c \notin recreated'
                 PROVE  categories'[c] >= Cardinality(InCategory(c)')
      BY DEF DocCountCovers
    <2>1. /\ IsFiniteSet(InCategory(c)) /\ Cardinality(InCategory(c)) \in Nat
          /\ categories[c] >= Cardinality(InCategory(c)) /\ categories[c] \in Nat
      <3>1. IsFiniteSet(InCategory(c))
        BY FS_Subset DEF InCategory, DocInductive, DocTypes
      <3> QED
        BY <1>1, <1>6, <3>1, FS_CardinalityType DEF DocInductive, DocCountCovers, DocTypes, IsBucket
    <2>2. CASE c = form[t] /\ ~SaveMetadataInFails(t)
      <3>1. InCategory(c)' \subseteq InCategory(c) \cup {d}
        BY <1>5 DEF InCategory
      <3>2. Cardinality(InCategory(c)') <= Cardinality(InCategory(c)) + 1
        <4>1. /\ IsFiniteSet(InCategory(c) \cup {d})
              /\ Cardinality(InCategory(c) \cup {d}) <= Cardinality(InCategory(c)) + 1
          <5> DEFINE S == InCategory(c)
          <5>1. IsFiniteSet(S) /\ Cardinality(S) \in Nat
            BY <2>1
          <5> HIDE DEF S
          <5>2. IsFiniteSet(S \cup {d}) /\ Cardinality(S \cup {d}) <= Cardinality(S) + 1
            BY <5>1, FS_AddElement
          <5> QED
            BY <5>2 DEF S
        <4>2. Cardinality(InCategory(c)') <= Cardinality(InCategory(c) \cup {d})
          BY <3>1, <4>1, FS_Subset
        <4>3. Cardinality(InCategory(c)') \in Nat /\ Cardinality(InCategory(c) \cup {d}) \in Nat
          BY <3>1, <4>1, FS_Subset, FS_CardinalityType
        <4> QED
          BY <2>1, <4>1, <4>2, <4>3
      <3>3. Cardinality(InCategory(c)') \in Nat
        BY <2>1, <3>1, FS_AddElement, FS_Subset, FS_CardinalityType
      <3> QED
        BY <1>6, <2>1, <2>2, <3>2, <3>3
    <2>3. CASE ~(c = form[t] /\ ~SaveMetadataInFails(t))
      <3>1. InCategory(c)' \subseteq InCategory(c)
        BY <1>5, <2>3 DEF InCategory
      <3>2. /\ Cardinality(InCategory(c)') <= Cardinality(InCategory(c))
            /\ Cardinality(InCategory(c)') \in Nat
        BY <2>1, <3>1, FS_Subset, FS_CardinalityType
      <3> QED
        BY <1>6, <2>1, <2>3, <3>2
    <2> QED
      BY <2>2, <2>3
  <1>12. CountNotMore'
    <2>1. Made' = Made /\ [Next]_vars
      BY <1>1 DEF Made, SaveMetadata, SaveMetadataFails, disk, Proceed, Work, Next
    <2>2. \A c \in Category : t \in Uploading(c) <=> form[t] = c
      BY <1>1 DEF Uploading
    <2>3. \A c \in Category : Counted(c) \in Nat
      BY CountedType
    <2> QED
      BY <1>1, <1>2, <1>4, <1>6, <2>1, <2>2, <2>3, BudgetKept, MadeFinite DEF Owing
  <1> QED
    BY <1>7, <1>9, <1>10, <1>11, <1>12 DEF DocInductive

LEMMA IncrementStep ==
  ASSUME DocInductive, Inductive, Inductive', NEW t,
         IncrementCategoryDocCount(t) \/ IncrementFails(t)
  PROVE  DocInductive'
  <1>1. /\ t \in owing /\ owing' = owing \ {t}
        /\ UNCHANGED <<vars, metaCategory, files, writing, form, recreated>>
    BY DEF IncrementCategoryDocCount, IncrementFails
  <1>2. /\ t \in Thread /\ req[t].step = "next" /\ form[t] \in Category
        /\ owing' \subseteq Thread /\ OneMoves(t)
    BY <1>1 DEF DocInductive, DocTypes, OneMoves, vars
  <1>3. /\ IsBucket(categories', Category, Nat)
        /\ DOMAIN categories' = DOMAIN categories
        /\ \A x \in DOMAIN categories : categories'[x] >= categories[x]
        /\ \A x : /\ Counted(x)' \in Nat
                  /\ Counted(x)' <= Counted(x) + (IF x = form[t] THEN 1 ELSE 0)
    <2>1. CASE IncrementFails(t)
      BY <2>1, CountedType DEF IncrementFails, DocInductive, DocTypes, IsBucket, Counted
    <2>2. CASE IncrementCategoryDocCount(t)
      <3>1. categories' = Count(form[t]) /\ form[t] \in FormValue
        BY <1>2, <2>2 DEF IncrementCategoryDocCount, FormValue
      <3> QED
        BY <3>1, CountOne DEF DocInductive, DocTypes, IsBucket
    <2> QED
      BY <2>1, <2>2
  <1>4. DocTypes'
    BY <1>1, <1>3 DEF DocInductive, DocTypes, vars
  <1>5. FilesInPlace' /\ UploadedFileKept' /\ ListedIsStored'
    BY <1>1, FilesUnchanged
  <1>6. DocCountCovers'
    <2> SUFFICES ASSUME NEW c \in DOMAIN categories', c \notin recreated'
                 PROVE  categories'[c] >= Cardinality(InCategory(c)')
      BY DEF DocCountCovers
    <2>1. /\ categories[c] >= Cardinality(InCategory(c))
          /\ categories[c] \in Nat /\ categories'[c] \in Nat
          /\ IsFiniteSet(InCategory(c))
      <3>1. IsFiniteSet(InCategory(c))
        BY FS_Subset DEF InCategory, DocInductive, DocTypes
      <3> QED
        BY <1>1, <1>3, <3>1 DEF DocInductive, DocTypes, DocCountCovers, IsBucket
    <2>2. InCategory(c)' = InCategory(c) /\ Cardinality(InCategory(c)) \in Nat
      BY <1>1, <2>1, FS_CardinalityType DEF InCategory
    <2> QED
      BY <1>3, <2>1, <2>2
  <1>7. CountNotMore'
    <2>1. Made' = Made /\ [Next]_vars
      BY <1>1 DEF Made, vars, disk
    <2>2. /\ \A c \in Category : t \notin Uploading(c) /\ Counted(c) \in Nat
          /\ req' = req /\ form' = form
      BY <1>1, <1>2, CountedType DEF Uploading, vars
    <2> QED
      BY <1>1, <1>2, <1>3, <2>1, <2>2, BudgetKept, MadeFinite DEF Owing
  <1> QED
    BY <1>4, <1>5, <1>6, <1>7 DEF DocInductive

LEMMA FinishFileStep ==
  ASSUME DocInductive, Inductive, Inductive', NEW t \in Thread, FinishFile(t)
  PROVE  DocInductive'
  <1>1. /\ writing[t] # "no"
        /\ files' = IF writing[t] = "alone" THEN Put(files, PathOf(t), "whole") ELSE files
        /\ writing' = [writing EXCEPT ![t] = "no"]
        /\ UNCHANGED <<vars, categories, metaCategory, form, owing, recreated>>
    BY DEF FinishFile
  <1>2. writing \in [Thread -> Writing]
    BY DEF DocInductive, DocTypes
  <1>3. KeptStays /\ PathOf(t)' \in Kept'
    <2> DEFINE p == PathOf(t)
    <2>1. p' = p
      BY <1>1 DEF PathOf, vars
    <2>2. CASE writing[t] = "alone"
      <3>1. files' = Put(files, p, "whole")
        BY <1>1, <2>2
      <3> HIDE DEF p
      <3>2. KeptStays /\ p \in DOMAIN files' /\ files'[p] # "torn"
        BY <3>1 DEF KeptStays, Kept, Put
      <3> QED
        BY <2>1, <3>2 DEF Kept, p
    <2>3. CASE writing[t] # "alone"
      <3>1. files' = files /\ writing[t] = "emptied"
        BY <1>1, <1>2, <2>3 DEF Writing
      <3>2. p \in Kept
        BY <3>1 DEF DocInductive, FilesInPlace
      <3> HIDE DEF p
      <3> QED
        BY <2>1, <3>1, <3>2, KeptWhenSame DEF Kept, p
    <2> QED
      BY <2>2, <2>3
  <1>4. DocTypes'
    BY <1>1, <1>2 DEF DocInductive, DocTypes, Writing, vars
  <1>5. FilesInPlace'
    <2> SUFFICES ASSUME NEW u \in Thread
                 PROVE  /\ writing'[u] # "no" => req[u].step = "filed"
                        /\ writing'[u] = "emptied" => PathOf(u)' \in Kept'
                        /\ Carries(req[u]) /\ writing'[u] = "no" => PathOf(u)' \in Kept'
      BY <1>1 DEF FilesInPlace, vars
    <2>1. CASE u = t
      BY <1>1, <1>2, <1>3, <2>1
    <2>2. CASE u # t
      <3>1. writing'[u] = writing[u] /\ PathOf(u)' = PathOf(u)
        BY <1>1, <1>2, <2>2 DEF PathOf, vars
      <3>2. /\ writing[u] # "no" => req[u].step = "filed"
            /\ writing[u] = "emptied" => PathOf(u) \in Kept
            /\ Carries(req[u]) /\ writing[u] = "no" => PathOf(u) \in Kept
        BY DEF DocInductive, FilesInPlace
      <3>3. PathOf(u) \in Kept => PathOf(u)' \in Kept'
        BY <1>3, <3>1 DEF KeptStays, Kept
      <3> QED
        BY <3>1, <3>2, <3>3
    <2> QED
      BY <2>1, <2>2
  <1>6. UploadedFileKept'
    BY <1>1, <1>3, OldBlocksHaveFiles DEF vars, disk
  <1>7. ListedIsStored'
    BY <1>1, <1>3 DEF DocInductive, ListedIsStored, KeptStays
  <1>8. DocCountCovers' /\ CountNotMore'
    BY <1>1, ListsUnchanged, CountersFall, CountedType
  <1> QED
    BY <1>4, <1>5, <1>6, <1>7, <1>8 DEF DocInductive

\* What the failed call left is of no request any more.
LEMMA WriteFailsStep ==
  ASSUME DocInductive, Inductive, Inductive', NEW t \in Thread, WriteFails(t)
  PROVE  DocInductive'
  <1>1. /\ UploadFails(t) /\ req[t].step = "filed"
        /\ writing' = [writing EXCEPT ![t] = "no"]
        /\ form' = FormsOfServed
        /\ UNCHANGED <<blocks, categories, metaCategory, files, owing, recreated>>
    BY DEF WriteFails, UploadFails, disk
  <1>2. /\ form \in [Thread -> FormValue] /\ writing \in [Thread -> Writing]
        /\ \A u \in owing : u \in Thread /\ req[u].step = "next" /\ form[u] \in Category
    BY DEF DocInductive, DocTypes
  <1>3. /\ \A u \in Thread : u # t => req'[u] = req[u]
        /\ req'[t].step \in {"idle", "next"}
    <2>1. req \in [Thread -> Request] /\ Proceed(t)
      BY <1>1 DEF Inductive, ProcessTypes, Proceed, Work
    <2>2. CASE req[t].op = "bulk"
      BY <1>1, <2>1, <2>2 DEF UploadFails, Goto, Request
    <2>3. CASE req[t].op # "bulk"
      BY <1>1, <2>1, <2>3, RespondRequest DEF UploadFails
    <2> QED
      BY <2>1, <2>2, <2>3, OthersStay
  <1>4. /\ form' \in [Thread -> FormValue] /\ writing' \in [Thread -> Writing]
        /\ \A u \in Thread : form'[u] = IF req'[u].step = "idle" THEN NoCategory ELSE form[u]
    BY <1>1, <1>2 DEF FormsOfServed, FormValue, Writing
  <1>5. t \notin owing
    BY <1>1, <1>2
  <1>6. DocTypes'
    BY <1>1, <1>2, <1>3, <1>4, <1>5, ListsUnchanged DEF DocTypes
  <1>7. FilesInPlace'
    <2> SUFFICES ASSUME NEW u \in Thread
                 PROVE  /\ writing'[u] # "no" => req'[u].step = "filed"
                        /\ writing'[u] = "emptied" => PathOf(u)' \in Kept'
                        /\ Carries(req'[u]) /\ writing'[u] = "no" => PathOf(u)' \in Kept'
      BY DEF FilesInPlace, Kept
    <2>1. CASE u = t
      BY <1>1, <1>2, <1>3, <2>1 DEF Carries
    <2>2. CASE u # t
      <3>1. Kept' = Kept
        BY <1>1 DEF Kept
      <3>2. CASE req[u].step = "idle"
        BY <1>1, <1>2, <1>3, <2>2, <3>2 DEF DocInductive, FilesInPlace, Carries
      <3>3. CASE req[u].step # "idle"
        BY <1>1, <1>2, <1>3, <1>4, <2>2, <3>1, <3>3 DEF DocInductive, FilesInPlace, PathOf
      <3> QED
        BY <3>2, <3>3
    <2> QED
      BY <2>1, <2>2
  <1>8. UploadedFileKept' /\ ListedIsStored'
    <2>1. UploadedFileKept'
      BY <1>1, KeptWhenSame, OldBlocksHaveFiles
    <2>2. ListedIsStored'
      BY <1>1 DEF DocInductive, ListedIsStored, Kept
    <2> QED
      BY <2>1, <2>2
  <1>9. CountNotMore'
    <2>1. Made' = Made /\ [Next]_vars
      BY <1>1 DEF Made, Proceed, Work, Next
    <2>2. OneMoves(t) /\ owing' \subseteq Thread
      BY <1>1, <1>2, <1>3, <1>4 DEF OneMoves, DocInductive, DocTypes
    <2>3. \A c \in Category : Counted(c)' = Counted(c) /\ Counted(c) \in Nat
      BY <1>1, ListsUnchanged, CountedType
    <2> QED
      BY <1>1, <1>3, <1>5, <2>1, <2>2, <2>3, BudgetKept, MadeFinite
  <1> QED
    BY <1>1, <1>6, <1>7, <1>8, <1>9, ListsUnchanged DEF DocInductive

\* A request that answers loses its form; the forms of the others stay.
LEMMA OtherStepStep ==
  ASSUME DocInductive, Inductive, Inductive', NEW t \in Thread, OtherStep(t)
  PROVE  DocInductive'
  <1>1. /\ t \notin owing /\ writing[t] = "no" /\ form' = FormsOfServed
        /\ UNCHANGED <<categories, metaCategory, files, writing, owing, recreated>>
        /\ Arrive(t) \/ Proceed(t)
    BY DEF OtherStep
  <1>2. /\ form \in [Thread -> FormValue]
        /\ \A u \in owing : u \in Thread /\ req[u].step = "next" /\ form[u] \in Category
    BY DEF DocInductive, DocTypes
  <1>3. \A u \in Thread : u # t => req'[u] = req[u]
    BY <1>1, OthersStay
  <1>4. [Next]_vars
    BY DocStepIsStep DEF DocNext
  <1>5. /\ form' \in [Thread -> FormValue]
        /\ \A u \in Thread : form'[u] = IF req'[u].step = "idle" THEN NoCategory ELSE form[u]
    BY <1>1, <1>2 DEF FormsOfServed, FormValue
  <1>6. ASSUME NEW u \in owing PROVE u \in Thread /\ req'[u].step = "next" /\ form'[u] = form[u]
    BY <1>1, <1>2, <1>3, <1>5
  <1>7. DocTypes'
    <2>1. writing' \in [Thread -> Writing]
      BY <1>1 DEF DocInductive, DocTypes
    <2> QED
      BY <1>1, <1>2, <1>5, <1>6, <2>1, ListsUnchanged DEF DocTypes
  <1>8. Kept' = Kept
    BY <1>1 DEF Kept
  <1>9. FilesInPlace'
    <2> SUFFICES ASSUME NEW u \in Thread
                 PROVE  /\ writing[u] # "no" => req'[u].step = "filed"
                        /\ writing[u] = "emptied" => PathOf(u)' \in Kept'
                        /\ Carries(req'[u]) /\ writing[u] = "no" => PathOf(u)' \in Kept'
      BY <1>1 DEF FilesInPlace, Kept
    <2>1. CASE u = t
      <3>1. ASSUME Carries(req'[t]) PROVE PathOf(t)' \in Kept'
        <4>1. /\ Carries(req[t]) /\ req'[t].block.doc = req[t].block.doc
              /\ form'[t] = form[t]
          BY <1>5, <3>1, FileCarriedOn
        <4> QED
          BY <1>1, <1>8, <4>1 DEF DocInductive, FilesInPlace, PathOf
      <3> QED
        BY <1>1, <2>1, <3>1
    <2>2. CASE u # t
      <3>1. CASE req[u].step = "idle"
        BY <1>3, <2>2, <3>1 DEF DocInductive, FilesInPlace, Carries
      <3>2. CASE req[u].step # "idle"
        BY <1>3, <1>5, <1>8, <2>2, <3>2 DEF DocInductive, FilesInPlace, Carries, PathOf
      <3> QED
        BY <3>1, <3>2
    <2> QED
      BY <2>1, <2>2
  <1>10. UploadedFileKept' /\ ListedIsStored'
    <2>1. UploadedFileKept'
      <3>1. CASE StoreBlock(t)
        BY <1>1, <3>1, NewBlockHasFile
      <3>2. CASE ~StoreBlock(t)
        <4>1. StoreSignature(t) \/ UNCHANGED blocks
          BY <1>1, <3>2 DEF Arrive, ReceiveFile, BuildSignedBlock, BeginSign, Proceed, Work,
             Send, UploadFails, BuildBlock, StoreBlockFails, AnnounceBlock, SaveMetadata,
             SaveMetadataFails, BulkDone, LockAndSign, LockAndReject, StoreSignatureFails,
             AnswerSignature, disk
        <4> QED
          BY <1>1, <4>1, KeptWhenSame, OldBlocksHaveFiles
      <3> QED
        BY <3>1, <3>2
    <2>2. ListedIsStored'
      BY <1>1, <1>8 DEF DocInductive, ListedIsStored
    <2> QED
      BY <2>1, <2>2
  <1>11. CountNotMore'
    <2>1. OneMoves(t) /\ owing' \subseteq Thread
      BY <1>1, <1>2, <1>3, <1>5 DEF OneMoves, DocInductive, DocTypes
    <2>2. \A c \in Category : Counted(c)' = Counted(c) /\ Counted(c) \in Nat
      BY <1>1, ListsUnchanged, CountedType
    <2>3. /\ Cardinality(Made) \in Nat /\ Cardinality(Made') \in Nat
          /\ Cardinality(Made) <= Cardinality(Made')
      <3>1. Made' \in SUBSET Hash
        BY DEF Made, Inductive, DiskTypes, IsBucket
      <3> QED
        BY <1>4, <3>1, MadeFinite, MadeGrows, HashesFinite
    <2>4. /\ t \notin owing'
          /\ \A c : t \notin Owing(c)
      BY <1>1 DEF Owing
    <2>5. CASE req'[t].step \in {"stored", "announced"}
      <3>1. form'[t] = form[t]
        BY <1>5, <2>5
      <3>2. \/ \A c \in Category : t \in Uploading(c) <=> form'[t] = c
            \/ Cardinality(Made') = Cardinality(Made) + 1
        <4>1. req[t].step \in {"stored", "announced"} \/ StoreBlock(t)
          BY <2>5, FileCarriedOn
        <4> QED
          BY <3>1, <4>1, MadeOneMore DEF Uploading
      <3>3. \A c \in Category :
              2 * (IF form'[t] = c THEN 1 ELSE 0) + 2 * Cardinality(Made)
                <= 2 * (IF t \in Uploading(c) THEN 1 ELSE 0) + 2 * Cardinality(Made')
        BY <2>3, <3>2
      <3> QED
        BY <1>4, <2>1, <2>2, <2>3, <2>4, <2>5, <3>3, BudgetKept
    <2>6. CASE req'[t].step \notin {"stored", "announced"}
      BY <1>4, <2>1, <2>2, <2>3, <2>4, <2>6, BudgetKept
    <2> QED
      BY <2>5, <2>6
  <1> QED
    BY <1>1, <1>7, <1>9, <1>10, <1>11, ListsUnchanged DEF DocInductive

LEMMA CreateCategoryStep ==
  ASSUME DocInductive, Inductive, NEW c \in Category, CreateCategory(c)
  PROVE  DocInductive'
  <1>1. /\ categories' = Put(categories, c, 0)
        /\ recreated' = IF InCategory(c) = {} THEN recreated \ {c} ELSE recreated \cup {c}
        /\ UNCHANGED <<vars, metaCategory, files, writing, form, owing>>
    BY DEF CreateCategory
  <1>2. /\ IsBucket(categories', Category, Nat)
        /\ DOMAIN categories' = DOMAIN categories \cup {c}
        /\ \A x \in DOMAIN categories' :
             categories'[x] = IF x = c THEN 0 ELSE categories[x]
        /\ \A x : Counted(x)' \in Nat /\ Counted(x)' <= Counted(x)
    BY <1>1, CountedType DEF DocInductive, DocTypes, IsBucket, Put, Counted
  <1>3. DocTypes'
    BY <1>1, <1>2 DEF DocInductive, DocTypes, vars
  <1>4. FilesInPlace' /\ UploadedFileKept' /\ ListedIsStored'
    BY <1>1, FilesUnchanged
  <1>5. DocCountCovers'
    <2> SUFFICES ASSUME NEW x \in DOMAIN categories', x \notin recreated'
                 PROVE  categories'[x] >= Cardinality(InCategory(x))
      BY <1>1 DEF DocCountCovers, InCategory
    <2>1. CASE x = c
      BY <1>1, <1>2, <2>1, FS_EmptySet
    <2>2. CASE x # c
      BY <1>1, <1>2, <2>2 DEF DocInductive, DocCountCovers
    <2> QED
      BY <2>1, <2>2
  <1>6. CountNotMore'
    BY <1>1, <1>2, CountersFall
  <1> QED
    BY <1>3, <1>4, <1>5, <1>6 DEF DocInductive

LEMMA DeleteCategoryStep ==
  ASSUME DocInductive, Inductive, NEW c \in Category, DeleteCategory(c)
  PROVE  DocInductive'
  <1>1. /\ categories' = Delete(categories, c)
        /\ UNCHANGED <<vars, metaCategory, files, writing, form, owing, recreated>>
    BY DEF DeleteCategory
  <1>2. /\ IsBucket(categories', Category, Nat)
        /\ \A x \in DOMAIN categories' : x \in DOMAIN categories /\ categories'[x] = categories[x]
        /\ \A x : Counted(x)' \in Nat /\ Counted(x)' <= Counted(x)
    BY <1>1, CountedType DEF DocInductive, DocTypes, IsBucket, Delete, Counted
  <1>3. DocTypes'
    BY <1>1, <1>2 DEF DocInductive, DocTypes, vars
  <1>4. FilesInPlace' /\ UploadedFileKept' /\ ListedIsStored'
    BY <1>1, FilesUnchanged
  <1>5. DocCountCovers'
    BY <1>1, <1>2 DEF DocInductive, DocCountCovers, InCategory
  <1>6. CountNotMore'
    BY <1>1, <1>2, CountersFall
  <1> QED
    BY <1>3, <1>4, <1>5, <1>6 DEF DocInductive

LEMMA ProcessStep ==
  ASSUME DocInductive, Inductive, Inductive', Process
  PROVE  DocInductive'
  <1>1. /\ Start \/ Crash
        /\ form' = FormsOfServed
        /\ owing' = IF up' THEN owing ELSE {}
        /\ writing' = IF up' THEN writing ELSE [t \in Thread |-> "no"]
        /\ UNCHANGED <<categories, metaCategory, files, recreated>>
    BY DEF Process
  <1>2. /\ form \in [Thread -> FormValue]
        /\ \A u \in owing : u \in Thread /\ req[u].step = "next" /\ form[u] \in Category
        /\ \A u \in Thread : req[u].step = "idle" => form[u] = NoCategory
    BY DEF DocInductive, DocTypes
  <1>3. \/ req' = req /\ form' = form /\ owing' = owing /\ writing' = writing
        \/ /\ \A u \in Thread : req'[u].step = "idle" /\ writing'[u] = "no"
           /\ owing' = {}
    <2>1. CASE Start
      BY <1>1, <1>2, <2>1 DEF Start, FormsOfServed
    <2>2. CASE Crash
      BY <1>1, <2>2, NoRequestType DEF Crash
    <2> QED
      BY <1>1, <2>1, <2>2
  <1>4. /\ form' \in [Thread -> FormValue]
        /\ \A u \in Thread : req'[u].step = "idle" => form'[u] = NoCategory
    BY <1>1, <1>2 DEF FormsOfServed, FormValue
  <1>5. DocTypes'
    <2>1. writing' \in [Thread -> Writing]
      BY <1>1 DEF DocInductive, DocTypes, Writing
    <2> QED
      BY <1>1, <1>2, <1>3, <1>4, <2>1, ListsUnchanged DEF DocTypes
  <1>6. Kept' = Kept
    BY <1>1 DEF Kept
  <1>7. FilesInPlace' /\ UploadedFileKept' /\ ListedIsStored'
    <2>1. FilesInPlace'
      <3>1. CASE req' = req /\ form' = form /\ owing' = owing /\ writing' = writing
        BY <1>6, <3>1 DEF DocInductive, FilesInPlace, Carries, PathOf, Path
      <3>2. CASE \A u \in Thread : req'[u].step = "idle" /\ writing'[u] = "no"
        BY <3>2 DEF FilesInPlace, Carries
      <3> QED
        BY <1>3, <3>1, <3>2
    <2>2. Start \/ UNCHANGED blocks
      BY <1>1 DEF Crash, disk
    <2>3. UploadedFileKept'
      BY <1>1, <2>2, KeptWhenSame, OldBlocksHaveFiles
    <2>4. ListedIsStored'
      BY <1>1, <1>6 DEF DocInductive, ListedIsStored
    <2> QED
      BY <2>1, <2>3, <2>4
  <1>8. CountNotMore'
    <2> SUFFICES ASSUME NEW x \in Category
                 PROVE  /\ IsFiniteSet(Owing(x)') /\ IsFiniteSet(Uploading(x)')
                        /\ Counted(x)' + Cardinality(Owing(x)')
                             + 2 * Cardinality(Uploading(x)') <= 2 * Cardinality(Made')
      BY DEF CountNotMore
    <2>1. /\ IsFiniteSet(Owing(x)) /\ IsFiniteSet(Uploading(x))
          /\ Counted(x) + Cardinality(Owing(x)) + 2 * Cardinality(Uploading(x))
               <= 2 * Cardinality(Made)
      BY DEF DocInductive, CountNotMore
    <2>2. Counted(x)' = Counted(x) /\ Counted(x) \in Nat
      BY <1>1, ListsUnchanged, CountedType
    <2>3. /\ Cardinality(Made) \in Nat /\ Cardinality(Made') \in Nat
          /\ Cardinality(Made) <= Cardinality(Made')
      <3>1. Made' \in SUBSET Hash
        BY DEF Made, Inductive, DiskTypes, IsBucket
      <3>2. [Next]_vars
        BY <1>1 DEF Next
      <3> QED
        BY <3>1, <3>2, MadeFinite, MadeGrows, HashesFinite
    <2>4. /\ Cardinality(Owing(x)) \in Nat /\ Cardinality(Uploading(x)) \in Nat
      BY <2>1, FS_CardinalityType
    <2>5. CASE req' = req /\ form' = form /\ owing' = owing /\ writing' = writing
      <3>1. Owing(x)' = Owing(x) /\ Uploading(x)' = Uploading(x)
        BY <2>5 DEF Owing, Uploading
      <3> QED
        BY <2>1, <2>2, <2>3, <2>4, <3>1
    <2>6. CASE (\A u \in Thread : req'[u].step = "idle") /\ owing' = {}
      <3>1. Owing(x)' = {} /\ Uploading(x)' = {}
        BY <2>6 DEF Owing, Uploading
      <3> QED
        BY <2>1, <2>2, <2>3, <2>4, <3>1, FS_EmptySet
    <2> QED
      BY <1>3, <2>5, <2>6
  <1> QED
    BY <1>1, <1>5, <1>7, <1>8, ListsUnchanged DEF DocInductive

LEMMA DocNextInductive ==
  DocInductive /\ Inductive /\ Inductive' /\ [DocNext]_allVars => DocInductive'
  <1> SUFFICES ASSUME DocInductive, Inductive, Inductive', [DocNext]_allVars
               PROVE  DocInductive'
    OBVIOUS
  <1>1. CASE Process
    BY <1>1, ProcessStep
  <1>2. ASSUME NEW c \in Category, CreateCategory(c) \/ DeleteCategory(c)
        PROVE  DocInductive'
    BY <1>2, CreateCategoryStep, DeleteCategoryStep
  <1>3. ASSUME NEW t \in Thread, NEW op \in {"upload", "bulk"}, NEW d \in Doc,
               NEW c \in FormValue, WriteFileIn(t, op, d, c)
        PROVE  DocInductive'
    BY <1>3, WriteFileInStep
  <1>4. ASSUME NEW t \in Thread, SaveMetadataIn(t) \/ SaveMetadataInFails(t)
        PROVE  DocInductive'
    BY <1>4, SaveMetadataInStep
  <1>5. ASSUME NEW t \in Thread, IncrementCategoryDocCount(t) \/ IncrementFails(t)
        PROVE  DocInductive'
    BY <1>5, IncrementStep
  <1>6. ASSUME NEW t \in Thread, FinishFile(t) \/ WriteFails(t)
        PROVE  DocInductive'
    BY <1>6, FinishFileStep, WriteFailsStep
  <1>7. ASSUME NEW t \in Thread, OtherStep(t)
        PROVE  DocInductive'
    BY <1>7, OtherStepStep
  <1>8. CASE UNCHANGED allVars
    <2>1. UNCHANGED <<vars, categories, metaCategory, files, writing, form, owing, recreated>>
      BY <1>8 DEF allVars, catVars
    <2>2. DocTypes'
      BY <2>1 DEF vars, DocInductive, DocTypes
    <2>3. DocCountCovers' /\ CountNotMore'
      BY <2>1, ListsUnchanged, CountersFall, CountedType
    <2> QED
      BY <2>1, <2>2, <2>3, FilesUnchanged DEF DocInductive
  <1> QED
    BY <1>1, <1>2, <1>3, <1>4, <1>5, <1>6, <1>7, <1>8 DEF DocNext

------------------------------------------------------------------------------
(* The theorems *)

THEOREM DocInductiveAlways == DocSpec => []DocInductive
  <1>1. DocSpec => []Inductive
    BY DocumentsAreChain, InductiveAlways, PTL
  <1> QED
    BY <1>1, DocInitInductive, DocNextInductive, PTL DEF DocSpec

\* A block of an upload has its PDF, whichever call of whose writing failed or was cut
\* off by the end of the process, unless another upload of the document emptied it.
THEOREM FilesKept == DocSpec => []UploadedFileKept
  <1>1. DocInductive => UploadedFileKept
    BY DEF DocInductive
  <1> QED
    BY <1>1, DocInductiveAlways, PTL

\* What a category lists lies in its directory, however often and wherever the
\* document is uploaded, and whichever write or transaction fails or is cut off, again
\* but for what another upload of it emptied.
THEOREM ListedStored == DocSpec => []ListedIsStored
  <1>1. DocInductive => ListedIsStored
    BY DEF DocInductive
  <1> QED
    BY <1>1, DocInductiveAlways, PTL

\* The number of documents of a category, which the code counts twice for a bulk upload
\* and once more with every upload of the same document: no less than the documents it
\* lists, no more than two for every block.
THEOREM DocCountsBounded == DocSpec => [](DocCountCovers /\ DocCountAtMostTwice)
  <1>1. DocInductive /\ Inductive => DocCountCovers /\ DocCountAtMostTwice
    <2> SUFFICES ASSUME DocInductive, Inductive, NEW c \in DOMAIN categories
                 PROVE  categories[c] + Cardinality(Owing(c)) <= 2 * Cardinality(Made)
      BY DEF DocInductive, DocCountAtMostTwice, Owing
    <2>1. /\ c \in Category /\ Counted(c) = categories[c] /\ categories[c] \in Nat
      BY DEF DocInductive, DocTypes, IsBucket, Counted
    <2>2. /\ Cardinality(Owing(c)) \in Nat /\ Cardinality(Uploading(c)) \in Nat
          /\ Counted(c) + Cardinality(Owing(c)) + 2 * Cardinality(Uploading(c))
               <= 2 * Cardinality(Made)
      BY <2>1, FS_CardinalityType DEF DocInductive, CountNotMore
    <2> QED
      BY <2>1, <2>2, MadeFinite
  <1>2. DocSpec => []Inductive
    BY DocumentsAreChain, InductiveAlways, PTL
  <1> QED
    BY <1>1, <1>2, DocInductiveAlways, PTL
==============================================================================
