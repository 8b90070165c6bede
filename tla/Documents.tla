------------------------------ MODULE Documents ------------------------------
(***************************************************************************)
(* Documents and their categories: ChainServer together with the bucket    *)
(* "categories", the category of the metadata, and the files on disk in    *)
(* the directories of the categories.  Uploads take part in both: each of  *)
(* their steps is one of ChainServer, with what it does to the state here. *)
(* Two steps are of this module alone: the end of writing a file, and the  *)
(* second count of a document in its category, a transaction of its own.   *)
(*                                                                         *)
(* A file is named by its content, and os.WriteFile empties a file that is *)
(* there before it writes, in several calls, any of which may fail; the    *)
(* process may die in between, and two requests may write one file at a    *)
(* time, each from its own offset.                                         *)
(***************************************************************************)
EXTENDS ChainServer

CONSTANTS
  Category,   \* ids of categories
  NoCategory  \* the empty form value

ASSUME CategoryAssumption == NoCategory \notin Category

VARIABLES
  categories,  \* bucket "categories": category -> its DocCount
  metaCategory,\* the category in "documents_meta": document -> category
  files,       \* path -> how much of its content the file has
  writing,     \* whether the file that each thread is writing was emptied meanwhile
  form,        \* the form value "category" of the request of each thread
  owing,       \* the threads that have yet to call IncrementCategoryDocCount
  recreated    \* history: categories created when they had documents already

catVars == <<categories, metaCategory, files, writing, form, owing, recreated>>
allVars == <<vars, catVars>>

FormValue == Category \cup {NoCategory}

\* "torn": it was never complete; "whole"; "lost": it was complete, or another
\* request was about to make it so, when an upload of the document emptied it.
Content == {"torn", "whole", "lost"}
Writing == {"no", "alone", "emptied"}

\* The directory of a path, NoCategory for the upload directory itself, and its
\* name.
AnyPath == FormValue \X Doc

\* The documents that GET /api/categories/{id}/documents lists.
InCategory(c) == {d \in DOMAIN metaCategory : metaCategory[d] = c}

\* The form of a request is gone when its handler returns.
FormsOfServed == [t \in Thread |-> IF req'[t].step = "idle" THEN NoCategory ELSE form[t]]

------------------------------------------------------------------------------
(* storage.go *)

\* Faulty variants, which the mutant runs put in place of the definition that
\* follows them, here and below: a category that is gone is made again.
CountAnyway(c) ==
  IF c = NoCategory THEN categories
    ELSE Put(categories, c, IF c \in DOMAIN categories THEN categories[c] + 1 ELSE 1)

Count(c) ==
  IF c \in DOMAIN categories THEN Put(categories, c, categories[c] + 1) ELSE categories

\* The id is overwritten when there is one, with a counter of zero.
CreateCategory(c) ==
  /\ up
  /\ categories' = Put(categories, c, 0)
  /\ recreated' = IF InCategory(c) = {} THEN recreated \ {c} ELSE recreated \cup {c}
  /\ UNCHANGED <<vars, metaCategory, files, writing, form, owing>>

\* Its documents stay.
DeleteCategory(c) ==
  /\ up
  /\ categories' = Delete(categories, c)
  /\ UNCHANGED <<vars, metaCategory, files, writing, form, owing, recreated>>

------------------------------------------------------------------------------
(* handleUpload and handleBulkUpload *)

\* Faulty: the file goes to the upload directory itself.
PathAtTop(c, d) == <<NoCategory, d>>

Path(c, d) == <<c, d>>

\* The path that t writes to, for as long as it does.
PathOf(t) == Path(form[t], req[t].block.doc)
Writers(p) == {t \in Thread : writing[t] # "no" /\ PathOf(t) = p}

\* The form is read once, and names the directory of every file of the request.
\* The file is opened and emptied; that opening it may fail, which changes nothing,
\* is left out.
WriteFileIn(t, op, d, c) ==
  /\ ReceiveFile(t, op, d)
  /\ t \notin owing
  /\ req[t].step = "next" => c = form[t]
  /\ form' = [form EXCEPT ![t] = c]
  /\ LET p == Path(c, d)
         complete == p \in DOMAIN files /\ files[p] # "torn"
     IN /\ files' = Put(files, p, IF complete \/ Writers(p) # {} THEN "lost" ELSE "torn")
        /\ writing' = [u \in Thread |-> IF u = t THEN "alone"
                                         ELSE IF u \in Writers(p) THEN "emptied" ELSE writing[u]]
  /\ UNCHANGED <<categories, metaCategory, owing, recreated>>

\* All is written.  If the file was emptied meanwhile, it has a hole where the first
\* part was, unless the request that emptied it has filled it.
FinishFile(t) ==
  /\ writing[t] # "no"
  /\ files' = IF writing[t] = "alone" THEN Put(files, PathOf(t), "whole") ELSE files
  /\ writing' = [writing EXCEPT ![t] = "no"]
  /\ UNCHANGED <<vars, categories, metaCategory, form, owing, recreated>>

\* Faulty: the error of os.WriteFile is ignored.
WriteFailsUnseen(t) ==
  /\ writing[t] # "no"
  /\ writing' = [writing EXCEPT ![t] = "no"]
  /\ UNCHANGED <<vars, categories, metaCategory, files, form, owing, recreated>>

\* A call in the middle fails, and what was written stays.
WriteFails(t) ==
  /\ writing[t] # "no"
  /\ UploadFails(t)
  /\ writing' = [writing EXCEPT ![t] = "no"]
  /\ form' = FormsOfServed
  /\ UNCHANGED <<categories, metaCategory, files, owing, recreated>>

\* One transaction puts the metadata, with the category in it, and counts the
\* document, whether or not it was listed before.
SaveMetadataIn(t) ==
  /\ SaveMetadata(t)
  /\ metaCategory' = Put(metaCategory, req[t].block.doc, form[t])
  /\ categories' = Count(form[t])
  /\ owing' = IF form[t] = NoCategory THEN owing ELSE owing \cup {t}
  /\ UNCHANGED <<files, writing, form, recreated>>

\* Its error is ignored, and the document is counted all the same.
SaveMetadataInFails(t) ==
  /\ SaveMetadataFails(t)
  /\ owing' = IF form[t] = NoCategory THEN owing ELSE owing \cup {t}
  /\ UNCHANGED <<categories, metaCategory, files, writing, form, recreated>>

IncrementCategoryDocCount(t) ==
  /\ t \in owing
  /\ categories' = Count(form[t])
  /\ owing' = owing \ {t}
  /\ UNCHANGED <<vars, metaCategory, files, writing, form, recreated>>

IncrementFails(t) ==
  /\ t \in owing
  /\ owing' = owing \ {t}
  /\ UNCHANGED <<vars, categories, metaCategory, files, writing, form, recreated>>

\* The other steps of the handlers, which know nothing of categories.
OtherStep(t) ==
  /\ t \notin owing /\ writing[t] = "no"
  /\ \/ Arrive(t) /\ req'[t].step # "filed"
     \/ Proceed(t) /\ req[t].step # "announced"
  /\ form' = FormsOfServed
  /\ UNCHANGED <<categories, metaCategory, files, writing, owing, recreated>>

\* Requests die with the process; buckets and files stay.
Process ==
  /\ Start \/ Crash
  /\ form' = FormsOfServed
  /\ owing' = IF up' THEN owing ELSE {}
  /\ writing' = IF up' THEN writing ELSE [t \in Thread |-> "no"]
  /\ UNCHANGED <<categories, metaCategory, files, recreated>>

------------------------------------------------------------------------------
DocInit ==
  /\ Init
  /\ categories = EmptyBucket /\ metaCategory = EmptyBucket
  /\ files = EmptyBucket /\ writing = [t \in Thread |-> "no"]
  /\ form = [t \in Thread |-> NoCategory] /\ owing = {} /\ recreated = {}

DocNext ==
  \/ Process
  \/ \E c \in Category : CreateCategory(c) \/ DeleteCategory(c)
  \/ \E t \in Thread :
       \/ \E op \in {"upload", "bulk"}, d \in Doc, c \in FormValue : WriteFileIn(t, op, d, c)
       \/ FinishFile(t) \/ WriteFails(t)
       \/ SaveMetadataIn(t) \/ SaveMetadataInFails(t)
       \/ IncrementCategoryDocCount(t) \/ IncrementFails(t)
       \/ OtherStep(t)

DocSpec == DocInit /\ [][DocNext]_allVars

------------------------------------------------------------------------------
(* Properties *)

\* The paths at which a document is, unless an upload of the same document emptied
\* the file: a later one that failed in the middle, or has yet to end, or one at the
\* same time that failed, which may leave a block whose file never was complete.
Kept == {p \in DOMAIN files : files[p] # "torn"}

\* A block that came in by POST /api/blocks, which shows by its unverified signature.
WithoutFile(b) == b.sigs # <<>> /\ ~b.sigs[1].valid

\* The PDF of every block of an upload is in some directory, whatever fails or dies in
\* the middle of writing it: a crash leaves a file without a block, never a block
\* without its file.  Only another upload of the document takes it away.
UploadedFileKept ==
  \A h \in DOMAIN blocks :
    LET b == blocks[h] IN
    b.height > 0 /\ ~WithoutFile(b) => \E c \in FormValue : <<c, b.doc>> \in Kept

\* What a category lists is in the directory of the category, whatever category the
\* document was uploaded to before or since, and whichever step of a bulk upload
\* failed; GET /api/documents/{hash} looks into the upload directory alone.
ListedIsStored == \A d \in DOMAIN metaCategory : <<metaCategory[d], d>> \in Kept

\* DocCount is no less than the documents that the category lists, through failures
\* and crashes between the two counts, unless it was created over them.
DocCountCovers ==
  \A c \in DOMAIN categories \ recreated : categories[c] >= Cardinality(InCategory(c))

\* The blocks that were made of documents.
Made == {h \in DOMAIN blocks : blocks[h].height > 0}

\* Not the number of documents, as storage.go:57 has it: a bulk upload counts its
\* document twice, and no more than that.
DocCountAtMostTwice ==
  \A c \in DOMAIN categories :
    categories[c] + Cardinality({t \in owing : form[t] = c}) <= 2 * Cardinality(Made)
==============================================================================
