----------------------------- MODULE MCDocuments -----------------------------
(* Small instances of Documents for TLC. *)
EXTENDS Documents, TLC

\* Threads, keys and documents are interchangeable: safety runs only.
Symmetry == Permutations(Thread) \cup Permutations(Key) \cup Permutations(Doc)

\* The bound of the run, which is about documents: nobody signs, as a signature
\* leaves the document of its block, and all that is kept of it, as they are.
NobodySigns == \A t \in Thread : req[t].op # "sign"
==============================================================================
