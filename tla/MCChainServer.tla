---------------------------- MODULE MCChainServer ----------------------------
(* Small instances of ChainServer for TLC. *)
EXTENDS ChainServer, TLC

\* Threads, keys and documents are interchangeable: safety runs only.
Symmetry == Permutations(Thread) \cup Permutations(Key) \cup Permutations(Doc)
==============================================================================
