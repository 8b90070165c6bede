-------------------------------- MODULE Block --------------------------------
(***************************************************************************)
(* The block of internal/block/block.go.                                   *)
(*                                                                         *)
(* The SHA-256 hash of a block covers its height, its parent, its document *)
(* and the nanosecond it was made at.  The models take that timestamp,     *)
(* which no two calls of NewBlock share, for the hash; 0 is the all-zero   *)
(* hash [32]byte{}.  The hash does not cover the signatures.               *)
(***************************************************************************)
EXTENDS Naturals, Sequences, FiniteSets

ZeroHash == 0

Core(b) == [hash |-> b.hash, height |-> b.height, prev |-> b.prev, doc |-> b.doc]

NewBlock(hash, height, prev, doc) ==
  [hash |-> hash, height |-> height, prev |-> prev, doc |-> doc, sigs |-> <<>>]

\* A signature entry: whose it claims to be, and whether it verifies against
\* the hash of the block that holds it.
Signature(key, valid) == [key |-> key, valid |-> valid]

AddSignature(b, key, valid) == [b EXCEPT !.sigs = Append(@, Signature(key, valid))]

\* Faulty: an entry that does not verify is overlooked.
HasValidSignature(b, key) ==
  \E i \in DOMAIN b.sigs : b.sigs[i].key = key /\ b.sigs[i].valid

\* Looks at the keys of the entries alone, not at their validity.
HasSignature(b, key) == \E i \in DOMAIN b.sigs : b.sigs[i].key = key

Signers(b) == {b.sigs[i].key : i \in DOMAIN b.sigs}

\* The entries that verify, counted one by one: GetConsensusProgress and
\* ConsensusReached count entries, not distinct keys.
ValidSignatures(b) == Cardinality({i \in DOMAIN b.sigs : b.sigs[i].valid})
==============================================================================
