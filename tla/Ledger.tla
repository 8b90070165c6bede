------------------------------- MODULE Ledger -------------------------------
(***************************************************************************)
(* What the block store of ChainDocs promises, without its indexes, its    *)
(* handlers and their interleavings: a tree of blocks that only grows, in  *)
(* which one block, the tip, ends the chain in force.  A new block hangs   *)
(* either on the tip, and then it is the new tip, or on an older block,    *)
(* and then the tip stays where it is.  So the chain from the tip back to  *)
(* the genesis block is append-only.  A key endorses a block at most once  *)
(* and never withdraws.                                                    *)
(***************************************************************************)
CONSTANTS Hash, Doc, Key, None

VARIABLES
  ledger,    \* hash -> its parent and document, for the blocks in the ledger
  endorsed,  \* hash -> the keys that signed the block
  tip        \* the last block of the chain, None before there is one

vars == <<ledger, endorsed, tip>>

Init ==
  /\ ledger = [h \in {} |-> None]
  /\ endorsed = [h \in {} |-> {}]
  /\ tip = None

\* Block x enters the ledger under p, signed by the keys ks.
Enter(x, p, d, ks) ==
  /\ x \notin DOMAIN ledger
  /\ ledger' = [h \in DOMAIN ledger \cup {x} |->
                  IF h = x THEN [parent |-> p, doc |-> d] ELSE ledger[h]]
  /\ endorsed' = [h \in DOMAIN ledger \cup {x} |->
                  IF h = x THEN ks ELSE endorsed[h]]

Found(x, d) ==
  /\ tip = None
  /\ DOMAIN ledger = {}
  /\ Enter(x, None, d, {})
  /\ tip' = x

Extend(x, d, ks) ==
  /\ tip # None
  /\ Enter(x, tip, d, ks)
  /\ tip' = x

Branch(x, p, d, ks) ==
  /\ p \in DOMAIN ledger \ {tip}
  /\ Enter(x, p, d, ks)
  /\ UNCHANGED tip

Endorse(x, k) ==
  /\ x \in DOMAIN ledger
  /\ k \notin endorsed[x]
  /\ endorsed' = [endorsed EXCEPT ![x] = @ \cup {k}]
  /\ UNCHANGED <<ledger, tip>>

\* At most one key signs a block as it is made.
Makers == {{}} \cup {{k} : k \in Key}

Next ==
  \/ \E x \in Hash, d \in Doc : Found(x, d)
  \/ \E x \in Hash, d \in Doc, ks \in Makers :
       Extend(x, d, ks) \/ \E p \in DOMAIN ledger : Branch(x, p, d, ks)
  \/ \E x \in DOMAIN ledger, k \in Key : Endorse(x, k)

Spec == Init /\ [][Next]_vars
=============================================================================
