------------------------------ MODULE Thresholds ------------------------------
(***************************************************************************)
(* How many signatures agree on a block: ConsensusReached of               *)
(* internal/block/block.go, the minimum of two that handleSignature and    *)
(* handleGetPendingBlocks of cmd/server/main.go add to it, and the number  *)
(* of keys that they take it of.                                           *)
(***************************************************************************)
EXTENDS Naturals, FiniteSets

\* Faulty variants, which the mutant runs put in place of the definition that
\* follows them, here and below: half is rounded up, and one more.
RequiredRoundedUp(n) == (n + 1) \div 2 + 1

Required(n) == n \div 2 + 1

AtLeastTwo(n) == IF n < 2 THEN 2 ELSE n

\* ConsensusReached of the block, with s valid signatures and n keys.
ConsensusReached(s, n) == n # 0 /\ s >= Required(n)

\* GetActiveKeys, which does not ask whether a key was revoked since; all
\* registered keys when none is active.  Both are texts (module KeyText), so a key
\* that is written in two ways counts twice.
TotalKeys(act, reg) == IF act = {} THEN Cardinality(reg) ELSE Cardinality(act)

\* Faulty: exactly as many signatures as are required.
AgreedByExactly(s, n) == n # 0 /\ s = AtLeastTwo(Required(n))

\* Both conditions on which a block is agreed.
AgreedBy(s, n) == ConsensusReached(s, n) /\ s >= AtLeastTwo(Required(n))
===============================================================================
