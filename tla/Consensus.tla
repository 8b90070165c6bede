------------------------------ MODULE Consensus ------------------------------
(***************************************************************************)
(* When a block of ChainDocs is agreed: the activity of keys in            *)
(* internal/storage/storage.go, and the three places of                    *)
(* cmd/server/main.go that judge a block by it (handleSignature,           *)
(* handleGetPendingBlocks, handleGetConsensus).  The formulas are in       *)
(* module Thresholds.                                                      *)
(*                                                                         *)
(* The model follows one block.  Keys are registered and revoked around    *)
(* it, in one step each (KeyRegistry has the steps) and once each; keys    *)
(* sign other blocks; a key that does not sign for 24 hours is no longer   *)
(* active.  The signatures are a set of keys, beside the entry of the      *)
(* maker, as it is proved of ChainServer (SignaturesAreKeys) that counting *)
(* the entries of a block counts keys.  What is registered and what is     *)
(* active are texts of keys (module KeyText): a key may count twice in the *)
(* number that a majority is taken of, and signs once.                     *)
(***************************************************************************)
EXTENDS Thresholds, KeyText

CONSTANTS
  Maker,   \* who may have made the block by POST /api/blocks; Nobody: an upload
  Nobody   \* not a key

ASSUME ConstantsAssumption ==
  /\ IsFiniteSet(Key) /\ IsFiniteSet(Text)
  /\ Nobody \notin Key
  /\ Maker \subseteq Key \cup {Nobody}

VARIABLES
  pubKeys,   \* the registered texts
  fresh,     \* the texts not registered so far
  active,    \* the texts whose last_seen is within the window
  maker,     \* whose unverified signature is the first entry of the block
  signers,   \* the keys of the valid signatures of the block
  holder,    \* the handleSignature for this block that holds blockMu, if any
  announced  \* what the last BroadcastConsensus for the block said

vars == <<pubKeys, fresh, active, maker, signers, holder, announced>>

NoHolder == [step |-> "none", key |-> <<>>, total |-> 0]
Holder   == [step : {"none", "saved", "seen", "counted"}, key : Text \cup {<<>>},
             total : 0..Cardinality(Text)]

------------------------------------------------------------------------------
(* Three judgements *)

Signed == Cardinality(signers)

\* What handleSignature announces and handleGetPendingBlocks lists by.
Agreed == AgreedBy(Signed, TotalKeys(active, pubKeys))

\* What GET /api/blocks/{hash}/consensus reports.
ReportedReached  == ConsensusReached(Signed, TotalKeys(active, pubKeys))
ReportedRequired == AtLeastTwo(Required(TotalKeys(active, pubKeys)))

------------------------------------------------------------------------------
(* Keys come, go, and fall silent *)

Register(x) ==
  /\ x \in fresh
  /\ fresh' = fresh \ {x}
  /\ pubKeys' = pubKeys \cup {x}
  /\ UNCHANGED <<active, maker, signers, holder, announced>>

Revoke(x) ==
  /\ x \in pubKeys
  /\ pubKeys' = pubKeys \ {x}
  /\ UNCHANGED <<fresh, active, maker, signers, holder, announced>>

\* 24 hours pass after the last signature that came with x.
FallSilent(x) ==
  /\ x \in active
  /\ active' = active \ {x}
  /\ UNCHANGED <<pubKeys, fresh, maker, signers, holder, announced>>

------------------------------------------------------------------------------
(* handleSignature, from blockMu.Lock to the answer *)

\* Faulty: the handler takes no lock.
NoLock == TRUE

LockFree == holder.step = "none"

\* The unverified entry of the maker counts as one.
HasSignature(k) == k \in signers \/ k = maker

\* AddSignature and SaveBlock.  The key was looked up before the handler waited
\* for the lock, so it may have been revoked since.
SaveSignature(x) ==
  /\ LockFree
  /\ x \notin fresh
  /\ ~HasSignature(KeyOf(x))
  /\ signers' = signers \cup {KeyOf(x)}
  /\ holder' = [step |-> "saved", key |-> x, total |-> 0]
  /\ UNCHANGED <<pubKeys, fresh, active, maker, announced>>

UpdateKeyActivity ==
  /\ holder.step = "saved"
  /\ active' = active \cup {holder.key}
  /\ holder' = [holder EXCEPT !.step = "seen"]
  /\ UNCHANGED <<pubKeys, fresh, maker, signers, announced>>

\* Its error is ignored.
UpdateKeyActivityFails ==
  /\ holder.step = "saved"
  /\ holder' = [holder EXCEPT !.step = "seen"]
  /\ UNCHANGED <<pubKeys, fresh, active, maker, signers, announced>>

\* Faulty: the signer is counted on top, though it is active by now.
CountKeysAndSigner ==
  /\ holder.step = "seen"
  /\ holder' = [holder EXCEPT !.step = "counted", !.total = TotalKeys(active, pubKeys) + 1]
  /\ UNCHANGED <<pubKeys, fresh, active, maker, signers, announced>>

CountKeys ==
  /\ holder.step = "seen"
  /\ holder' = [holder EXCEPT !.step = "counted", !.total = TotalKeys(active, pubKeys)]
  /\ UNCHANGED <<pubKeys, fresh, active, maker, signers, announced>>

BroadcastConsensus ==
  /\ holder.step = "counted"
  /\ announced' = IF AgreedBy(Signed, holder.total) THEN "reached" ELSE "pending"
  /\ holder' = NoHolder
  /\ UNCHANGED <<pubKeys, fresh, active, maker, signers>>

\* The same handler for another block, of which only the activity counts here.
SignOther(x) ==
  /\ LockFree
  /\ x \notin fresh
  /\ active' = active \cup {x}
  /\ UNCHANGED <<pubKeys, fresh, maker, signers, holder, announced>>

\* The process dies and comes back with its database: blockMu is free.
Restart ==
  /\ holder' = NoHolder
  /\ UNCHANGED <<pubKeys, fresh, active, maker, signers, announced>>

\* The block has just been stored.  Its maker is registered, in one text; what other
\* keys did before is a step of the model, whenever it was.
Init ==
  /\ maker \in Maker
  /\ \/ maker = Nobody /\ pubKeys = {}
     \/ \E x \in TextsOf(maker) : pubKeys = {x}
  /\ fresh = Text \ pubKeys /\ active = {}
  /\ signers = {}
  /\ holder = NoHolder
  /\ announced = "nothing"

Proceed == UpdateKeyActivity \/ UpdateKeyActivityFails \/ CountKeys \/ BroadcastConsensus

Next ==
  \/ \E x \in Text : \/ Register(x) \/ Revoke(x) \/ FallSilent(x)
                     \/ SaveSignature(x) \/ SignOther(x)
  \/ Proceed
  \/ Restart

Spec == Init /\ [][Next]_vars

\* The 24 hours of a key that can sign no more pass, and the requests that had
\* passed the check before it was revoked come to an end.  Nothing is assumed of
\* the owners of registered keys: they may sign other blocks for ever.
Fairness ==
  /\ \A x \in Text : WF_vars(x \notin pubKeys /\ FallSilent(x))
  /\ <>[][\A x \in Text : SignOther(x) => x \in pubKeys]_vars

FairSpec == Spec /\ Fairness

------------------------------------------------------------------------------
(* Properties *)

\* Every variable holds a value of its kind.
TypeOK ==
  /\ pubKeys \subseteq Text /\ fresh \subseteq Text /\ active \subseteq Text
  /\ maker \in Maker
  /\ signers \subseteq Key
  /\ holder \in Holder
  /\ announced \in {"nothing", "pending", "reached"}

\* When consensus is announced, the signatures outnumber half of the keys that
\* are active then, not only of those that were when they were counted.
AnnouncedByMajority ==
  [][BroadcastConsensus /\ announced' = "reached" => 2 * Signed > Cardinality(active)]_vars

\* An agreed block is listed as pending again only when more keys count than
\* before, or none at all: no signature, and no key that is revoked or falls
\* silent while others are left, undoes an agreement.
AgreementKept ==
  [][Agreed /\ ~Agreed' =>
       \/ TotalKeys(active', pubKeys') > TotalKeys(active, pubKeys)
       \/ TotalKeys(active', pubKeys') = 0]_vars

\* A block is not held up by keys that are gone: when all the registered keys
\* that can sign it have done so, there are two or more of them, and they outnumber
\* half of what is registered, it is agreed in the end, whoever was active, revoked
\* or silent before.
Signable == KeysOf(pubKeys) \ {maker}
AllSigned ==
  /\ Cardinality(Signable) >= 2
  /\ 2 * Cardinality(Signable) > Cardinality(pubKeys)
  /\ Signable \subseteq signers
EventuallyAgreed == <>[]AllSigned => <>[]Agreed

------------------------------------------------------------------------------
(* What the code does not keep *)

\* "consensus_reached = signatures >= required" (docs/ARCHITECTURE.md:243), in
\* one answer of GET /api/blocks/{hash}/consensus.
ReportConsistent == ReportedReached => Signed >= ReportedRequired
==============================================================================
