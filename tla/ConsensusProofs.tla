--------------------------- MODULE ConsensusProofs ---------------------------
(***************************************************************************)
(* What Consensus keeps, proved for any finite number of keys and ways of  *)
(* writing one.                                                            *)
(***************************************************************************)
EXTENDS Consensus, FiniteSetTheorems, TLAPS

\* Only the holder of blockMu makes keys active, so from the moment it counts
\* them no more keys are active than it counted.
CountStands == holder.step = "counted" => Cardinality(active) <= holder.total

\* The holder has the text that it is about to make active.
HolderHasKey == holder.step = "saved" => holder.key \in Text

Inductive == TypeOK /\ HolderHasKey /\ CountStands

------------------------------------------------------------------------------
(* Counting *)

\* A part of a finite set is finite, and no larger.
LEMMA PartCounted ==
  ASSUME NEW A, IsFiniteSet(A), NEW B \in SUBSET A
  PROVE  /\ IsFiniteSet(B)
         /\ Cardinality(A) \in Nat
         /\ Cardinality(B) \in 0..Cardinality(A)
  <1>1. IsFiniteSet(B) /\ Cardinality(B) <= Cardinality(A)
    BY FS_Subset
  <1>2. Cardinality(B) \in Nat /\ Cardinality(A) \in Nat
    BY <1>1, FS_CardinalityType
  <1> QED
    BY <1>1, <1>2

LEMMA TextsCounted ==
  ASSUME NEW K \in SUBSET Text
  PROVE  /\ IsFiniteSet(K)
         /\ Cardinality(Text) \in Nat
         /\ Cardinality(K) \in 0..Cardinality(Text)
  BY PartCounted, ConstantsAssumption

LEMMA SignersCounted ==
  ASSUME TypeOK
  PROVE  IsFiniteSet(signers) /\ Signed \in Nat
  BY PartCounted, ConstantsAssumption DEF TypeOK, Signed

\* The number of keys is a count, and never less than the active ones.
LEMMA TotalCovers ==
  ASSUME NEW act \in SUBSET Text, NEW reg \in SUBSET Text
  PROVE  /\ TotalKeys(act, reg) \in 0..Cardinality(Text)
         /\ Cardinality(act) <= TotalKeys(act, reg)
  <1>1. CASE act = {}
    <2>1. Cardinality(act) = 0
      BY <1>1, FS_EmptySet
    <2> QED
      BY <1>1, <2>1, TextsCounted DEF TotalKeys
  <1>2. CASE act # {}
    BY <1>2, TextsCounted DEF TotalKeys
  <1> QED
    BY <1>1, <1>2

\* Agreement takes two signatures, and more than half of the keys counted.
LEMMA AgreedMeans ==
  ASSUME NEW s \in Nat, NEW n \in Nat, AgreedBy(s, n)
  PROVE  s >= 2 /\ 2 * s > n
  BY DEF AgreedBy, ConsensusReached, AtLeastTwo, Required

------------------------------------------------------------------------------
(* Thresholds *)

\* "ceil(total * 0.51)" of the documentation.
Documented(n) == (51 * n + 99) \div 100

\* The threshold of the code is the documented one for up to 50 keys, and for even
\* numbers up to 100; for all others it is less, though still more than half.
THEOREM ThresholdAsDocumented ==
  ASSUME NEW n \in Nat \ {0}
  PROVE  /\ Required(n) = Documented(n) <=> n <= 50 \/ (n <= 100 /\ n % 2 = 0)
         /\ Required(n) <= Documented(n)
         /\ 2 * Required(n) > n
  <1>1. n = 2 * (n \div 2) + (n % 2) /\ n % 2 \in {0, 1} /\ n \div 2 \in Nat
    OBVIOUS
  <1>2. PICK m \in Nat, r \in {0, 1} : n = 2 * m + r /\ n \div 2 = m /\ n % 2 = r
    BY <1>1
  <1>3. PICK q \in Nat : /\ q = Documented(n)
                         /\ 100 * q <= 51 * n + 99 /\ 51 * n + 99 < 100 * q + 100
    BY DEF Documented
  <1>4. Required(n) = m + 1
    BY <1>2 DEF Required
  <1> QED
    BY <1>2, <1>3, <1>4

------------------------------------------------------------------------------
(* The invariant *)

LEMMA InitInductive == Init => Inductive
  <1> SUFFICES ASSUME Init
               PROVE  Inductive
    OBVIOUS
  <1>1. Cardinality(Text) \in Nat
    BY TextsCounted
  <1>2. holder \in Holder /\ holder.step = "none"
    BY <1>1 DEF Init, NoHolder, Holder
  <1>3. pubKeys \subseteq Text
    BY DEF Init, TextsOf
  <1>4. TypeOK
    BY <1>2, <1>3 DEF Init, TypeOK
  <1> QED
    BY <1>2, <1>4 DEF Init, Inductive, HolderHasKey, CountStands

LEMMA NextInductive == Inductive /\ [Next]_vars => Inductive'
  <1> SUFFICES ASSUME Inductive, [Next]_vars
               PROVE  Inductive'
    OBVIOUS
  <1> USE DEF Inductive
  <1>0. Cardinality(Text) \in Nat
    BY TextsCounted
  <1>1. ASSUME NEW x \in Text, Register(x) \/ Revoke(x)
        PROVE  Inductive'
    BY <1>1 DEF Register, Revoke, TypeOK, HolderHasKey, CountStands
  <1>2. ASSUME NEW x \in Text, FallSilent(x)
        PROVE  Inductive'
    <2>1. TypeOK' /\ HolderHasKey'
      BY <1>2 DEF FallSilent, TypeOK, HolderHasKey
    <2>2. Cardinality(active') <= Cardinality(active)
      <3>1. active \in SUBSET Text /\ active' \in SUBSET active
        BY <1>2 DEF FallSilent, TypeOK
      <3> QED
        BY <3>1, TextsCounted, FS_Subset
    <2>3. Cardinality(active') \in Nat /\ Cardinality(active) \in Nat
      BY <2>1, TextsCounted DEF TypeOK
    <2>4. CountStands'
      BY <1>2, <2>2, <2>3 DEF FallSilent, TypeOK, CountStands, Holder
    <2> QED
      BY <2>1, <2>4
  <1>3. ASSUME NEW x \in Text, SaveSignature(x)
        PROVE  Inductive'
    <2>1. KeyOf(x) \in Key
      BY TextAssumption DEF KeyOf
    <2> QED
      BY <1>0, <1>3, <2>1 DEF SaveSignature, TypeOK, HolderHasKey, CountStands, Holder
  <1>4. ASSUME UpdateKeyActivity \/ UpdateKeyActivityFails
        PROVE  Inductive'
    BY <1>4 DEF UpdateKeyActivity, UpdateKeyActivityFails, TypeOK, Holder,
                HolderHasKey, CountStands
  <1>5. ASSUME CountKeys
        PROVE  Inductive'
    <2>1. /\ TotalKeys(active, pubKeys) \in 0..Cardinality(Text)
          /\ Cardinality(active) <= TotalKeys(active, pubKeys)
      BY TotalCovers DEF TypeOK
    <2> QED
      BY <1>5, <2>1 DEF CountKeys, TypeOK, Holder, HolderHasKey, CountStands
  <1>6. ASSUME BroadcastConsensus
        PROVE  Inductive'
    BY <1>0, <1>6 DEF BroadcastConsensus, NoHolder, TypeOK, Holder, HolderHasKey, CountStands
  <1>7. ASSUME NEW x \in Text, SignOther(x)
        PROVE  Inductive'
    BY <1>7 DEF SignOther, LockFree, TypeOK, HolderHasKey, CountStands
  <1>8. ASSUME Restart
        PROVE  Inductive'
    BY <1>0, <1>8 DEF Restart, NoHolder, TypeOK, Holder, HolderHasKey, CountStands
  <1>9. ASSUME UNCHANGED vars
        PROVE  Inductive'
    BY <1>9 DEF vars, TypeOK, HolderHasKey, CountStands
  <1> QED
    BY <1>1, <1>2, <1>3, <1>4, <1>5, <1>6, <1>7, <1>8, <1>9 DEF Next, Proceed

\* The strengthening is an invariant.
THEOREM InductiveAlways == Spec => []Inductive
  BY InitInductive, NextInductive, PTL DEF Spec

------------------------------------------------------------------------------
(* Results *)

\* All state keeps its type.
THEOREM TypeCorrect == Spec => []TypeOK
  <1>1. Inductive => TypeOK
    BY DEF Inductive
  <1> QED
    BY <1>1, InductiveAlways, PTL

\* What handleSignature announces as agreed is signed by more than half of the
\* keys that are active at that moment, for blockMu keeps them from becoming
\* more since they were counted.
THEOREM MajorityAnnounced == Spec => AnnouncedByMajority
  <1>1. Inductive /\ [Next]_vars
          => [BroadcastConsensus /\ announced' = "reached"
                => 2 * Signed > Cardinality(active)]_vars
    <2> SUFFICES ASSUME Inductive, BroadcastConsensus, announced' = "reached"
                 PROVE  2 * Signed > Cardinality(active)
      OBVIOUS
    <2>1. Signed \in Nat /\ Cardinality(active) \in Nat /\ Cardinality(Text) \in Nat
      BY SignersCounted, TextsCounted DEF Inductive, TypeOK
    <2>2. holder.total \in Nat
      BY <2>1 DEF Inductive, TypeOK, Holder
    <2>3. AgreedBy(Signed, holder.total)
      BY DEF BroadcastConsensus
    <2>4. 2 * Signed > holder.total
      BY <2>1, <2>2, <2>3, AgreedMeans
    <2>5. Cardinality(active) <= holder.total
      BY DEF Inductive, CountStands, BroadcastConsensus
    <2> QED
      BY <2>1, <2>2, <2>4, <2>5
  <1> QED
    BY <1>1, InductiveAlways, PTL DEF Spec, AnnouncedByMajority

\* More keys require no fewer signatures.
LEMMA AgreedMonotonic ==
  ASSUME NEW s \in Nat, NEW n \in Nat, NEW r \in Nat, NEW m \in Nat,
         AgreedBy(s, n), s <= r, m <= n, m # 0
  PROVE  AgreedBy(r, m)
  <1>1. m \div 2 <= n \div 2 /\ m \div 2 \in Nat /\ n \div 2 \in Nat
    OBVIOUS
  <1>2. s >= Required(n) /\ s >= 2
    BY <1>1 DEF AgreedBy, ConsensusReached, AtLeastTwo, Required
  <1> QED
    BY <1>1, <1>2 DEF AgreedBy, ConsensusReached, AtLeastTwo, Required

LEMMA SignersGrow == Inductive /\ [Next]_vars => signers \subseteq signers'
  BY DEF Inductive, TypeOK, Next, vars, Register, Revoke, FallSilent, SaveSignature,
         SignOther, Proceed, UpdateKeyActivity, UpdateKeyActivityFails, CountKeys,
         BroadcastConsensus, Restart

\* Whatever keys sign, go or fall silent, an agreement is undone only by keys that
\* count from then on, or when no key is left.
THEOREM AgreementUndoneByNewKeys == Spec => AgreementKept
  <1>1. Inductive /\ [Next]_vars
          => [Agreed /\ ~Agreed' =>
                \/ TotalKeys(active', pubKeys') > TotalKeys(active, pubKeys)
                \/ TotalKeys(active', pubKeys') = 0]_vars
    <2> SUFFICES ASSUME Inductive, [Next]_vars, Agreed, ~Agreed',
                        TotalKeys(active', pubKeys') # 0
                 PROVE  TotalKeys(active', pubKeys') > TotalKeys(active, pubKeys)
      OBVIOUS
    <2> DEFINE n == TotalKeys(active, pubKeys)
               m == TotalKeys(active', pubKeys')
    <2>1. TypeOK /\ TypeOK'
      BY NextInductive DEF Inductive
    <2>2. Cardinality(Text) \in Nat
      BY TextsCounted
    <2>3. n \in Nat /\ m \in Nat
      BY <2>1, <2>2, TotalCovers DEF TypeOK
    <2>4. Signed \in Nat /\ Signed' \in Nat /\ Signed <= Signed'
      <3>1. IsFiniteSet(signers') /\ signers \in SUBSET signers'
        <4>1. signers' \in SUBSET Key
          BY <2>1 DEF TypeOK
        <4> QED
          BY <4>1, PartCounted, ConstantsAssumption, SignersGrow
      <3> QED
        BY <3>1, PartCounted DEF Signed
    <2>5. AgreedBy(Signed, n) /\ ~AgreedBy(Signed', m)
      BY DEF Agreed
    <2>6. ~(m <= n)
      BY <2>3, <2>4, <2>5, AgreedMonotonic
    <2> QED
      BY <2>3, <2>6
  <1> QED
    BY <1>1, InductiveAlways, PTL DEF Spec, AgreementKept

\* What the report says is off for the numbers 1 and 1 and no others.
LEMMA ReportByNumbers ==
  ASSUME NEW s \in Nat, NEW n \in Nat
  PROVE  /\ (ConsensusReached(s, n) <=> AgreedBy(s, n)) <=> ~(n = 1 /\ s = 1)
         /\ (ConsensusReached(s, n) => s >= AtLeastTwo(Required(n))) <=> ~(n = 1 /\ s = 1)
  <1>1. n \div 2 \in Nat /\ (n \div 2 = 0 <=> n < 2)
    OBVIOUS
  <1>2. ConsensusReached(s, n) /\ ~(s >= AtLeastTwo(Required(n))) <=> n = 1 /\ s = 1
    BY <1>1 DEF ConsensusReached, AtLeastTwo, Required
  <1> QED
    BY <1>2 DEF AgreedBy

\* The report of GET /api/blocks/{hash}/consensus departs from the two other
\* judgements in one case alone: one key counts, and the block has one signature.
\* Then, and only then, it calls a block reached that they call pending, and that
\* has fewer signatures than it reports as required.
ReportDiffers == TotalKeys(active, pubKeys) = 1 /\ Signed = 1
ReportOffForOneKey ==
  /\ (ReportedReached <=> Agreed) <=> ~ReportDiffers
  /\ ReportConsistent <=> ~ReportDiffers

THEOREM ReportDiffersForOneKey == Spec => []ReportOffForOneKey
  <1>1. Inductive => ReportOffForOneKey
    <2> SUFFICES ASSUME Inductive PROVE ReportOffForOneKey
      OBVIOUS
    <2>1. Signed \in Nat /\ TotalKeys(active, pubKeys) \in Nat
      BY SignersCounted, TotalCovers, TextsCounted DEF Inductive, TypeOK
    <2> QED
      BY <2>1, ReportByNumbers
         DEF Agreed, ReportedReached, ReportedRequired, ReportConsistent, ReportDiffers,
             ReportOffForOneKey
  <1> QED
    BY <1>1, InductiveAlways, PTL
==============================================================================
