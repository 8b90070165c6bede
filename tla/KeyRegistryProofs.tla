-------------------------- MODULE KeyRegistryProofs --------------------------
(***************************************************************************)
(* What KeyRegistry keeps, proved for any number of threads, keys and ways *)
(* of writing a key.                                                       *)
(***************************************************************************)
EXTENDS KeyRegistry, TLAPS

\* A request past its first step has the text of a key; a dead process knows nothing.
LifeCycle ==
  /\ \A t \in Thread : req[t].step # "idle" => req[t].key \in Text
  /\ ~up => pubKeys = {} /\ \A t \in Thread : req[t].step = "idle"

\* The key of a signer, or of a registration under way, was in the database;
\* that of a revocation that waits for the map is revoked there.
RequestsKnown ==
  \A t \in Thread :
    /\ req[t].step \in {"stored", "admitted"} => req[t].key \in registered \cup revoked
    /\ req[t].step = "revoked" => req[t].key \in revoked

Inductive == TypeOK /\ LifeCycle /\ RequestsKnown /\ CacheAgrees /\ SignersKnown

LEMMA NoRequestType == NoRequest \in Request /\ NoRequest.step = "idle"
  BY DEF NoRequest, Request, Steps

\* More texts, more keys.
LEMMA KeysOfMore ==
  ASSUME NEW A, NEW B, A \subseteq B
  PROVE  KeysOf(A) \subseteq KeysOf(B)
  BY DEF KeysOf

\* No key that was registered is forgotten.
LEMMA SignersStayKnown ==
  ASSUME SignersKnown, registered \cup revoked \subseteq (registered \cup revoked)',
         signers' = signers
  PROVE  SignersKnown'
  <1>1. KeysOf(registered \cup revoked) \subseteq KeysOf((registered \cup revoked)')
    BY KeysOfMore
  <1>2. KeysOf(registered \cup revoked)' = KeysOf((registered \cup revoked)')
    BY DEF KeysOf, KeyOf
  <1> QED
    BY <1>1, <1>2 DEF SignersKnown

\* A request arrives.
LEMMA EnterEffect ==
  ASSUME TypeOK, NEW t \in Thread, NEW s \in Steps, NEW k \in Text, NEW n \in Text \cup {NoText},
         Enter(t, s, k, n)
  PROVE  /\ req' \in [Thread -> Request]
         /\ req'[t].step = s /\ req'[t].key = k
         /\ up /\ req[t].step = "idle"
         /\ \A u \in Thread : u # t => req'[u] = req[u]
  BY DEF Enter, TypeOK, Request

\* It goes on to step s, or is answered.
LEMMA GoOnEffect ==
  ASSUME TypeOK, NEW t \in Thread, NEW s \in Steps, Goto(t, s) \/ Respond(t)
  PROVE  /\ req' \in [Thread -> Request]
         /\ req'[t].step = "idle" \/ (req'[t].step = s /\ req'[t].key = req[t].key)
         /\ \A u \in Thread : u # t => req'[u] = req[u]
  <1>1. req \in [Thread -> Request]
    BY DEF TypeOK
  <1>2. CASE Goto(t, s)
    BY <1>1, <1>2 DEF Goto, Request
  <1>3. CASE Respond(t)
    BY <1>1, <1>3, NoRequestType DEF Respond
  <1> QED
    BY <1>2, <1>3

LEMMA RespondEffect ==
  ASSUME TypeOK, NEW t \in Thread, Respond(t)
  PROVE  /\ req' \in [Thread -> Request]
         /\ req'[t].step = "idle"
         /\ \A u \in Thread : u # t => req'[u] = req[u]
  BY NoRequestType DEF TypeOK, Respond

\* A request that is neither a registration under way nor becomes one moves on,
\* and neither the database nor the map changes.
LEMMA QuietStep ==
  ASSUME Inductive, NEW t \in Thread, req[t].step # "stored", up,
         req' \in [Thread -> Request],
         \A u \in Thread : u # t => req'[u] = req[u],
         req'[t].step # "idle" => req'[t].key \in Text,
         req'[t].step \notin {"stored", "revoked"},
         req'[t].step = "admitted" => req'[t].key \in registered \cup revoked,
         UNCHANGED <<store, up, pubKeys>>
  PROVE  Inductive'
  <1> USE DEF Inductive, store
  <1>1. TypeOK'
    BY DEF TypeOK
  <1>2. LifeCycle'
    BY DEF LifeCycle
  <1>3. RequestsKnown'
    BY DEF RequestsKnown
  <1>4. \A k \in Text : Registering(k) => Registering(k)'
    BY DEF Registering
  <1>5. CacheAgrees' /\ SignersKnown'
    BY <1>4 DEF CacheAgrees, SignersKnown
  <1> QED
    BY <1>1, <1>2, <1>3, <1>5

LEMMA InitInductive == Init => Inductive
  <1> SUFFICES ASSUME Init PROVE Inductive
    OBVIOUS
  <1> QED
    BY NoRequestType
       DEF Init, Inductive, TypeOK, LifeCycle, RequestsKnown, CacheAgrees, SignersKnown

LEMMA StoreKeyStep ==
  ASSUME Inductive, NEW t \in Thread, NEW k \in Text, StoreKey(t, k)
  PROVE  Inductive'
  <1> USE DEF Inductive
  <1>1. /\ req' \in [Thread -> Request]
        /\ req'[t].step = "stored" /\ req'[t].key = k
        /\ up /\ req[t].step = "idle"
        /\ \A u \in Thread : u # t => req'[u] = req[u]
    BY EnterEffect DEF StoreKey, Steps
  <1>2. registered' = registered \cup {k} /\ UNCHANGED <<revoked, signers, up, pubKeys>>
    BY DEF StoreKey
  <1>3. TypeOK' /\ LifeCycle' /\ RequestsKnown'
    BY <1>1, <1>2 DEF TypeOK, LifeCycle, RequestsKnown
  <1>4. SignersKnown'
    BY <1>2, SignersStayKnown
  <1>5. Registering(k)' /\ \A x \in Text : Registering(x) => Registering(x)'
    BY <1>1 DEF Registering
  <1>6. CacheAgrees'
    BY <1>2, <1>5 DEF CacheAgrees
  <1> QED
    BY <1>4, <1>3, <1>6

LEMMA CacheKeyStep ==
  ASSUME Inductive, NEW t \in Thread, CacheKey(t)
  PROVE  Inductive'
  <1> USE DEF Inductive
  <1> DEFINE k == req[t].key
  <1>1. /\ req' \in [Thread -> Request]
        /\ req'[t].step = "idle"
        /\ \A u \in Thread : u # t => req'[u] = req[u]
    BY RespondEffect DEF CacheKey
  <1>2. /\ req[t].step = "stored" /\ pubKeys' = pubKeys \cup {k}
        /\ UNCHANGED <<registered, revoked, signers, up>>
    BY DEF CacheKey, store
  <1>3. k \in Text /\ k \in registered \cup revoked /\ up
    BY <1>2 DEF LifeCycle, RequestsKnown, TypeOK
  <1>4. TypeOK' /\ LifeCycle' /\ RequestsKnown' /\ SignersKnown'
    BY <1>1, <1>2, <1>3 DEF TypeOK, LifeCycle, RequestsKnown, SignersKnown
  <1>5. \A x \in Text : x # k /\ Registering(x) => Registering(x)'
    BY <1>1 DEF Registering
  <1>6. CacheAgrees'
    BY <1>2, <1>3, <1>5 DEF CacheAgrees
  <1> QED
    BY <1>4, <1>6

LEMMA RevokeKeyStep ==
  ASSUME Inductive, NEW t \in Thread, RevokeKey(t)
  PROVE  Inductive'
  <1> USE DEF Inductive
  <1> DEFINE k == req[t].key
  <1>1. /\ req' \in [Thread -> Request]
        /\ req'[t].step \in {"idle", "revoked"} /\ (req'[t].step = "revoked" => req'[t].key = k)
        /\ \A u \in Thread : u # t => req'[u] = req[u]
    <2>1. "revoked" \in Steps /\ Goto(t, "revoked")
      BY DEF RevokeKey, Steps
    <2> QED
      BY <2>1, GoOnEffect
  <1>2. /\ req[t].step = "confirmed"
        /\ revoked' = revoked \cup {k} /\ registered' = registered \ {k}
        /\ UNCHANGED <<signers, up, pubKeys>>
    BY DEF RevokeKey
  <1>3. k \in Text /\ up
    BY <1>2 DEF LifeCycle, TypeOK
  <1>4. TypeOK' /\ LifeCycle' /\ RequestsKnown'
    BY <1>1, <1>2, <1>3 DEF TypeOK, LifeCycle, RequestsKnown
  <1>5. SignersKnown'
    BY <1>2, SignersStayKnown
  <1>6. \A x \in Text : Registering(x) => Registering(x)'
    BY <1>1, <1>2 DEF Registering
  <1>7. CacheAgrees'
    BY <1>2, <1>6 DEF CacheAgrees
  <1> QED
    BY <1>5, <1>4, <1>7

LEMMA UncacheKeyStep ==
  ASSUME Inductive, NEW t \in Thread, UncacheKey(t)
  PROVE  Inductive'
  <1> USE DEF Inductive
  <1> DEFINE k == req[t].key
  <1>1. /\ req' \in [Thread -> Request]
        /\ req'[t].step = "idle"
        /\ \A u \in Thread : u # t => req'[u] = req[u]
    BY RespondEffect DEF UncacheKey
  <1>2. /\ req[t].step = "revoked" /\ pubKeys' = pubKeys \ {k}
        /\ UNCHANGED <<registered, revoked, signers, up>>
    BY DEF UncacheKey, store
  <1>3. k \in revoked /\ up
    BY <1>2 DEF LifeCycle, RequestsKnown, TypeOK
  <1>4. TypeOK' /\ LifeCycle' /\ RequestsKnown' /\ SignersKnown'
    BY <1>1, <1>2, <1>3 DEF TypeOK, LifeCycle, RequestsKnown, SignersKnown
  <1>5. \A x \in Text : Registering(x) => Registering(x)'
    BY <1>1, <1>2 DEF Registering
  <1>6. CacheAgrees'
    BY <1>2, <1>3, <1>5 DEF CacheAgrees
  <1> QED
    BY <1>4, <1>6

LEMMA SaveSignatureStep ==
  ASSUME Inductive, NEW t \in Thread, SaveSignature(t)
  PROVE  Inductive'
  <1> USE DEF Inductive
  <1>1. /\ req' \in [Thread -> Request]
        /\ req'[t].step = "idle"
        /\ \A u \in Thread : u # t => req'[u] = req[u]
    BY RespondEffect DEF SaveSignature
  <1>2. /\ req[t].step = "admitted" /\ signers' = signers \cup {KeyOf(req[t].key)}
        /\ UNCHANGED <<registered, revoked, up, pubKeys>>
    BY DEF SaveSignature
  <1>3. req[t].key \in Text /\ req[t].key \in registered \cup revoked /\ up
    BY <1>2 DEF LifeCycle, RequestsKnown, TypeOK
  <1>4. KeyOf(req[t].key) \in Key /\ KeyOf(req[t].key) \in KeysOf(registered \cup revoked)
    BY <1>3, TextAssumption DEF KeyOf, KeysOf
  <1>5. TypeOK' /\ LifeCycle' /\ RequestsKnown' /\ SignersKnown'
    BY <1>1, <1>2, <1>3, <1>4 DEF TypeOK, LifeCycle, RequestsKnown, SignersKnown
  <1>6. \A x \in Text : Registering(x) => Registering(x)'
    BY <1>1, <1>2 DEF Registering
  <1>7. CacheAgrees'
    BY <1>2, <1>6 DEF CacheAgrees
  <1> QED
    BY <1>6, <1>7, <1>5

\* Every other step of a request.
LEMMA OtherSteps ==
  ASSUME Inductive, NEW t \in Thread,
         \/ \E k \in Text : Admit(t, k) \/ \E n \in Text : BeginRevoke(t, k, n)
         \/ CheckRevoked(t) \/ CheckNewKey(t) \/ RevokeKeyFails(t) \/ RefuseSignature(t)
  PROVE  Inductive'
  <1> USE DEF Inductive
  <1>1. ASSUME NEW k \in Text, Admit(t, k)
        PROVE  Inductive'
    <2>1. /\ req' \in [Thread -> Request]
          /\ req'[t].step = "admitted" /\ req'[t].key = k
          /\ up /\ req[t].step = "idle"
          /\ \A u \in Thread : u # t => req'[u] = req[u]
      BY <1>1, EnterEffect DEF Admit, Steps
    <2>2. k \in registered \cup revoked
      BY <1>1, <2>1 DEF Admit, CacheAgrees
    <2>3. UNCHANGED <<store, up, pubKeys>>
      BY <1>1 DEF Admit
    <2> QED
      BY <2>1, <2>2, <2>3, QuietStep
  <1>2. ASSUME NEW k \in Text, NEW n \in Text, BeginRevoke(t, k, n)
        PROVE  Inductive'
    <2>1. /\ req' \in [Thread -> Request]
          /\ req'[t].step = "known" /\ req'[t].key = k
          /\ up /\ req[t].step = "idle"
          /\ \A u \in Thread : u # t => req'[u] = req[u]
      BY <1>2, EnterEffect DEF BeginRevoke, Steps
    <2>2. UNCHANGED <<store, up, pubKeys>>
      BY <1>2 DEF BeginRevoke
    <2> QED
      BY <2>1, <2>2, QuietStep
  <1>3. CASE CheckRevoked(t) \/ CheckNewKey(t) \/ RevokeKeyFails(t) \/ RefuseSignature(t)
    <2>1. /\ req[t].step \in {"known", "unrevoked", "confirmed", "admitted"}
          /\ UNCHANGED <<store, up, pubKeys>>
          /\ \E s \in {"unrevoked", "confirmed"} : Goto(t, s) \/ Respond(t)
      BY <1>3 DEF CheckRevoked, CheckNewKey, RevokeKeyFails, RefuseSignature
    <2>2. PICK s \in {"unrevoked", "confirmed"} : Goto(t, s) \/ Respond(t)
      BY <2>1
    <2>3. /\ req' \in [Thread -> Request]
          /\ req'[t].step = "idle" \/ (req'[t].step = s /\ req'[t].key = req[t].key)
          /\ \A u \in Thread : u # t => req'[u] = req[u]
      BY <2>2, GoOnEffect DEF Steps
    <2>4. req[t].key \in Text /\ up
      BY <2>1 DEF LifeCycle, TypeOK
    <2>5. req'[t].step \in {"idle", "unrevoked", "confirmed"}
      BY <2>3
    <2> QED
      BY <2>1, <2>3, <2>4, <2>5, QuietStep
  <1> QED
    BY <1>1, <1>2, <1>3

LEMMA CrashStep ==
  ASSUME Inductive, Crash
  PROVE  Inductive'
  BY NoRequestType
     DEF Inductive, Crash, store, TypeOK, LifeCycle, RequestsKnown, CacheAgrees, SignersKnown

LEMMA StartStep ==
  ASSUME Inductive, Start
  PROVE  Inductive'
  BY DEF Inductive, Start, LoadKeys, store, TypeOK, LifeCycle, RequestsKnown, CacheAgrees,
         SignersKnown

LEMMA NextInductive == Inductive /\ [Next]_vars => Inductive'
  <1> SUFFICES ASSUME Inductive, [Next]_vars PROVE Inductive'
    OBVIOUS
  <1>1. CASE Start
    BY <1>1, StartStep
  <1>2. CASE Crash
    BY <1>2, CrashStep
  <1>3. ASSUME NEW t \in Thread, Arrive(t)
        PROVE  Inductive'
    BY <1>3, StoreKeyStep, OtherSteps DEF Arrive
  <1>4. ASSUME NEW t \in Thread, Proceed(t)
        PROVE  Inductive'
    BY <1>4, CacheKeyStep, RevokeKeyStep, UncacheKeyStep, SaveSignatureStep, OtherSteps
       DEF Proceed
  <1>5. CASE UNCHANGED vars
    BY <1>5 DEF vars, store, Inductive, TypeOK, LifeCycle, RequestsKnown, CacheAgrees,
       SignersKnown, Registering
  <1> QED
    BY <1>1, <1>2, <1>3, <1>4, <1>5 DEF Next

\* The strengthening holds in every reachable state.
THEOREM InductiveAlways == Spec => []Inductive
  <1> QED
    BY InitInductive, NextInductive, PTL DEF Spec

\* Every variable holds a value of its kind, for any number of requests and keys.
THEOREM TypeCorrect == Spec => []TypeOK
  <1>1. Inductive => TypeOK
    BY DEF Inductive
  <1> QED
    BY <1>1, InductiveAlways, PTL

\* The map and the database agree on every key that was never revoked, for any
\* number of concurrent registrations, revocations and restarts.
THEOREM MapAgrees == Spec => []CacheAgrees
  <1>1. Inductive => CacheAgrees
    BY DEF Inductive
  <1> QED
    BY <1>1, InductiveAlways, PTL

\* No signature is stored of a key that nobody registered.
THEOREM NoUnknownSigner == Spec => []SignersKnown
  <1>1. Inductive => SignersKnown
    BY DEF Inductive
  <1> QED
    BY <1>1, InductiveAlways, PTL
==============================================================================
