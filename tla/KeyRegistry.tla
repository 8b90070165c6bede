----------------------------- MODULE KeyRegistry -----------------------------
(***************************************************************************)
(* The registered keys of the ChainDocs server: handleRegisterKey,         *)
(* handleRevokeKey and the key check of handleSignature in                 *)
(* cmd/server/main.go, over the buckets "pubkeys" and "revoked" of         *)
(* internal/storage/storage.go and the map pubKeys in memory.              *)
(*                                                                         *)
(* A registration and a revocation change the database first and the map   *)
(* afterwards; Server.mu protects each access to the map and none of the   *)
(* handlers as a whole.  A request that is refused by its first check      *)
(* changes nothing and is left out.  All of them go by the text of a key   *)
(* (module KeyText); the blocks alone have the key itself.                 *)
(***************************************************************************)
EXTENDS KeyText

CONSTANT
  Thread  \* the requests that may be served at once

VARIABLES
  \* durable
  registered,  \* bucket "pubkeys", texts
  revoked,     \* bucket "revoked", texts
  signers,     \* the keys that have a signature in a stored block
  \* volatile
  up,          \* the process runs
  pubKeys,     \* the map Server.pubKeys, texts
  req          \* what each thread is doing

store == <<registered, revoked, signers>>
vars  == <<store, up, pubKeys, req>>

Steps   == {"idle", "stored", "known", "unrevoked", "confirmed", "revoked", "admitted"}
NoText  == <<>>
Request == [step : Steps, key : Text \cup {NoText}, new : Text \cup {NoText}]

NoRequest == [step |-> "idle", key |-> NoText, new |-> NoText]

Enter(t, s, x, n) ==
  /\ up
  /\ req[t].step = "idle"
  /\ req' = [req EXCEPT ![t] = [step |-> s, key |-> x, new |-> n]]
Goto(t, s)  == req' = [req EXCEPT ![t].step = s]
Respond(t)  == req' = [req EXCEPT ![t] = NoRequest]

------------------------------------------------------------------------------
(* handleRegisterKey *)

\* SavePublicKey.  Whether the key was revoked before is not looked at.
StoreKey(t, x) ==
  /\ Enter(t, "stored", x, NoText)
  /\ registered' = registered \cup {x}
  /\ UNCHANGED <<revoked, signers, up, pubKeys>>

\* Faulty variants, which the mutant runs put in place of the definition that
\* follows them, here and below: the wrong field of the request is cached.
CacheOtherKey(t) ==
  /\ req[t].step = "stored"
  /\ pubKeys' = pubKeys \cup {req[t].new}
  /\ Respond(t)
  /\ UNCHANGED <<store, up>>

CacheKey(t) ==
  /\ req[t].step = "stored"
  /\ pubKeys' = pubKeys \cup {req[t].key}
  /\ Respond(t)
  /\ UNCHANGED <<store, up>>

------------------------------------------------------------------------------
(* handleRevokeKey *)

\* The key is in the map.  The new key, which signed the request, may be the
\* same one.
BeginRevoke(t, x, n) ==
  /\ x \in pubKeys
  /\ Enter(t, "known", x, n)
  /\ UNCHANGED <<store, up, pubKeys>>

\* IsKeyRevoked: 409 if so.
CheckRevoked(t) ==
  /\ req[t].step = "known"
  /\ IF req[t].key \in revoked THEN Respond(t) ELSE Goto(t, "unrevoked")
  /\ UNCHANGED <<store, up, pubKeys>>

\* The new key must be in the map too: 400 if not.
CheckNewKey(t) ==
  /\ req[t].step = "unrevoked"
  /\ IF req[t].new \in pubKeys THEN Goto(t, "confirmed") ELSE Respond(t)
  /\ UNCHANGED <<store, up, pubKeys>>

\* RevokePublicKey: one transaction over both buckets.
RevokeKey(t) ==
  /\ req[t].step = "confirmed"
  /\ revoked' = revoked \cup {req[t].key}
  /\ registered' = registered \ {req[t].key}
  /\ Goto(t, "revoked")
  /\ UNCHANGED <<signers, up, pubKeys>>

RevokeKeyFails(t) ==
  /\ req[t].step = "confirmed"
  /\ Respond(t)
  /\ UNCHANGED <<store, up, pubKeys>>

\* Faulty: the map is not told.
AnswerRevocation(t) ==
  /\ req[t].step = "revoked"
  /\ Respond(t)
  /\ UNCHANGED <<store, up, pubKeys>>

UncacheKey(t) ==
  /\ req[t].step = "revoked"
  /\ pubKeys' = pubKeys \ {req[t].key}
  /\ Respond(t)
  /\ UNCHANGED <<store, up>>

------------------------------------------------------------------------------
(* handleSignature, as far as keys go *)

\* Faulty: only revoked keys are refused.
AdmitUnlessRevoked(t, x) ==
  /\ x \notin revoked
  /\ Enter(t, "admitted", x, NoText)
  /\ UNCHANGED <<store, up, pubKeys>>

\* The key is looked up once, before the handler waits for blockMu.
Admit(t, x) ==
  /\ x \in pubKeys
  /\ Enter(t, "admitted", x, NoText)
  /\ UNCHANGED <<store, up, pubKeys>>

\* The signature is stored, however much later, under the key that was read from
\* the text.
SaveSignature(t) ==
  /\ req[t].step = "admitted"
  /\ signers' = signers \cup {KeyOf(req[t].key)}
  /\ Respond(t)
  /\ UNCHANGED <<registered, revoked, up, pubKeys>>

\* One of the later checks fails.
RefuseSignature(t) ==
  /\ req[t].step = "admitted"
  /\ Respond(t)
  /\ UNCHANGED <<store, up, pubKeys>>

------------------------------------------------------------------------------
(* The process *)

\* Faulty: NewServer does not load the keys.
LoadNothing == pubKeys' = {}

LoadKeys == pubKeys' = registered

Start ==
  /\ ~up
  /\ up' = TRUE
  /\ LoadKeys
  /\ UNCHANGED <<store, req>>

Crash ==
  /\ up
  /\ up' = FALSE
  /\ pubKeys' = {}
  /\ req' = [t \in Thread |-> NoRequest]
  /\ UNCHANGED store

Init ==
  /\ registered = {} /\ revoked = {} /\ signers = {}
  /\ up = FALSE /\ pubKeys = {}
  /\ req = [t \in Thread |-> NoRequest]

Arrive(t) ==
  \E x \in Text : StoreKey(t, x) \/ Admit(t, x) \/ \E n \in Text : BeginRevoke(t, x, n)

Proceed(t) ==
  \/ CacheKey(t)
  \/ CheckRevoked(t) \/ CheckNewKey(t) \/ RevokeKey(t) \/ RevokeKeyFails(t) \/ UncacheKey(t)
  \/ SaveSignature(t) \/ RefuseSignature(t)

Next == Start \/ Crash \/ \E t \in Thread : Arrive(t) \/ Proceed(t)

Spec == Init /\ [][Next]_vars

\* Goroutines are scheduled, and Server.mu is never held across a step.
FairSpec == Spec /\ \A t \in Thread : WF_vars(Proceed(t))

------------------------------------------------------------------------------
(* Properties *)

\* Every variable holds a value of its kind.
TypeOK ==
  /\ registered \subseteq Text /\ revoked \subseteq Text /\ signers \subseteq Key
  /\ up \in BOOLEAN
  /\ pubKeys \subseteq Text
  /\ req \in [Thread -> Request]

\* A registration that has changed the database and not yet the map.
Registering(x) == \E t \in Thread : req[t].step = "stored" /\ req[t].key = x

\* A revocation that has changed the database and not yet the map.
Revoking(x) == \E t \in Thread : req[t].step = "revoked" /\ req[t].key = x

\* The map and the database agree on every text that was never revoked, through
\* any interleaving and any restart, but for the moment between the two steps
\* of a registration.
CacheAgrees ==
  up => \A x \in Text \ revoked :
          /\ x \in pubKeys => x \in registered
          /\ x \in registered => x \in pubKeys \/ Registering(x)

\* Only a key that is or was registered, in one text or another, has a signature
\* in a block, although the check reads the map, which is gone after a crash, long
\* before the signature is stored.
SignersKnown == signers \subseteq KeysOf(registered \cup revoked)

\* The owner of a key revokes each text of it that the server knows.
Withdrawn(k) ==
  /\ \E x \in TextsOf(k) : Revoking(x)
  /\ \A x \in TextsOf(k) : ~Registering(x) /\ (x \in pubKeys => Revoking(x))

\* Once the database has these revocations, the server ends up knowing the key in
\* no text, by the handlers or by the end of the process, unless somebody registers
\* it again.
RevocationTakesEffect ==
  \A k \in Key :
    Withdrawn(k) ~> \/ TextsOf(k) \cap pubKeys = {}
                    \/ \E x \in TextsOf(k) : Registering(x)

------------------------------------------------------------------------------
(* What the code does not keep *)

\* "Попытка подписать блок отозванным ключом вернёт ошибку" (CHANGES.md:262),
\* "Отозванные ключи попадают в чёрный список" (docs/ARCHITECTURE.md:325): once
\* its revocation is through, a revoked key does not pass the check.
RevokedKeyRefused ==
  \A x \in revoked, y \in pubKeys : KeyOf(x) = KeyOf(y) => Revoking(x)
==============================================================================
