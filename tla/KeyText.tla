------------------------------- MODULE KeyText -------------------------------
(***************************************************************************)
(* What a request and a bucket have of a public key is its text, the       *)
(* hexadecimal digits: crypto.StringToPublicKey of internal/crypto/keys.go *)
(* reads them in capitals or not, so a key has several texts.  The buckets *)
(* and the maps of the server go by the text as it comes, the signatures   *)
(* of a block by the key.                                                  *)
(***************************************************************************)
CONSTANTS
  Key,  \* public keys
  Text  \* the texts of keys: the key, and the way it is written

ASSUME TextAssumption == \A x \in Text : x[1] \in Key

\* StringToPublicKey.
KeyOf(x) == x[1]

TextsOf(k) == {x \in Text : KeyOf(x) = k}

KeysOf(texts) == {KeyOf(x) : x \in texts}
==============================================================================
