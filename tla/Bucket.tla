------------------------------- MODULE Bucket -------------------------------
(***************************************************************************)
(* A bucket of bbolt, the embedded database under internal/storage: a      *)
(* finite map from keys to values.  bbolt itself is not in the repository; *)
(* its operations are modelled from how storage.go calls them.  Every      *)
(* db.Update of storage.go is one atomic and durable step, so the modules  *)
(* that use buckets update all the buckets of one transaction in one step. *)
(***************************************************************************)

EmptyBucket == [k \in {} |-> k]

Put(bucket, k, v) ==
  [x \in DOMAIN bucket \cup {k} |-> IF x = k THEN v ELSE bucket[x]]

Delete(bucket, k) == [x \in DOMAIN bucket \ {k} |-> bucket[x]]

\* The bucket maps keys of K to values of V.
IsBucket(bucket, K, V) ==
  /\ bucket = [x \in DOMAIN bucket |-> bucket[x]]
  /\ DOMAIN bucket \subseteq K
  /\ \A x \in DOMAIN bucket : bucket[x] \in V
=============================================================================
