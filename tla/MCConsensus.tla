----------------------------- MODULE MCConsensus -----------------------------
(* A small instance of Consensus for TLC. *)
EXTENDS Consensus

CONSTANTS k1, k2, k3

\* One key may be written in two ways.
MCKey  == {k1, k2, k3}
MCText == {<<k1, "small">>, <<k2, "small">>, <<k2, "capital">>, <<k3, "small">>}
==============================================================================
