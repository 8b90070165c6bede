---------------------------- MODULE MCKeyRegistry ----------------------------
(* Small instances of KeyRegistry for TLC. *)
EXTENDS KeyRegistry

CONSTANTS k1, k2

\* One key may be written in two ways, the other in one.
MCKey  == {k1, k2}
MCText == {<<k1, "small">>, <<k1, "capital">>, <<k2, "small">>}
==============================================================================
