----------------------------- MODULE MCNotifyHub -----------------------------
(* Small instances of NotifyHub for TLC. *)
EXTENDS NotifyHub

\* Ids are interchangeable, so one connection may as well have the first one.
MCInit == Init /\ owner[CHOOSE c \in Conn : TRUE] = CHOOSE i \in Id : TRUE

MCSpec == MCInit /\ [][Next]_vars /\ Fairness
==============================================================================
