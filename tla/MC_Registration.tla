-------------------------- MODULE MC_Registration --------------------------
(* Two local client connections and one outbound peer link; nicknames a  *)
(* and A differ only in case, b is a third nickname; a server password   *)
(* is configured, so a client that sends no PASS is refused.             *)
EXTENDS Registration

CONSTANTS c1, c2, p1, a, A, b, empty, secret

MC_Locals == {c1, c2, p1}
MC_Outbound == {p1}
MC_Nicks == {a, A, b}
MC_Fold == [n \in MC_Nicks |-> IF n = b THEN b ELSE a]
MC_Pwds == {empty, secret}
=============================================================================
