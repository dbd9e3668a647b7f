---------------------------- MODULE MC_Channels ----------------------------
(* Channels with one local user, one remote user, and the channel names  *)
(* a, A (a in another case), b and an invalid name x.                     *)
EXTENDS Channels

CONSTANTS u1, r1, a, A, b, x

MC_Locals == {u1}
MC_Remotes == {r1}
MC_IrcOps == {u1}
MC_Names == {a, A, b, x}
MC_Valid == {a, A, b}
MC_Fold == [n \in MC_Names |-> IF n = A THEN a ELSE n]
MC_ChanModes == {"i", "k", "l", "t", "P"}
MC_ModeArgs == {{"i"}, {"k", "l"}, {"t", "P"}}
MC_Limits == {1}
MC_Requests == {<<a>>, <<A>>, <<b>>, <<x>>, <<a, b>>}
=============================================================================
