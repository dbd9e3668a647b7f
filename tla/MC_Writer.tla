------------------------------ MODULE MC_Writer ------------------------------
(* Writer with COMMAND_LEN 5 (lines of at most 2 characters, a formatted  *)
(* length of 3 is refused, 4 is truncated) and a 7-byte write buffer,     *)
(* which holds two 3-byte lines but not a 3-byte and a 4-byte one.        *)
EXTENDS Writer

CONSTANTS a, b, exact, long, pass, server, error

\* a is 1 character and b 2; exact has the refused length 3; long would
\* need 4 and is truncated
MC_Msgs == {a, b, exact, long, pass, server, error}
MC_MsgLen == (a :> 1) @@ (b :> 2) @@ (exact :> 3) @@ (long :> 4)
             @@ (pass :> 1) @@ (server :> 2) @@ (error :> 2)
=============================================================================
