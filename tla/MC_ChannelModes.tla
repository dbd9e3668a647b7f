-------------------------- MODULE MC_ChannelModes --------------------------
(* Two users; the channel flags n, m, k and l and the member flags o and v. *)
(* The arrays hold the four channel flags and the NUL.  CHANINFO carries   *)
(* flags as a peer's Channel_Modes() has them; a server's JOIN passes one  *)
(* flag twice as well.                                                      *)
EXTENDS ChannelModes

CONSTANTS u1, u2

MC_Clients == {u1, u2}
MC_CModes == {"n", "m", "k", "l"}
MC_InfoArgs == {<<>>, <<"n", "l">>, <<"l", "m", "k">>}
MC_FlagArgs == {<<>>, <<"o">>, <<"v", "o">>, <<"o", "o">>}
=============================================================================
