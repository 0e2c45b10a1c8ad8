------------------------------- MODULE MCCueTags -------------------------------
(* CueTags for TLC: two points; lengths of none, too little and enough. *)
EXTENDS CueTags

MCWindows == {<<0, 2>>, <<1, 2>>, <<1, 1>>, <<1, 0>>}
MCTooShort == {<<1, 1>>}
MCProposals == {{}, {<<0, 2>>}, {<<0, 2>>, <<1, 2>>}}
===============================================================================
