---------------------------- MODULE MCETHApplication ----------------------------
(* An instance of ETHApplication for TLC: two scenes whose entities have   *)
(* the same ids; each scene has a lightmap for some of them.               *)
EXTENDS ETHApplication

CONSTANTS menu, level, e1, e2

MCScene == {menu, level}
MCEntity == {e1, e2}
MCLightmaps == {<<menu, e1>>, <<level, e1>>, <<level, e2>>}

===============================================================================
