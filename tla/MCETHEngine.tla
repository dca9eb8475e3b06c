------------------------------ MODULE MCETHEngine -----------------------------
(* Instances of ETHEngine for TLC: entities that two scenes share out, on  *)
(* a line of two buckets.                                                  *)
EXTENDS ETHEngine

CONSTANTS e1, e2, e3, menu, level

MCEntity == {e1, e2, e3}
MCTwoEntities == {e1, e2}
MCScene == {menu, level}
MCPosition == {0, 2}
Chained == {"LoadSceneInOnSceneLoaded"}
StaleHandles == {"StaleHandles"}

===============================================================================
