------------------------------ MODULE MCETHScene ------------------------------
(* Instances of ETHScene for TLC: a hero with a body and a callback, a     *)
(* static prop with a callback, and a temporary particle effect, on two    *)
(* buckets of which the camera sees one.                                   *)
EXTENDS ETHScene

CONSTANTS hero, prop, effect

HeroEffect == {hero, effect}
HeroProp == {hero, prop}
Hero == {hero}
Prop == {prop}
Effect == {effect}

MCPosition == {0, 2}
MCViews == {{0}}

===============================================================================
