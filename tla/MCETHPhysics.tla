----------------------------- MODULE MCETHPhysics -----------------------------
(* Instances of ETHPhysics for TLC: a hero whose scripts have all three    *)
(* contact callbacks, a crate with a pre-solve callback that the hero may  *)
(* be joined to, and a coin, a sensor that hears when contacts begin.      *)
EXTENDS ETHPhysics

CONSTANTS hero, crate, coin, none

MCEntity == {hero, crate, coin}
MCTwo == {hero, crate}
MCHero == {hero}
MCCoin == {coin}
MCHeroCoin == {hero, coin}
MCHeroCrate == {hero, crate}
MCJoints == {<<hero, crate>>}

===============================================================================
