------------------------- MODULE MCETHParticleManager -------------------------
(* An instance of ETHParticleManager for TLC: an entity of two systems,    *)
(* each of which may end, go on for ever, lack its file or be empty.       *)
EXTENDS ETHParticleManager

Steady == [nParticles |-> 2, repeat |-> 2, lifeTime |-> 1, randomizeLifeTime |-> 0,
           allAtOnce |-> FALSE, file |-> TRUE]
Burst == [nParticles |-> 2, repeat |-> 1, lifeTime |-> 2, randomizeLifeTime |-> 2,
          allAtOnce |-> TRUE, file |-> TRUE]
Endless == [Steady EXCEPT !.repeat = 0]
Missing == [Steady EXCEPT !.file = FALSE]
Empty == [Steady EXCEPT !.nParticles = 0]
MCSystem == {Steady, Burst, Endless, Missing, Empty}

===============================================================================
