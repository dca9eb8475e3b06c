--------------------------- MODULE ETHParticleManager ---------------------------
(***************************************************************************)
(* The particle systems of one entity (ETHParticleManager.cpp, and the     *)
(* part of ETHSpriteEntity.cpp that owns them).                            *)
(*                                                                         *)
(* Each slot of the entity holds a manager if its system could be loaded.  *)
(* A particle waits for its turn, is released, grows old, and is reset to  *)
(* live again until it has lived as often as its system repeats; a system  *)
(* that is killed releases whom it has not released but resets no one.     *)
(* A frame that finds every particle of a system at its last life finishes *)
(* it.  An entity that only has systems of this kind leaves the scene when *)
(* all of them are finished (ETHActiveEntityHandler.cpp).                  *)
(***************************************************************************)
EXTENDS Integers, FiniteSets

CONSTANTS
  Slot,        \* the particle systems of the entity
  System,      \* the systems its file may give them (ETHParticleSystem)
  Time,        \* the times a frame may take
  Chance,      \* the numbers Randomizer may return, between 0 and 1
  MaxParticles, \* bound: the number of particles of a system
  MaxElapsed,  \* bound: past every time a particle may wait or live
  MaxRepeat,   \* bound: past every number of lives
  MaxPlays     \* bound: how often the systems are played, or made anew

ASSUME SystemAssumption ==
  \A system \in System :
    /\ system.nParticles \in Int
    /\ system.nParticles <= MaxParticles
    /\ system.repeat \in Nat
    /\ system.repeat <= MaxRepeat
    /\ system.lifeTime \in Nat
    /\ system.randomizeLifeTime \in Nat
    /\ system.allAtOnce \in BOOLEAN
    /\ system.file \in BOOLEAN
ASSUME BoundsAssumption ==
  /\ MaxParticles \in Nat /\ MaxElapsed \in Nat /\ MaxRepeat \in Nat /\ MaxPlays \in Nat
  /\ Time \subseteq Nat
  /\ Chance \subseteq 0 .. 1

VARIABLES
  m_system,   \* the properties of each slot
  particles,  \* the particles of each slot that has a manager
  finished,   \* m_finished of each manager
  killed,     \* m_killed
  active,     \* m_nActiveParticles: what the light of the entity depends on
  inScene,    \* the entity has not been removed from the scene
  lives,      \* history: the lives each particle has completed since it was
              \* played, while it was not killed
  plays       \* bound: how often systems have been played or made anew

vars == <<m_system, particles, finished, killed, active, inScene, lives, plays>>

Ids(s) == 0 .. m_system[s].nParticles - 1

(* LoadParticleSystem skips a slot without particles, or without its file. *)
Loads(s) == m_system[s].nParticles > 0 /\ m_system[s].file

Loaded == {s \in Slot : Loads(s)}

IsEndless(s) == m_system[s].repeat = 0

(* Randomizer::Float spreads the lives around lifeTime.                    *)
LifeTime(s, chance) ==
  m_system[s].lifeTime - m_system[s].randomizeLifeTime \div 2
    + m_system[s].randomizeLifeTime * chance

Draws == [Slot -> [0 .. MaxParticles - 1 -> Chance]]

(* Every particle has lived as often as its system repeats.                *)
IsDone(s, particle) == ~IsEndless(s) /\ particle.repeat >= m_system[s].repeat

(* The particles DrawParticleSystem draws.                                 *)
Visible(s) ==
  {i \in Ids(s) :
     LET particle == particles[s][i]
     IN  /\ ~IsDone(s, particle)
         /\ particle.released
         /\ ~(killed[s] /\ particle.elapsed > particle.lifeTime)}

(* The properties decide, not the managers: a system without a file counts.*)
IsTemporary ==
  /\ \E s \in Slot : m_system[s].nParticles > 0
  /\ \A s \in Slot : m_system[s].nParticles > 0 => ~IsEndless(s)

(* Faulty variant: a system without a file is waited for.                  *)
AreParticlesOver_CountsMissing ==
  \A s \in Slot : m_system[s].nParticles > 0 => s \in Loaded /\ finished[s]

AreParticlesOver == Loaded # {} /\ \A s \in Loaded : finished[s]

-------------------------------------------------------------------------------
(* The life of a particle                                                  *)

Reset(s, chance) ==
  [released |-> FALSE, repeat |-> 0, elapsed |-> 0, lifeTime |-> LifeTime(s, chance)]

Grows(particle, time) ==
  [particle EXCEPT !.elapsed = IF @ + time > MaxElapsed THEN MaxElapsed ELSE @ + time]

(* The particles of a system take turns, in the order of their ids.        *)
IsTurn(s, i, particle) ==
  \/ m_system[s].allAtOnce
  \/ particle.elapsed * m_system[s].nParticles
       > (m_system[s].lifeTime + m_system[s].randomizeLifeTime) * i

Released(s, i, particle) ==
  IF ~particle.released /\ IsTurn(s, i, particle)
    THEN [[particle EXCEPT !.elapsed = 0] EXCEPT !.released = TRUE]
    ELSE particle

IsOld(particle) == particle.released /\ particle.elapsed > particle.lifeTime

LivesAgain(particle) ==
  [particle EXCEPT !.repeat = IF @ < MaxRepeat THEN @ + 1 ELSE @]

(* Faulty variant: a killed particle lives again.                          *)
Ends_AlwaysResets(s, particle, chance) ==
  IF IsOld(particle)
    THEN [[LivesAgain(particle) EXCEPT !.elapsed = 0] EXCEPT !.lifeTime = LifeTime(s, chance)]
    ELSE particle

Ends(s, particle, chance) ==
  IF ~IsOld(particle) THEN particle
  ELSE IF killed[s] THEN LivesAgain(particle)
  ELSE [[LivesAgain(particle) EXCEPT !.elapsed = 0] EXCEPT !.lifeTime = LifeTime(s, chance)]

(* UpdateParticleSystem, for one particle that is not done.                *)
Launched(s, i, time) == Released(s, i, Grows(particles[s][i], time))
Updated(s, i, time, chance) ==
  IF IsDone(s, particles[s][i]) THEN particles[s][i]
  ELSE Ends(s, Launched(s, i, time), chance)

(* Faulty variant: a particle of a killed system stays active.             *)
IsActive_IgnoresKill(s, particle) == ~IsDone(s, particle) /\ particle.released

(* The active particles are counted before they grow older.                *)
IsActive(s, particle) ==
  /\ ~IsDone(s, particle)
  /\ particle.released
  /\ killed[s] => particle.elapsed < particle.lifeTime

ActiveParticles(s) == Cardinality({i \in Ids(s) : IsActive(s, particles[s][i])})

(* m_finished: the frame found no particle that was not done.              *)
Finishes(s) == \A i \in Ids(s) : IsDone(s, particles[s][i])

-------------------------------------------------------------------------------

(* LoadParticleSystem: CreateParticleSystem for every slot that can be     *)
(* loaded.  m_nActiveParticles starts full if all are launched at once.    *)
Created ==
  /\ \E draw \in Draws : particles' = [s \in Loaded |-> [i \in Ids(s) |-> Reset(s, draw[s][i])]]
  /\ finished' = [s \in Loaded |-> FALSE]
  /\ killed' = [s \in Loaded |-> FALSE]
  /\ active' = [s \in Loaded |->
                  IF m_system[s].allAtOnce THEN m_system[s].nParticles ELSE 0]
  /\ lives' = [s \in Loaded |-> [i \in Ids(s) |-> 0]]

ParticlesInit ==
  /\ m_system \in [Slot -> System]
  /\ \E draw \in Draws : particles = [s \in Loaded |-> [i \in Ids(s) |-> Reset(s, draw[s][i])]]
  /\ finished = [s \in Loaded |-> FALSE]
  /\ killed = [s \in Loaded |-> FALSE]
  /\ active = [s \in Loaded |->
                 IF m_system[s].allAtOnce THEN m_system[s].nParticles ELSE 0]
  /\ lives = [s \in Loaded |-> [i \in Ids(s) |-> 0]]
  /\ inScene = TRUE
  /\ plays = 0

(* RecoverResources, after the device was lost: the entity makes all its   *)
(* managers anew, whether they were killed, finished or neither.           *)
RecoverResources ==
  /\ inScene
  /\ plays < MaxPlays
  /\ plays' = plays + 1
  /\ Created
  /\ UNCHANGED <<m_system, inScene>>

(* Faulty variant: Play forgets the lives that were counted.               *)
PlayParticleSystem_KeepsRepeat(s) ==
  /\ plays < MaxPlays
  /\ plays' = plays + 1
  /\ \E draw \in [Ids(s) -> Chance] :
       particles' = [particles EXCEPT ![s] =
         [i \in Ids(s) |-> [Reset(s, draw[i]) EXCEPT !.repeat = particles[s][i].repeat]]]
  /\ finished' = [finished EXCEPT ![s] = FALSE]
  /\ killed' = [killed EXCEPT ![s] = FALSE]
  /\ lives' = [lives EXCEPT ![s] = [i \in Ids(s) |-> 0]]
  /\ UNCHANGED <<m_system, active, inScene>>

(* PlayParticleSystem: Kill(false), then Play.  The number of active       *)
(* particles is that of the last update.                                   *)
PlayParticleSystem(s) ==
  /\ plays < MaxPlays
  /\ plays' = plays + 1
  /\ \E draw \in [Ids(s) -> Chance] :
       particles' = [particles EXCEPT ![s] = [i \in Ids(s) |-> Reset(s, draw[i])]]
  /\ finished' = [finished EXCEPT ![s] = FALSE]
  /\ killed' = [killed EXCEPT ![s] = FALSE]
  /\ lives' = [lives EXCEPT ![s] = [i \in Ids(s) |-> 0]]
  /\ UNCHANGED <<m_system, active, inScene>>

KillParticleSystem(s) ==
  /\ killed' = [killed EXCEPT ![s] = TRUE]
  /\ UNCHANGED <<m_system, particles, finished, active, inScene, lives, plays>>

(* UpdateParticleSystems: one frame of all the systems of the entity.      *)
UpdateParticleSystems(time) ==
  /\ \E draw \in Draws :
       particles' = [s \in Loaded |->
                       [i \in Ids(s) |-> Updated(s, i, time, draw[s][i])]]
  /\ finished' = [s \in Loaded |-> Finishes(s)]
  /\ active' = [s \in Loaded |-> ActiveParticles(s)]
  /\ lives' = [s \in Loaded |-> [i \in Ids(s) |->
       IF ~IsDone(s, particles[s][i]) /\ IsOld(Launched(s, i, time)) /\ ~killed[s]
         THEN IF lives[s][i] < MaxRepeat THEN lives[s][i] + 1 ELSE MaxRepeat
         ELSE lives[s][i]]]
  /\ UNCHANGED <<m_system, killed, inScene, plays>>

(* UpdateAlwaysActiveEntities: the particles are asked before the update,  *)
(* so a script may still play them in the frame they end in.               *)
RemoveFinishedTemporaryEntity ==
  /\ inScene
  /\ IsTemporary
  /\ AreParticlesOver
  /\ inScene' = FALSE
  /\ UNCHANGED <<m_system, particles, finished, killed, active, lives, plays>>

UpdateEntity ==
  /\ inScene
  /\ ~(IsTemporary /\ AreParticlesOver)
  /\ \E time \in Time : UpdateParticleSystems(time)

Frame == RemoveFinishedTemporaryEntity \/ UpdateEntity

Next ==
  \/ Frame
  \/ RecoverResources
  \/ \E s \in Loaded : PlayParticleSystem(s) \/ KillParticleSystem(s)

ParticlesSafety == ParticlesInit /\ [][Next]_vars

(* The entity is in the list of active entities: each frame updates it.    *)
ParticlesSpec == ParticlesSafety /\ WF_vars(Frame)

-------------------------------------------------------------------------------

(* Each variable has its type; in particular the light of the entity is    *)
(* never brighter than full: no more particles are active than there are.  *)
ParticlesTypeOK ==
  /\ m_system \in [Slot -> System]
  /\ DOMAIN particles = Loaded
  /\ \A s \in Loaded :
       particles[s] \in
         [Ids(s) -> [released : BOOLEAN, repeat : 0 .. MaxRepeat,
                     elapsed : 0 .. MaxElapsed, lifeTime : Int]]
  /\ finished \in [Loaded -> BOOLEAN]
  /\ killed \in [Loaded -> BOOLEAN]
  /\ active \in [Loaded -> Nat]
  /\ \A s \in Loaded : active[s] <= m_system[s].nParticles
  /\ inScene \in BOOLEAN
  /\ DOMAIN lives = Loaded
  /\ \A s \in Loaded : lives[s] \in [Ids(s) -> 0 .. MaxRepeat]
  /\ plays \in 0 .. MaxPlays

(* "A particle system is finished when its repeat count reaches the end":  *)
(* one that is finished, and was not killed, has shown every particle as   *)
(* often as it repeats, since it was last played.                          *)
FinishedLivedAll ==
  \A s \in Loaded : finished[s] /\ ~killed[s] =>
    ~IsEndless(s) /\ \A i \in Ids(s) : lives[s][i] = m_system[s].repeat

LivesOf(s, ids) == {<<i, particles[s][i].repeat>> : i \in ids}

Waiting(s) == {i \in Ids(s) : ~particles[s][i].released}

(* What the scripts of the entity see of each system: which of its        *)
(* particles are drawn, in which of their lives.                          *)
Effect == INSTANCE ETHEffect WITH
  Life <- Nat \X Nat,
  state <- [s \in Slot |-> IF s \notin Loaded \/ finished[s] THEN "over"
                           ELSE IF killed[s] THEN "killed" ELSE "playing"],
  visible <- [s \in Slot |-> IF s \in Loaded THEN LivesOf(s, Visible(s)) ELSE {}],
  unseen <- [s \in Slot |-> IF s \in Loaded THEN LivesOf(s, Waiting(s)) ELSE {}]

(* Each system keeps the promises of ETHEffect: when it is over nothing is *)
(* drawn until it is played again, and killing it gives nobody who has     *)
(* lived another life.                                                     *)
ImplementsEffect == Effect!Spec

(* "Kill the particle system by avoiding new particles to be launched"     *)
(* (ETHParticleManager.h): while a system stays killed, whoever waits to   *)
(* be launched goes on waiting.  UpdateParticleSystem launches particles   *)
(* without asking whether the system was killed.                           *)
KilledLaunchesNone ==
  [][\A s \in Loaded : killed[s] /\ killed'[s] => Waiting(s) \subseteq Waiting(s)']_vars

(* A temporary effect leaves the scene in the end, also when it is killed  *)
(* on the way; unless none of its systems could be loaded.                 *)
TemporaryGoesAway == IsTemporary /\ Loaded # {} ~> ~inScene

(* The light of an entity whose particles are killed goes out, also when   *)
(* the particles would have gone on for ever.                              *)
KilledFadesOut ==
  \A s \in Slot :
    <>[](s \in Loaded => killed[s]) => <>[](s \in Loaded /\ inScene => active[s] = 0)

===============================================================================
