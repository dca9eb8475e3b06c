----------------------- MODULE ETHParticleManager_proofs -----------------------
(***************************************************************************)
(* The particle systems of an entity keep their types, a finished one has  *)
(* shown all it should, and each keeps the promises of ETHEffect: for any  *)
(* systems, any frame times and any lives the particles are given.         *)
(***************************************************************************)
EXTENDS ETHParticleManager, FiniteSetTheorems, TLAPS

Particle == [released : BOOLEAN, repeat : 0 .. MaxRepeat, elapsed : 0 .. MaxElapsed,
             lifeTime : Int]

(* The lives that are counted in a particle are those it has lived, up to  *)
(* the number its system has; a finished system has only such as are done. *)
ParticleOK(s, i) ==
  /\ ~IsEndless(s) => particles[s][i].repeat <= m_system[s].repeat
  /\ ~killed[s] => lives[s][i] = particles[s][i].repeat
  /\ finished[s] => IsDone(s, particles[s][i])

ParticlesInv ==
  /\ ParticlesTypeOK
  /\ \A s \in Loaded : \A i \in Ids(s) : ParticleOK(s, i)

LEMMA LifeTimeType ==
  ASSUME ParticlesTypeOK, NEW s \in Loaded, NEW chance \in Chance
  PROVE  LifeTime(s, chance) \in Int
<1>1. m_system[s] \in System
  BY DEF ParticlesTypeOK, Loaded
<1>2. m_system[s].lifeTime \in Int /\ m_system[s].randomizeLifeTime \in Int
  BY <1>1, SystemAssumption
<1>3. chance \in Int
  BY BoundsAssumption
<1>4. QED
  BY <1>2, <1>3 DEF LifeTime

LEMMA SystemTypes ==
  ASSUME ParticlesTypeOK, NEW s \in Loaded
  PROVE  /\ m_system[s].nParticles \in Nat \ {0}
         /\ m_system[s].nParticles <= MaxParticles
         /\ m_system[s].repeat \in 0 .. MaxRepeat
         /\ Ids(s) \subseteq 0 .. MaxParticles - 1
<1>1. m_system[s] \in System
  BY DEF ParticlesTypeOK, Loaded
<1>2. m_system[s].nParticles > 0
  BY DEF Loaded, Loads
<1>3. QED
  BY <1>1, <1>2, SystemAssumption, BoundsAssumption DEF Ids

(* A particle that is launched, grows older and lives again is one.        *)
LEMMA GrowsType ==
  ASSUME NEW particle \in Particle, NEW time \in Time
  PROVE  /\ Grows(particle, time) \in Particle
         /\ Grows(particle, time).repeat = particle.repeat
         /\ Grows(particle, time).released = particle.released
         /\ Grows(particle, time).lifeTime = particle.lifeTime
         /\ particle.elapsed <= Grows(particle, time).elapsed
BY BoundsAssumption DEF Grows, Particle

LEMMA ElapsedSet ==
  ASSUME NEW particle \in Particle
  PROVE  LET new == [particle EXCEPT !.elapsed = 0]
         IN  /\ new \in Particle /\ new.repeat = particle.repeat
             /\ new.lifeTime = particle.lifeTime /\ new.released = particle.released
             /\ new.elapsed = 0
BY BoundsAssumption DEF Particle

LEMMA ReleasedSet ==
  ASSUME NEW particle \in Particle
  PROVE  LET new == [particle EXCEPT !.released = TRUE]
         IN  /\ new \in Particle /\ new.repeat = particle.repeat
             /\ new.lifeTime = particle.lifeTime /\ new.released
             /\ new.elapsed = particle.elapsed
BY BoundsAssumption DEF Particle

LEMMA LifeTimeSet ==
  ASSUME NEW particle \in Particle, NEW t \in Int
  PROVE  LET new == [particle EXCEPT !.lifeTime = t]
         IN  /\ new \in Particle /\ new.repeat = particle.repeat
             /\ new.released = particle.released /\ new.elapsed = particle.elapsed
             /\ new.lifeTime = t
BY BoundsAssumption DEF Particle

LEMMA ReleasedType ==
  ASSUME NEW particle \in Particle, NEW s, NEW i
  PROVE  /\ Released(s, i, particle) \in Particle
         /\ Released(s, i, particle).repeat = particle.repeat
         /\ Released(s, i, particle).lifeTime = particle.lifeTime
         /\ particle.released => Released(s, i, particle) = particle
<1>1. CASE ~particle.released /\ IsTurn(s, i, particle)
  <2> DEFINE started == [particle EXCEPT !.elapsed = 0]
  <2>1. /\ started \in Particle /\ started.repeat = particle.repeat
        /\ started.lifeTime = particle.lifeTime
    BY ElapsedSet
  <2>2. Released(s, i, particle) = [started EXCEPT !.released = TRUE]
    BY <1>1 DEF Released
  <2> HIDE DEF started
  <2>3. QED
    BY <1>1, <2>1, <2>2, ReleasedSet
<1>2. CASE ~(~particle.released /\ IsTurn(s, i, particle))
  BY <1>2 DEF Released
<1>3. QED
  BY <1>1, <1>2

LEMMA LivesAgainType ==
  ASSUME NEW particle \in Particle
  PROVE  /\ LivesAgain(particle) \in Particle
         /\ LivesAgain(particle).released = particle.released
         /\ LivesAgain(particle).lifeTime = particle.lifeTime
         /\ LivesAgain(particle).elapsed = particle.elapsed
         /\ LivesAgain(particle).repeat =
              IF particle.repeat < MaxRepeat THEN particle.repeat + 1 ELSE particle.repeat
BY BoundsAssumption DEF LivesAgain, Particle

(* What an update makes of a particle.                                     *)
LEMMA UpdatedParticle ==
  ASSUME ParticlesTypeOK, NEW s \in Loaded, NEW i \in Ids(s), NEW time \in Time,
         NEW chance \in Chance
  PROVE  LET old == particles[s][i]
             grown == Launched(s, i, time)
             new == Updated(s, i, time, chance)
         IN  /\ old \in Particle /\ grown \in Particle /\ new \in Particle
             /\ grown.repeat = old.repeat /\ grown.lifeTime = old.lifeTime
             /\ old.released => grown.released /\ old.elapsed <= grown.elapsed
             /\ IsDone(s, old) => new = old
             /\ ~IsDone(s, old) /\ ~IsOld(grown) => new = grown
             /\ ~IsDone(s, old) /\ IsOld(grown) =>
                  /\ new.released
                  /\ new.repeat = LivesAgain(old).repeat
                  /\ killed[s] => new.elapsed > new.lifeTime
                  /\ ~killed[s] => new.elapsed = 0 /\ new.lifeTime = LifeTime(s, chance)
<1> DEFINE old == particles[s][i]
<1> DEFINE grows == Grows(old, time)
<1> DEFINE grown == Launched(s, i, time)
<1> DEFINE new == Updated(s, i, time, chance)
<1>1. old \in Particle
  BY DEF ParticlesTypeOK, Particle
<1>2. /\ grows \in Particle /\ grows.repeat = old.repeat /\ grows.released = old.released
      /\ grows.lifeTime = old.lifeTime /\ old.elapsed <= grows.elapsed
  BY <1>1, GrowsType
<1>3. grown = Released(s, i, grows)
  BY DEF Launched
<1> HIDE DEF grows
<1>4. /\ grown \in Particle /\ grown.repeat = grows.repeat /\ grown.lifeTime = grows.lifeTime
      /\ grows.released => grown = grows
  BY <1>2, <1>3, ReleasedType
<1>5. new = IF IsDone(s, old) THEN old ELSE Ends(s, grown, chance)
  BY DEF Updated
<1> HIDE DEF grown, new, old
<1>6. CASE ~IsOld(grown)
  <2>1. Ends(s, grown, chance) = grown
    BY <1>6 DEF Ends
  <2>2. QED
    BY <1>1, <1>2, <1>4, <1>5, <1>6, <2>1 DEF grown, new, old
<1>7. CASE IsOld(grown)
  <2> DEFINE again == LivesAgain(grown)
  <2>1. /\ again \in Particle /\ again.released /\ again.lifeTime = grown.lifeTime
        /\ again.elapsed = grown.elapsed
        /\ again.repeat = LivesAgain(old).repeat
    BY <1>1, <1>2, <1>4, <1>7, LivesAgainType DEF IsOld
  <2>2. LifeTime(s, chance) \in Int
    BY LifeTimeType
  <2> HIDE DEF again
  <2>3. CASE killed[s]
    <3>1. Ends(s, grown, chance) = again
      BY <1>7, <2>3 DEF Ends, again
    <3>2. again.elapsed > again.lifeTime
      BY <1>7, <2>1 DEF IsOld
    <3>3. QED
      BY <1>1, <1>2, <1>4, <1>5, <1>7, <2>1, <2>3, <3>1, <3>2 DEF grown, new, old
  <2>4. CASE ~killed[s]
    <3> DEFINE young == [again EXCEPT !.elapsed = 0]
    <3> DEFINE fresh == [young EXCEPT !.lifeTime = LifeTime(s, chance)]
    <3>1. Ends(s, grown, chance) = fresh
      BY <1>7, <2>4 DEF Ends, again
    <3>2. /\ young \in Particle /\ young.released = again.released
          /\ young.repeat = again.repeat /\ young.elapsed = 0
      BY <2>1, ElapsedSet
    <3> HIDE DEF young
    <3>3. /\ fresh \in Particle /\ fresh.released = young.released
          /\ fresh.repeat = young.repeat /\ fresh.elapsed = young.elapsed
          /\ fresh.lifeTime = LifeTime(s, chance)
      BY <2>2, <3>2, LifeTimeSet
    <3> HIDE DEF fresh
    <3>4. QED
      BY <1>1, <1>2, <1>4, <1>5, <1>7, <2>1, <2>4, <3>1, <3>2, <3>3 DEF grown, new, old
  <2>5. QED
    BY <2>3, <2>4
<1>8. QED
  BY <1>6, <1>7

-------------------------------------------------------------------------------
(* The invariant, slot by slot                                             *)

(* What ParticlesInv says of one slot.                                     *)
SlotOK(s) ==
  /\ particles[s] \in [Ids(s) -> Particle]
  /\ finished[s] \in BOOLEAN
  /\ killed[s] \in BOOLEAN
  /\ active[s] \in Nat
  /\ active[s] <= m_system[s].nParticles
  /\ lives[s] \in [Ids(s) -> 0 .. MaxRepeat]
  /\ \A i \in Ids(s) : ParticleOK(s, i)

(* What ParticlesTypeOK says of the slots together.                        *)
SlotsTyped ==
  /\ m_system \in [Slot -> System]
  /\ DOMAIN particles = Loaded
  /\ finished \in [Loaded -> BOOLEAN]
  /\ killed \in [Loaded -> BOOLEAN]
  /\ active \in [Loaded -> Nat]
  /\ inScene \in BOOLEAN
  /\ DOMAIN lives = Loaded
  /\ plays \in 0 .. MaxPlays

LEMMA InvBySlots == ParticlesInv <=> SlotsTyped /\ \A s \in Loaded : SlotOK(s)
<1>1. ASSUME ParticlesInv
      PROVE  SlotsTyped /\ \A s \in Loaded : SlotOK(s)
  BY <1>1 DEF ParticlesInv, ParticlesTypeOK, SlotsTyped, SlotOK, Particle
<1>2. ASSUME SlotsTyped, \A s \in Loaded : SlotOK(s)
      PROVE  ParticlesInv
  BY <1>2 DEF ParticlesInv, ParticlesTypeOK, SlotsTyped, SlotOK, Particle
<1>3. QED
  BY <1>1, <1>2

LEMMA InvBySlotsNext ==
  ASSUME SlotsTyped', \A s \in Loaded' : SlotOK(s)'
  PROVE  ParticlesInv'
BY DEF ParticlesInv, ParticlesTypeOK, SlotsTyped, SlotOK, Particle

LEMMA ResetParticle ==
  ASSUME ParticlesTypeOK, NEW s \in Loaded, NEW chance \in Chance
  PROVE  /\ Reset(s, chance) \in Particle
         /\ Reset(s, chance).repeat = 0
         /\ ~Reset(s, chance).released
<1>1. LifeTime(s, chance) \in Int
  BY LifeTimeType
<1>2. QED
  BY <1>1, BoundsAssumption DEF Reset, Particle

(* The active particles of a system are some of its particles.             *)
LEMMA ActiveAreParticles ==
  ASSUME ParticlesTypeOK, NEW s \in Loaded
  PROVE  ActiveParticles(s) \in Nat /\ ActiveParticles(s) <= m_system[s].nParticles
<1> DEFINE n == m_system[s].nParticles
<1> DEFINE actives == {i \in Ids(s) : IsActive(s, particles[s][i])}
<1>1. n \in Nat \ {0}
  BY SystemTypes
<1>2. Ids(s) = 0 .. n - 1
  BY DEF Ids
<1>3. actives \subseteq Ids(s)
  OBVIOUS
<1>4. ActiveParticles(s) = Cardinality(actives)
  BY DEF ActiveParticles
<1> HIDE DEF n, actives
<1>5. IsFiniteSet(Ids(s)) /\ Cardinality(Ids(s)) = n
  BY <1>1, <1>2, FS_Interval
<1>6. IsFiniteSet(actives) /\ Cardinality(actives) <= Cardinality(Ids(s))
  BY <1>3, <1>5, FS_Subset
<1>7. Cardinality(actives) \in Nat
  BY <1>6, FS_CardinalityType
<1>8. QED
  BY <1>4, <1>5, <1>6, <1>7 DEF n

(* A system that begins again is as good as new.                           *)
LEMMA ResetSlot ==
  ASSUME ParticlesTypeOK, NEW s \in Loaded, NEW draw,
         \A i \in Ids(s) : draw[i] \in Chance,
         m_system' = m_system,
         particles'[s] = [i \in Ids(s) |-> Reset(s, draw[i])],
         finished'[s] = FALSE,
         killed'[s] = FALSE,
         lives'[s] = [i \in Ids(s) |-> 0],
         active'[s] \in Nat,
         active'[s] <= m_system[s].nParticles
  PROVE  SlotOK(s)'
<1>1. Ids(s)' = Ids(s) /\ IsEndless(s)' = IsEndless(s)
  BY DEF Ids, IsEndless
<1>2. \A i \in Ids(s) : particles'[s][i] \in Particle /\ particles'[s][i].repeat = 0
  BY ResetParticle
<1>3. particles'[s] \in [Ids(s) -> Particle]
  BY <1>2
<1>4. lives'[s] \in [Ids(s) -> 0 .. MaxRepeat]
  BY BoundsAssumption
<1>5. m_system[s].repeat \in 0 .. MaxRepeat
  BY SystemTypes
<1>6. \A i \in Ids(s) : ParticleOK(s, i)'
  BY <1>2, <1>5, BoundsAssumption DEF ParticleOK
<1>7. QED
  BY <1>1, <1>3, <1>4, <1>6 DEF SlotOK

(* A slot that nothing happens to remains as it is.                        *)
LEMMA SameSlot ==
  ASSUME NEW s, SlotOK(s),
         m_system' = m_system,
         particles'[s] = particles[s], finished'[s] = finished[s],
         killed'[s] = killed[s] \/ killed'[s] = TRUE,
         active'[s] = active[s], lives'[s] = lives[s]
  PROVE  SlotOK(s)'
<1>1. Ids(s)' = Ids(s) /\ IsEndless(s)' = IsEndless(s)
  BY DEF Ids, IsEndless
<1>2. \A i \in Ids(s) : ParticleOK(s, i)'
  <2> TAKE i \in Ids(s)
  <2>1. ParticleOK(s, i)
    BY DEF SlotOK
  <2>2. IsDone(s, particles[s][i]) => IsDone(s, particles[s][i])'
    BY <1>1 DEF IsDone
  <2>3. killed'[s] = killed[s] \/ killed'[s]
    OBVIOUS
  <2>4. QED
    BY <1>1, <2>1, <2>2, <2>3 DEF ParticleOK
<1>3. killed'[s] \in BOOLEAN
  BY DEF SlotOK
<1>4. QED
  BY <1>1, <1>2, <1>3 DEF SlotOK

(* An update of a system that is not killed counts the lives it ends.      *)
LivesOn(s, i, time) ==
  IF ~IsDone(s, particles[s][i]) /\ IsOld(Launched(s, i, time)) /\ ~killed[s]
    THEN IF lives[s][i] < MaxRepeat THEN lives[s][i] + 1 ELSE MaxRepeat
    ELSE lives[s][i]

(* A frame keeps the counts of each particle of a system in step.          *)
LEMMA UpdateParticle ==
  ASSUME ParticlesTypeOK, NEW s \in Loaded, SlotOK(s), NEW i \in Ids(s), NEW time \in Time,
         NEW chance \in Chance,
         m_system' = m_system, killed'[s] = killed[s],
         particles'[s][i] = Updated(s, i, time, chance),
         lives'[s][i] = LivesOn(s, i, time),
         finished'[s] = Finishes(s)
  PROVE  /\ particles'[s][i] \in Particle
         /\ lives'[s][i] \in 0 .. MaxRepeat
         /\ ParticleOK(s, i)'
<1> DEFINE old == particles[s][i]
<1> DEFINE grown == Launched(s, i, time)
<1> DEFINE new == Updated(s, i, time, chance)
<1>1. /\ old \in Particle /\ new \in Particle /\ grown.repeat = old.repeat
      /\ IsDone(s, old) => new = old
      /\ ~IsDone(s, old) /\ ~IsOld(grown) => new = grown
      /\ ~IsDone(s, old) /\ IsOld(grown) => new.repeat = LivesAgain(old).repeat
  BY UpdatedParticle
<1>2. particles'[s][i] = new
  OBVIOUS
<1>3. lives'[s][i] = IF ~IsDone(s, old) /\ IsOld(grown) /\ ~killed[s]
                       THEN IF lives[s][i] < MaxRepeat THEN lives[s][i] + 1 ELSE MaxRepeat
                       ELSE lives[s][i]
  BY DEF LivesOn
<1>4. /\ lives[s][i] \in 0 .. MaxRepeat
      /\ ~IsEndless(s) => old.repeat <= m_system[s].repeat
      /\ ~killed[s] => lives[s][i] = old.repeat
  BY DEF SlotOK, ParticleOK
<1>5. finished'[s] => IsDone(s, old)
  BY DEF Finishes
<1>6. IsEndless(s)' = IsEndless(s)
  BY DEF IsEndless
<1>7. LivesAgain(old).repeat = IF old.repeat < MaxRepeat THEN old.repeat + 1 ELSE old.repeat
  BY <1>1, LivesAgainType
<1>8. m_system[s].repeat \in 0 .. MaxRepeat
  BY SystemTypes
<1>9. IsDone(s, old) <=> ~IsEndless(s) /\ old.repeat >= m_system[s].repeat
  BY DEF IsDone
<1>10. IsDone(s, particles[s][i])' <=> ~IsEndless(s) /\ new.repeat >= m_system[s].repeat
  BY <1>2, <1>6 DEF IsDone
<1>11. old.repeat \in 0 .. MaxRepeat /\ new.repeat \in 0 .. MaxRepeat
  BY <1>1 DEF Particle
<1> HIDE DEF old, grown, new
<1>12. lives'[s][i] \in 0 .. MaxRepeat
  BY <1>3, <1>4, BoundsAssumption
<1>13. ~IsEndless(s) => new.repeat <= m_system[s].repeat
  BY <1>1, <1>4, <1>7, <1>8, <1>9, <1>11, BoundsAssumption
<1>14. ~killed[s] => lives'[s][i] = new.repeat
  BY <1>1, <1>3, <1>4, <1>7, <1>11, BoundsAssumption
<1>15. finished'[s] => IsDone(s, particles[s][i])'
  BY <1>1, <1>5, <1>9, <1>10
<1>16. ParticleOK(s, i)'
  BY <1>2, <1>6, <1>13, <1>14, <1>15 DEF ParticleOK
<1>17. QED
  BY <1>1, <1>2, <1>12, <1>16

LEMMA UpdateSlot ==
  ASSUME ParticlesTypeOK, NEW s \in Loaded, SlotOK(s), NEW time \in Time,
         NEW draw, \A i \in Ids(s) : draw[i] \in Chance,
         m_system' = m_system, killed'[s] = killed[s],
         particles'[s] = [i \in Ids(s) |-> Updated(s, i, time, draw[i])],
         lives'[s] = [i \in Ids(s) |-> LivesOn(s, i, time)],
         finished'[s] = Finishes(s),
         active'[s] = ActiveParticles(s)
  PROVE  SlotOK(s)'
<1>1. Ids(s)' = Ids(s)
  BY DEF Ids
<1>2. \A i \in Ids(s) : /\ particles'[s][i] \in Particle
                        /\ lives'[s][i] \in 0 .. MaxRepeat
                        /\ ParticleOK(s, i)'
  <2> TAKE i \in Ids(s)
  <2>1. particles'[s][i] = Updated(s, i, time, draw[i]) /\ lives'[s][i] = LivesOn(s, i, time)
    OBVIOUS
  <2>2. draw[i] \in Chance
    OBVIOUS
  <2>3. QED
    BY <2>1, <2>2, UpdateParticle
<1>3. particles'[s] \in [Ids(s) -> Particle] /\ lives'[s] \in [Ids(s) -> 0 .. MaxRepeat]
  BY <1>2
<1>4. finished'[s] \in BOOLEAN
  BY DEF Finishes
<1>5. ActiveParticles(s) \in Nat /\ ActiveParticles(s) <= m_system[s].nParticles
  BY ActiveAreParticles
<1>6. killed'[s] \in BOOLEAN
  BY DEF SlotOK
<1>7. QED
  BY <1>1, <1>2, <1>3, <1>4, <1>5, <1>6 DEF SlotOK

-------------------------------------------------------------------------------
(* The steps                                                               *)

LEMMA DrawsChances ==
  ASSUME ParticlesTypeOK, NEW s \in Loaded, NEW draw \in Draws
  PROVE  \A i \in Ids(s) : draw[s][i] \in Chance
<1>1. Ids(s) \subseteq 0 .. MaxParticles - 1
  BY SystemTypes
<1>2. s \in Slot
  BY DEF Loaded
<1>3. QED
  BY <1>1, <1>2 DEF Draws

LEMMA InitInv == ParticlesInit => ParticlesInv
<1> SUFFICES ASSUME ParticlesInit PROVE ParticlesInv
  OBVIOUS
<1>1. PICK draw \in Draws : particles = [s \in Loaded |-> [i \in Ids(s) |-> Reset(s, draw[s][i])]]
  BY DEF ParticlesInit
<1>2. /\ m_system \in [Slot -> System]
      /\ finished = [s \in Loaded |-> FALSE]
      /\ killed = [s \in Loaded |-> FALSE]
      /\ active = [s \in Loaded |-> IF m_system[s].allAtOnce THEN m_system[s].nParticles ELSE 0]
      /\ lives = [s \in Loaded |-> [i \in Ids(s) |-> 0]]
      /\ inScene = TRUE /\ plays = 0
  BY DEF ParticlesInit
<1>3. ASSUME NEW s \in Loaded
      PROVE  SlotOK(s)
  <2>1. m_system[s] \in System /\ m_system[s].nParticles > 0 /\ s \in Slot
    BY <1>2 DEF Loaded, Loads
  <2>2. /\ m_system[s].nParticles \in Nat /\ m_system[s].repeat \in 0 .. MaxRepeat
        /\ m_system[s].lifeTime \in Int /\ m_system[s].randomizeLifeTime \in Int
        /\ m_system[s].nParticles <= MaxParticles
    BY <2>1, SystemAssumption, BoundsAssumption
  <2>3. \A i \in Ids(s) : draw[s][i] \in Chance
    BY <2>1, <2>2, BoundsAssumption DEF Draws, Ids
  <2>4. \A i \in Ids(s) : LifeTime(s, draw[s][i]) \in Int
    <3> TAKE i \in Ids(s)
    <3> DEFINE chance == draw[s][i]
    <3>1. chance \in Chance
      BY <2>3
    <3> HIDE DEF chance
    <3>2. chance \in Int
      BY <3>1, BoundsAssumption
    <3>3. QED
      BY <2>2, <3>2 DEF LifeTime, chance
  <2>5. \A i \in Ids(s) : particles[s][i] \in Particle /\ particles[s][i].repeat = 0
    BY <1>1, <2>4, BoundsAssumption DEF Reset, Particle
  <2>6. particles[s] = [i \in Ids(s) |-> Reset(s, draw[s][i])]
    BY <1>1
  <2>7. particles[s] \in [Ids(s) -> Particle]
    BY <2>5, <2>6
  <2>8. lives[s] \in [Ids(s) -> 0 .. MaxRepeat] /\ \A i \in Ids(s) : lives[s][i] = 0
    BY <1>2, BoundsAssumption
  <2>9. active[s] \in Nat /\ active[s] <= m_system[s].nParticles
    BY <1>2, <2>2
  <2>10. \A i \in Ids(s) : ParticleOK(s, i)
    BY <1>2, <2>2, <2>5, <2>8 DEF ParticleOK
  <2>11. finished[s] = FALSE /\ killed[s] = FALSE
    BY <1>2
  <2>12. QED
    BY <2>7, <2>8, <2>9, <2>10, <2>11 DEF SlotOK
<1>4. active \in [Loaded -> Nat]
  <2>1. \A s \in Loaded : active[s] \in Nat
    BY <1>3 DEF SlotOK
  <2>2. QED
    BY <1>2, <2>1
<1>5. SlotsTyped
  BY <1>1, <1>2, <1>4, BoundsAssumption DEF SlotsTyped
<1>6. QED
  BY <1>3, <1>5, InvBySlots

(* One lemma for each action.                                              *)
LEMMA RecoverInv == ParticlesInv /\ RecoverResources => ParticlesInv'
<1> SUFFICES ASSUME ParticlesInv, RecoverResources PROVE ParticlesInv'
  OBVIOUS
<1>1. ParticlesTypeOK /\ SlotsTyped
  BY InvBySlots DEF ParticlesInv
<1>2. m_system' = m_system /\ inScene' = inScene /\ plays < MaxPlays /\ plays' = plays + 1
  BY DEF RecoverResources
<1>3. Loaded' = Loaded
  BY <1>2 DEF Loaded, Loads
<1>4. PICK draw \in Draws : particles' = [s \in Loaded |-> [i \in Ids(s) |-> Reset(s, draw[s][i])]]
  BY DEF RecoverResources, Created
<1>5. /\ finished' = [s \in Loaded |-> FALSE]
      /\ killed' = [s \in Loaded |-> FALSE]
      /\ active' = [s \in Loaded |-> IF m_system[s].allAtOnce THEN m_system[s].nParticles ELSE 0]
      /\ lives' = [s \in Loaded |-> [i \in Ids(s) |-> 0]]
  BY DEF RecoverResources, Created
<1>6. ASSUME NEW s \in Loaded
      PROVE  SlotOK(s)'
  <2> DEFINE mine == draw[s]
  <2>1. \A i \in Ids(s) : mine[i] \in Chance
    BY <1>1, DrawsChances
  <2>2. m_system[s].nParticles \in Nat
    BY <1>1, SystemTypes
  <2>3. particles'[s] = [i \in Ids(s) |-> Reset(s, mine[i])]
    BY <1>4
  <2>4. /\ finished'[s] = FALSE /\ killed'[s] = FALSE
        /\ lives'[s] = [i \in Ids(s) |-> 0]
        /\ active'[s] \in Nat /\ active'[s] <= m_system[s].nParticles
    BY <1>5, <2>2
  <2> HIDE DEF mine
  <2>5. QED
    BY <1>1, <1>2, <2>1, <2>3, <2>4, ResetSlot
<1>7. active' \in [Loaded -> Nat]
  <2>1. \A s \in Loaded : active'[s] \in Nat
    BY <1>6 DEF SlotOK
  <2>2. QED
    BY <1>5, <2>1
<1>8. SlotsTyped'
  BY <1>1, <1>2, <1>3, <1>4, <1>5, <1>7, BoundsAssumption DEF SlotsTyped
<1>9. QED
  BY <1>3, <1>6, <1>8, InvBySlotsNext

(* A step that leaves all slots but one alone.                             *)
LEMMA OneSlotInv ==
  ASSUME ParticlesInv, NEW s \in Loaded,
         UNCHANGED <<m_system, active, inScene>>,
         plays' \in 0 .. MaxPlays,
         DOMAIN particles' = Loaded, DOMAIN lives' = Loaded,
         finished' \in [Loaded -> BOOLEAN], killed' \in [Loaded -> BOOLEAN],
         \A r \in Loaded \ {s} :
           /\ particles'[r] = particles[r] /\ finished'[r] = finished[r]
           /\ killed'[r] = killed[r] /\ lives'[r] = lives[r],
         SlotOK(s)'
  PROVE  ParticlesInv'
<1>1. SlotsTyped /\ \A r \in Loaded : SlotOK(r)
  BY InvBySlots
<1>2. Loaded' = Loaded
  BY DEF Loaded, Loads
<1>3. ASSUME NEW r \in Loaded, r # s
      PROVE  SlotOK(r)'
  <2>1. SlotOK(r)
    BY <1>1
  <2>2. /\ particles'[r] = particles[r] /\ finished'[r] = finished[r]
        /\ killed'[r] = killed[r] /\ lives'[r] = lives[r]
        /\ active'[r] = active[r]
    BY <1>3
  <2>3. QED
    BY <2>1, <2>2, SameSlot
<1>4. SlotsTyped'
  BY <1>1, <1>2 DEF SlotsTyped
<1>5. QED
  BY <1>2, <1>3, <1>4, InvBySlotsNext

LEMMA PlayInv ==
  ASSUME ParticlesInv, NEW s \in Loaded, PlayParticleSystem(s)
  PROVE  ParticlesInv'
<1>1. ParticlesTypeOK /\ SlotsTyped /\ SlotOK(s)
  BY InvBySlots DEF ParticlesInv
<1>2. PICK draw \in [Ids(s) -> Chance] :
        particles' = [particles EXCEPT ![s] = [i \in Ids(s) |-> Reset(s, draw[i])]]
  BY DEF PlayParticleSystem
<1>3. /\ plays < MaxPlays /\ plays' = plays + 1
      /\ finished' = [finished EXCEPT ![s] = FALSE]
      /\ killed' = [killed EXCEPT ![s] = FALSE]
      /\ lives' = [lives EXCEPT ![s] = [i \in Ids(s) |-> 0]]
      /\ UNCHANGED <<m_system, active, inScene>>
  BY DEF PlayParticleSystem
<1>4. /\ particles'[s] = [i \in Ids(s) |-> Reset(s, draw[i])]
      /\ finished'[s] = FALSE /\ killed'[s] = FALSE
      /\ lives'[s] = [i \in Ids(s) |-> 0]
  BY <1>1, <1>2, <1>3 DEF SlotsTyped
<1>5. active'[s] \in Nat /\ active'[s] <= m_system[s].nParticles
  BY <1>1, <1>3 DEF SlotOK
<1>6. SlotOK(s)'
  BY <1>1, <1>3, <1>4, <1>5, ResetSlot
<1>7. plays' \in 0 .. MaxPlays
  BY <1>1, <1>3, BoundsAssumption DEF SlotsTyped
<1>8. /\ DOMAIN particles' = Loaded /\ DOMAIN lives' = Loaded
      /\ finished' \in [Loaded -> BOOLEAN] /\ killed' \in [Loaded -> BOOLEAN]
      /\ \A r \in Loaded \ {s} :
           /\ particles'[r] = particles[r] /\ finished'[r] = finished[r]
           /\ killed'[r] = killed[r] /\ lives'[r] = lives[r]
  BY <1>1, <1>2, <1>3 DEF SlotsTyped
<1>9. QED
  BY <1>3, <1>6, <1>7, <1>8, OneSlotInv

LEMMA KillInv ==
  ASSUME ParticlesInv, NEW s \in Loaded, KillParticleSystem(s)
  PROVE  ParticlesInv'
<1>1. SlotsTyped /\ SlotOK(s)
  BY InvBySlots
<1>2. /\ killed' = [killed EXCEPT ![s] = TRUE]
      /\ UNCHANGED <<m_system, particles, finished, active, inScene, lives, plays>>
  BY DEF KillParticleSystem
<1>3. killed'[s] = TRUE
  BY <1>1, <1>2 DEF SlotsTyped
<1>4. SlotOK(s)'
  BY <1>1, <1>2, <1>3, SameSlot
<1>5. /\ DOMAIN particles' = Loaded /\ DOMAIN lives' = Loaded
      /\ finished' \in [Loaded -> BOOLEAN] /\ killed' \in [Loaded -> BOOLEAN]
      /\ \A r \in Loaded \ {s} :
           /\ particles'[r] = particles[r] /\ finished'[r] = finished[r]
           /\ killed'[r] = killed[r] /\ lives'[r] = lives[r]
  BY <1>1, <1>2 DEF SlotsTyped
<1>6. plays' \in 0 .. MaxPlays
  BY <1>1, <1>2 DEF SlotsTyped
<1>7. QED
  BY <1>2, <1>4, <1>5, <1>6, OneSlotInv

LEMMA UpdateInv ==
  ASSUME ParticlesInv, NEW time \in Time, UpdateParticleSystems(time)
  PROVE  ParticlesInv'
<1>1. ParticlesTypeOK /\ SlotsTyped /\ \A s \in Loaded : SlotOK(s)
  BY InvBySlots DEF ParticlesInv
<1>2. UNCHANGED <<m_system, killed, inScene, plays>>
  BY DEF UpdateParticleSystems
<1>3. Loaded' = Loaded
  BY <1>2 DEF Loaded, Loads
<1>4. PICK draw \in Draws :
        particles' = [s \in Loaded |-> [i \in Ids(s) |-> Updated(s, i, time, draw[s][i])]]
  BY DEF UpdateParticleSystems
<1>5. /\ finished' = [s \in Loaded |-> Finishes(s)]
      /\ active' = [s \in Loaded |-> ActiveParticles(s)]
      /\ lives' = [s \in Loaded |-> [i \in Ids(s) |-> LivesOn(s, i, time)]]
  BY DEF UpdateParticleSystems, LivesOn
<1>6. ASSUME NEW s \in Loaded
      PROVE  SlotOK(s)'
  <2> DEFINE mine == draw[s]
  <2>1. \A i \in Ids(s) : mine[i] \in Chance
    BY <1>1, DrawsChances
  <2>2. particles'[s] = [i \in Ids(s) |-> Updated(s, i, time, mine[i])]
    BY <1>4
  <2>3. /\ finished'[s] = Finishes(s) /\ killed'[s] = killed[s]
        /\ lives'[s] = [i \in Ids(s) |-> LivesOn(s, i, time)]
        /\ active'[s] = ActiveParticles(s)
    BY <1>2, <1>5
  <2> HIDE DEF mine
  <2>4. SlotOK(s)
    BY <1>1
  <2>5. QED
    BY <1>1, <1>2, <2>1, <2>2, <2>3, <2>4, UpdateSlot
<1>7. finished' \in [Loaded -> BOOLEAN] /\ active' \in [Loaded -> Nat]
  <2>1. \A s \in Loaded : finished'[s] \in BOOLEAN /\ active'[s] \in Nat
    BY <1>6 DEF SlotOK
  <2>2. QED
    BY <1>5, <2>1
<1>8. SlotsTyped'
  BY <1>1, <1>2, <1>3, <1>4, <1>5, <1>7 DEF SlotsTyped
<1>9. QED
  BY <1>3, <1>6, <1>8, InvBySlotsNext

LEMMA StepInv == ParticlesInv /\ [Next]_vars => ParticlesInv'
<1> SUFFICES ASSUME ParticlesInv, [Next]_vars PROVE ParticlesInv'
  OBVIOUS
<1>1. CASE RecoverResources
  BY <1>1, RecoverInv
<1>2. CASE \E s \in Loaded : PlayParticleSystem(s) \/ KillParticleSystem(s)
  BY <1>2, PlayInv, KillInv
<1>3. CASE UpdateEntity
  BY <1>3, UpdateInv DEF UpdateEntity
<1>4. CASE RemoveFinishedTemporaryEntity \/ UNCHANGED vars
  <2>1. /\ UNCHANGED <<m_system, particles, finished, killed, active, lives, plays>>
        /\ inScene' = FALSE \/ inScene' = inScene
    BY <1>4 DEF RemoveFinishedTemporaryEntity, vars
  <2>2. SlotsTyped /\ \A s \in Loaded : SlotOK(s)
    BY InvBySlots
  <2>3. Loaded' = Loaded
    BY <2>1 DEF Loaded, Loads
  <2>4. \A s \in Loaded : SlotOK(s)'
    BY <2>1, <2>2, SameSlot
  <2>5. SlotsTyped'
    BY <2>1, <2>2, <2>3 DEF SlotsTyped
  <2>6. QED
    BY <2>3, <2>4, <2>5, InvBySlotsNext
<1>5. QED
  BY <1>1, <1>2, <1>3, <1>4 DEF Next, Frame

(* ParticlesTypeOK, always: in particular no more particles are counted as *)
(* active than the system has, so the light of the entity never exceeds    *)
(* its own (ETHParticleManager.cpp, UpdateParticleSystem).                 *)
THEOREM ParticlesAreCounted == ParticlesSafety => []ParticlesTypeOK
<1>1. ParticlesInit => ParticlesInv
  BY InitInv
<1>2. ParticlesInv /\ [Next]_vars => ParticlesInv'
  BY StepInv
<1>3. ParticlesInv => ParticlesTypeOK
  BY DEF ParticlesInv
<1>4. QED
  BY <1>1, <1>2, <1>3, PTL DEF ParticlesSafety

(* FinishedLivedAll, always: a system that is finished and was not killed  *)
(* has shown each particle as often as it repeats (m_finished, in          *)
(* UpdateParticleSystem).                                                  *)
THEOREM FinishedHaveLivedAll == ParticlesSafety => []FinishedLivedAll
<1>1. ParticlesInit => ParticlesInv
  BY InitInv
<1>2. ParticlesInv /\ [Next]_vars => ParticlesInv'
  BY StepInv
<1>3. ParticlesInv => FinishedLivedAll
  <2> SUFFICES ASSUME ParticlesInv, NEW s \in Loaded, finished[s], ~killed[s]
               PROVE  ~IsEndless(s) /\ \A i \in Ids(s) : lives[s][i] = m_system[s].repeat
    BY DEF FinishedLivedAll
  <2>1. ParticlesTypeOK /\ SlotOK(s)
    BY InvBySlots DEF ParticlesInv
  <2>2. 0 \in Ids(s) /\ m_system[s].repeat \in Int
    BY <2>1, SystemTypes DEF Ids
  <2>3. \A i \in Ids(s) : /\ IsDone(s, particles[s][i])
                          /\ lives[s][i] = particles[s][i].repeat
                          /\ particles[s][i].repeat <= m_system[s].repeat
                          /\ particles[s][i].repeat \in Int
    BY <2>1 DEF SlotOK, ParticleOK, Particle, IsDone
  <2>4. QED
    BY <2>2, <2>3 DEF IsDone
<1>4. QED
  BY <1>1, <1>2, <1>3, PTL DEF ParticlesSafety

-------------------------------------------------------------------------------
(* The refinement: what each step means for a slot                         *)

StateOf(s) ==
  IF s \notin Loaded \/ finished[s] THEN "over" ELSE IF killed[s] THEN "killed" ELSE "playing"

VisibleOf(s) == IF s \in Loaded THEN LivesOf(s, Visible(s)) ELSE {}

UnseenOf(s) == IF s \in Loaded THEN LivesOf(s, Waiting(s)) ELSE {}

(* The steps of ETHEffect, for one slot.                                   *)
Begins(s) == StateOf(s)' = "playing" /\ VisibleOf(s)' = {}

IsKilled(s) ==
  /\ StateOf(s)' = IF StateOf(s) = "playing" THEN "killed" ELSE StateOf(s)
  /\ VisibleOf(s)' = VisibleOf(s)
  /\ UnseenOf(s)' = UnseenOf(s)

IsFrame(s) ==
  /\ UnseenOf(s)' \subseteq UnseenOf(s)
  /\ VisibleOf(s)' \intersect UnseenOf(s)' = {}
  /\ StateOf(s)' = "over" => VisibleOf(s)' = {}

GoesOn(s) ==
  /\ StateOf(s) = "playing" /\ StateOf(s)' \in {"playing", "over"} /\ IsFrame(s)

FadesOut(s) ==
  /\ StateOf(s) = "killed" /\ StateOf(s)' \in {"killed", "over"}
  /\ VisibleOf(s)' \subseteq VisibleOf(s) \union UnseenOf(s)
  /\ IsFrame(s)

RemainsOver(s) == StateOf(s) = "over" /\ StateOf(s)' = "over" /\ VisibleOf(s)' = {}

SlotSteps(s) ==
  Begins(s) \/ IsKilled(s) \/ GoesOn(s) \/ FadesOut(s) \/ RemainsOver(s)

(* Nothing is both drawn and waiting; nothing of a finished system is      *)
(* drawn.                                                                  *)
LEMMA DrawnIsLaunched ==
  ASSUME NEW s \in Loaded
  PROVE  LivesOf(s, Visible(s)) \intersect LivesOf(s, Waiting(s)) = {}
BY DEF LivesOf, Visible, Waiting

LEMMA FinishedShowsNothing ==
  ASSUME NEW s \in Loaded, SlotOK(s), finished[s]
  PROVE  LivesOf(s, Visible(s)) = {}
<1>1. \A i \in Ids(s) : IsDone(s, particles[s][i])
  BY DEF SlotOK, ParticleOK
<1>2. Visible(s) = {}
  BY <1>1 DEF Visible
<1>3. QED
  BY <1>2 DEF LivesOf

(* No life is over as soon as it begins.                                   *)
LivesLast == \A system \in System : system.randomizeLifeTime \div 2 <= system.lifeTime

(* Unless its system was killed, no particle is past its life between two  *)
(* frames: so killing the system takes none of them away.                  *)
IsYoung(s) == ~killed[s] => \A i \in Ids(s) : ~IsOld(particles[s][i])

EffectInv == ParticlesInv /\ \A s \in Loaded : IsYoung(s)

LEMMA LifeTimePositive ==
  ASSUME LivesLast, ParticlesTypeOK, NEW s \in Loaded, NEW chance \in Chance
  PROVE  LifeTime(s, chance) >= 0
<1> DEFINE randomize == m_system[s].randomizeLifeTime
<1>1. m_system[s] \in System
  BY DEF ParticlesTypeOK, Loaded
<1>2. m_system[s].lifeTime \in Nat /\ randomize \in Nat /\ randomize \div 2 <= m_system[s].lifeTime
  BY <1>1, SystemAssumption DEF LivesLast
<1>3. chance = 0 \/ chance = 1
  BY BoundsAssumption
<1>4. randomize \div 2 \in Int
  BY <1>2
<1>5. LifeTime(s, chance) = m_system[s].lifeTime - randomize \div 2 + randomize * chance
  BY DEF LifeTime
<1>6. randomize * chance \in Nat
  BY <1>2, <1>3
<1> DEFINE half == randomize \div 2
<1> DEFINE extra == randomize * chance
<1> HIDE DEF half, extra, randomize
<1>7. half \in Int /\ extra \in Nat /\ half <= m_system[s].lifeTime
  BY <1>2, <1>4, <1>6 DEF half, extra
<1>8. LifeTime(s, chance) = m_system[s].lifeTime - half + extra
  BY <1>5 DEF half, extra
<1>9. QED
  BY <1>2, <1>7, <1>8

(* A system that begins again is young, and shows nothing.                 *)
LEMMA ResetBegins ==
  ASSUME NEW s \in Loaded, NEW draw,
         m_system' = m_system,
         particles'[s] = [i \in Ids(s) |-> Reset(s, draw[i])],
         finished'[s] = FALSE,
         killed'[s] = FALSE
  PROVE  IsYoung(s)' /\ Begins(s)
<1>1. Ids(s)' = Ids(s) /\ s \in Loaded'
  BY DEF Ids, Loaded, Loads
<1>2. \A i \in Ids(s) : ~particles'[s][i].released
  BY DEF Reset
<1>3. IsYoung(s)'
  BY <1>1, <1>2 DEF IsYoung, IsOld
<1>4. Visible(s)' = {}
  BY <1>1, <1>2 DEF Visible
<1>5. VisibleOf(s)' = {}
  BY <1>4 DEF VisibleOf, LivesOf
<1>6. StateOf(s)' = "playing"
  BY <1>1 DEF StateOf
<1>7. QED
  BY <1>3, <1>5, <1>6 DEF Begins

(* A slot that has no manager, or that a step leaves alone.                *)
LEMMA MissingRemainsOver ==
  ASSUME NEW s, s \notin Loaded, m_system' = m_system
  PROVE  RemainsOver(s)
<1>1. s \notin Loaded'
  BY DEF Loaded, Loads
<1>2. QED
  BY <1>1 DEF RemainsOver, StateOf, VisibleOf

LEMMA SameSlotSteps ==
  ASSUME NEW s \in Loaded, SlotOK(s), IsYoung(s), m_system' = m_system,
         particles'[s] = particles[s], finished'[s] = finished[s], killed'[s] = killed[s]
  PROVE  IsYoung(s)' /\ SlotSteps(s)
<1>1. /\ Ids(s)' = Ids(s) /\ s \in Loaded' /\ IsEndless(s)' = IsEndless(s)
      /\ m_system'[s].repeat = m_system[s].repeat
  BY DEF Ids, Loaded, Loads, IsEndless
<1>2. IsYoung(s)'
  BY <1>1 DEF IsYoung, IsOld
<1>3. Visible(s)' = Visible(s) /\ Waiting(s)' = Waiting(s)
  BY <1>1 DEF Visible, Waiting, IsDone
<1>4. VisibleOf(s)' = VisibleOf(s) /\ UnseenOf(s)' = UnseenOf(s)
  BY <1>1, <1>3 DEF VisibleOf, UnseenOf, LivesOf
<1>5. StateOf(s)' = StateOf(s)
  BY <1>1 DEF StateOf
<1>6. VisibleOf(s) \intersect UnseenOf(s) = {}
  BY DrawnIsLaunched DEF VisibleOf, UnseenOf
<1>7. CASE StateOf(s) = "over"
  <2>1. VisibleOf(s) = {}
    BY <1>7, FinishedShowsNothing DEF StateOf, VisibleOf
  <2>2. QED
    BY <1>2, <1>4, <1>5, <1>7, <2>1 DEF SlotSteps, RemainsOver
<1>8. CASE StateOf(s) = "killed"
  BY <1>2, <1>4, <1>5, <1>8 DEF SlotSteps, IsKilled
<1>9. CASE StateOf(s) = "playing"
  BY <1>2, <1>4, <1>5, <1>6, <1>9 DEF SlotSteps, GoesOn, IsFrame
<1>10. QED
  BY <1>7, <1>8, <1>9 DEF StateOf

LEMMA KillSteps ==
  ASSUME NEW s \in Loaded, SlotOK(s), IsYoung(s), m_system' = m_system,
         particles'[s] = particles[s], finished'[s] = finished[s], killed'[s] = TRUE
  PROVE  IsYoung(s)' /\ SlotSteps(s)
<1>1. /\ Ids(s)' = Ids(s) /\ s \in Loaded' /\ IsEndless(s)' = IsEndless(s)
      /\ m_system'[s].repeat = m_system[s].repeat
  BY DEF Ids, Loaded, Loads, IsEndless
<1>2. IsYoung(s)'
  BY DEF IsYoung
<1>3. Visible(s)' = Visible(s)
  <2>1. CASE killed[s]
    BY <1>1, <2>1 DEF Visible, IsDone
  <2>2. CASE ~killed[s]
    BY <1>1, <2>2 DEF Visible, IsDone, IsYoung, IsOld
  <2>3. QED
    BY <2>1, <2>2
<1>4. Waiting(s)' = Waiting(s)
  BY <1>1 DEF Waiting
<1>5. VisibleOf(s)' = VisibleOf(s) /\ UnseenOf(s)' = UnseenOf(s)
  BY <1>1, <1>3, <1>4 DEF VisibleOf, UnseenOf, LivesOf
<1>6. StateOf(s)' = IF StateOf(s) = "playing" THEN "killed" ELSE StateOf(s)
  BY <1>1 DEF StateOf
<1>7. QED
  BY <1>2, <1>5, <1>6 DEF SlotSteps, IsKilled

(* What a frame does to a system: its last frame draws nobody; those who   *)
(* wait have waited before; and of a killed one nobody is drawn who was    *)
(* neither drawn nor waiting.                                              *)
LEMMA FrameOfParticle ==
  ASSUME ParticlesTypeOK, NEW s \in Loaded, IsYoung(s), NEW i \in Ids(s),
         NEW time \in Time, NEW chance \in Chance,
         LivesLast, m_system' = m_system, killed'[s] = killed[s],
         particles'[s][i] = Updated(s, i, time, chance)
  PROVE  /\ ~killed[s] => ~IsOld(particles'[s][i])
         /\ ~particles'[s][i].released =>
              ~particles[s][i].released /\ particles'[s][i].repeat = particles[s][i].repeat
         /\ IsDone(s, particles[s][i]) => particles'[s][i] = particles[s][i]
         /\ killed[s] /\ i \in Visible(s)' =>
              /\ i \in Visible(s) \/ i \in Waiting(s)
              /\ particles'[s][i].repeat = particles[s][i].repeat
<1> DEFINE old == particles[s][i]
<1> DEFINE grown == Launched(s, i, time)
<1> DEFINE new == Updated(s, i, time, chance)
<1>1. /\ old \in Particle /\ new \in Particle /\ grown \in Particle
      /\ grown.repeat = old.repeat /\ grown.lifeTime = old.lifeTime
      /\ old.released => grown.released /\ old.elapsed <= grown.elapsed
      /\ IsDone(s, old) => new = old
      /\ ~IsDone(s, old) /\ ~IsOld(grown) => new = grown
      /\ ~IsDone(s, old) /\ IsOld(grown) =>
           /\ new.released
           /\ killed[s] => new.elapsed > new.lifeTime
           /\ ~killed[s] => new.elapsed = 0 /\ new.lifeTime = LifeTime(s, chance)
  BY UpdatedParticle
<1>2. particles'[s][i] = new
  OBVIOUS
<1>3. LifeTime(s, chance) \in Int /\ LifeTime(s, chance) >= 0
  BY LifeTimeType, LifeTimePositive
<1>4. ~killed[s] => ~IsOld(old)
  BY DEF IsYoung
<1>5. /\ i \in Visible(s) <=> ~IsDone(s, old) /\ old.released
                                /\ ~(killed[s] /\ old.elapsed > old.lifeTime)
      /\ i \in Waiting(s) <=> ~old.released
  BY DEF Visible, Waiting
<1>6. i \in Visible(s)' => /\ ~IsDone(s, new) /\ new.released
                           /\ ~(killed[s] /\ new.elapsed > new.lifeTime)
  BY <1>2 DEF Visible, IsDone, IsEndless
<1>7. /\ old.elapsed \in Int /\ old.lifeTime \in Int
      /\ grown.elapsed \in Int /\ grown.lifeTime \in Int
  BY <1>1 DEF Particle
<1> HIDE DEF old, grown, new
<1>8. ~killed[s] => ~IsOld(new)
  BY <1>1, <1>3, <1>4 DEF IsOld
<1>9. ~new.released => ~old.released /\ new.repeat = old.repeat
  BY <1>1
<1>10. killed[s] /\ i \in Visible(s)' =>
         /\ i \in Visible(s) \/ i \in Waiting(s)
         /\ new.repeat = old.repeat
  BY <1>1, <1>5, <1>6, <1>7
<1>11. QED
  BY <1>1, <1>2, <1>8, <1>9, <1>10 DEF old

LEMMA FrameSteps ==
  ASSUME ParticlesTypeOK, NEW s \in Loaded, SlotOK(s), IsYoung(s), LivesLast,
         NEW time \in Time, NEW draw, \A i \in Ids(s) : draw[i] \in Chance,
         m_system' = m_system, killed'[s] = killed[s],
         particles'[s] = [i \in Ids(s) |-> Updated(s, i, time, draw[i])],
         finished'[s] = Finishes(s)
  PROVE  IsYoung(s)' /\ SlotSteps(s)
<1>1. /\ Ids(s)' = Ids(s) /\ s \in Loaded' /\ IsEndless(s)' = IsEndless(s)
      /\ m_system'[s].repeat = m_system[s].repeat
  BY DEF Ids, Loaded, Loads, IsEndless
<1>2. ASSUME NEW i \in Ids(s)
      PROVE  /\ ~killed[s] => ~IsOld(particles'[s][i])
             /\ ~particles'[s][i].released =>
                  ~particles[s][i].released /\ particles'[s][i].repeat = particles[s][i].repeat
             /\ IsDone(s, particles[s][i]) => particles'[s][i] = particles[s][i]
             /\ killed[s] /\ i \in Visible(s)' =>
                  /\ i \in Visible(s) \/ i \in Waiting(s)
                  /\ particles'[s][i].repeat = particles[s][i].repeat
  <2>1. particles'[s][i] = Updated(s, i, time, draw[i]) /\ draw[i] \in Chance
    OBVIOUS
  <2>2. QED
    BY <2>1, FrameOfParticle
<1>3. IsYoung(s)'
  BY <1>1, <1>2 DEF IsYoung, IsOld
<1>4. \A i : i \in Waiting(s)' => i \in Waiting(s) /\ i \in Ids(s)
  BY <1>1, <1>2 DEF Waiting
<1>5. UnseenOf(s)' \subseteq UnseenOf(s)
  BY <1>1, <1>2, <1>4 DEF UnseenOf, LivesOf, Waiting
<1>6. VisibleOf(s)' \intersect UnseenOf(s)' = {}
  BY <1>1 DEF VisibleOf, UnseenOf, LivesOf, Visible, Waiting
<1>7. Finishes(s) => VisibleOf(s)' = {}
  <2> SUFFICES ASSUME Finishes(s) PROVE VisibleOf(s)' = {}
    OBVIOUS
  <2>1. \A i \in Ids(s) : IsDone(s, particles[s][i]) /\ particles'[s][i] = particles[s][i]
    BY <1>2 DEF Finishes
  <2>2. Visible(s)' = {}
    BY <1>1, <2>1 DEF Visible, IsDone
  <2>3. QED
    BY <2>2 DEF VisibleOf, LivesOf
<1>8. StateOf(s)' = IF Finishes(s) THEN "over" ELSE IF killed[s] THEN "killed" ELSE "playing"
  BY <1>1 DEF StateOf
<1>9. IsFrame(s)
  BY <1>5, <1>6, <1>7, <1>8 DEF IsFrame
<1>10. CASE finished[s]
  <2>1. Finishes(s)
    BY <1>10 DEF SlotOK, ParticleOK, Finishes
  <2>2. QED
    BY <1>3, <1>7, <1>8, <1>10, <2>1 DEF SlotSteps, RemainsOver, StateOf
<1>11. CASE ~finished[s] /\ ~killed[s]
  BY <1>3, <1>8, <1>9, <1>11 DEF SlotSteps, GoesOn, StateOf
<1>12. CASE ~finished[s] /\ killed[s]
  <2>1. \A i : i \in Visible(s)' => i \in Ids(s)
    BY <1>1 DEF Visible
  <2>2. VisibleOf(s)' \subseteq VisibleOf(s) \union UnseenOf(s)
    BY <1>1, <1>2, <1>12, <2>1 DEF VisibleOf, UnseenOf, LivesOf
  <2>3. QED
    BY <1>3, <1>8, <1>9, <1>12, <2>2 DEF SlotSteps, FadesOut, StateOf
<1>13. QED
  BY <1>10, <1>11, <1>12

(* Every step of the entity is a step of each of its slots.                *)
LEMMA StepSlots ==
  ASSUME LivesLast, EffectInv, [Next]_vars
  PROVE  (\A s \in Loaded : IsYoung(s)') /\ (\A s \in Slot : SlotSteps(s))
<1>1. ParticlesTypeOK /\ SlotsTyped /\ \A s \in Loaded : SlotOK(s) /\ IsYoung(s)
  BY InvBySlots DEF EffectInv, ParticlesInv
<1>2. m_system' = m_system
  BY DEF Next, Frame, RemoveFinishedTemporaryEntity, UpdateEntity, UpdateParticleSystems,
         RecoverResources, PlayParticleSystem, KillParticleSystem, vars
<1>3. \A s \in Slot \ Loaded : SlotSteps(s)
  BY <1>2, MissingRemainsOver DEF SlotSteps
<1>4. SUFFICES ASSUME NEW s \in Loaded
               PROVE  IsYoung(s)' /\ SlotSteps(s)
  BY <1>3
<1>5. SlotOK(s) /\ IsYoung(s)
  BY <1>1
<1>6. CASE RecoverResources
  <2>1. PICK draw \in Draws : particles' = [r \in Loaded |-> [i \in Ids(r) |-> Reset(r, draw[r][i])]]
    BY <1>6 DEF RecoverResources, Created
  <2> DEFINE mine == draw[s]
  <2>2. /\ particles'[s] = [i \in Ids(s) |-> Reset(s, mine[i])]
        /\ finished'[s] = FALSE /\ killed'[s] = FALSE
    BY <1>6, <2>1 DEF RecoverResources, Created
  <2> HIDE DEF mine
  <2>3. IsYoung(s)' /\ Begins(s)
    BY <1>2, <2>2, ResetBegins
  <2>4. QED
    BY <2>3 DEF SlotSteps
<1>7. CASE UpdateEntity
  <2>1. PICK time \in Time : UpdateParticleSystems(time)
    BY <1>7 DEF UpdateEntity
  <2>2. PICK draw \in Draws :
          particles' = [r \in Loaded |-> [i \in Ids(r) |-> Updated(r, i, time, draw[r][i])]]
    BY <2>1 DEF UpdateParticleSystems
  <2> DEFINE mine == draw[s]
  <2>3. \A i \in Ids(s) : mine[i] \in Chance
    BY <1>1, DrawsChances
  <2>4. /\ particles'[s] = [i \in Ids(s) |-> Updated(s, i, time, mine[i])]
        /\ finished'[s] = Finishes(s) /\ killed'[s] = killed[s]
    BY <2>1, <2>2 DEF UpdateParticleSystems
  <2> HIDE DEF mine
  <2>5. QED
    BY <1>1, <1>2, <1>5, <2>3, <2>4, FrameSteps
<1>8. CASE RemoveFinishedTemporaryEntity \/ UNCHANGED vars
  <2>1. UNCHANGED <<particles, finished, killed>>
    BY <1>8 DEF RemoveFinishedTemporaryEntity, vars
  <2>2. QED
    BY <1>2, <1>5, <2>1, SameSlotSteps
<1>9. ASSUME NEW r \in Loaded, PlayParticleSystem(r)
      PROVE  IsYoung(s)' /\ SlotSteps(s)
  <2>1. PICK draw \in [Ids(r) -> Chance] :
          particles' = [particles EXCEPT ![r] = [i \in Ids(r) |-> Reset(r, draw[i])]]
    BY <1>9 DEF PlayParticleSystem
  <2>2. /\ finished' = [finished EXCEPT ![r] = FALSE]
        /\ killed' = [killed EXCEPT ![r] = FALSE]
    BY <1>9 DEF PlayParticleSystem
  <2>3. CASE r = s
    <3>1. /\ particles'[s] = [i \in Ids(s) |-> Reset(s, draw[i])]
          /\ finished'[s] = FALSE /\ killed'[s] = FALSE
      BY <1>1, <2>1, <2>2, <2>3 DEF SlotsTyped
    <3>2. IsYoung(s)' /\ Begins(s)
      BY <1>2, <3>1, ResetBegins
    <3>3. QED
      BY <3>2 DEF SlotSteps
  <2>4. CASE r # s
    <3>1. particles'[s] = particles[s] /\ finished'[s] = finished[s] /\ killed'[s] = killed[s]
      BY <1>1, <2>1, <2>2, <2>4 DEF SlotsTyped
    <3>2. QED
      BY <1>2, <1>5, <3>1, SameSlotSteps
  <2>5. QED
    BY <2>3, <2>4
<1>10. ASSUME NEW r \in Loaded, KillParticleSystem(r)
       PROVE  IsYoung(s)' /\ SlotSteps(s)
  <2>1. killed' = [killed EXCEPT ![r] = TRUE] /\ UNCHANGED <<particles, finished>>
    BY <1>10 DEF KillParticleSystem
  <2>2. CASE r = s
    <3>1. killed'[s] = TRUE
      BY <1>1, <2>1, <2>2 DEF SlotsTyped
    <3>2. QED
      BY <1>2, <1>5, <2>1, <3>1, KillSteps
  <2>3. CASE r # s
    <3>1. killed'[s] = killed[s]
      BY <1>1, <2>1, <2>3 DEF SlotsTyped
    <3>2. QED
      BY <1>2, <1>5, <2>1, <3>1, SameSlotSteps
  <2>4. QED
    BY <2>2, <2>3
<1>11. QED
  BY <1>6, <1>7, <1>8, <1>9, <1>10 DEF Next, Frame

(* ImplementsEffect, always, if no life is over as soon as it begins: over *)
(* means that nothing is drawn until the system is played again, and Kill  *)
(* lets those on the way live out their lives and nobody else.             *)
THEOREM SystemsKeepPromises == LivesLast => (ParticlesSafety => ImplementsEffect)
<1> SUFFICES ASSUME LivesLast PROVE ParticlesSafety => ImplementsEffect
  OBVIOUS
<1>1. ParticlesInit => EffectInv
  <2> SUFFICES ASSUME ParticlesInit PROVE EffectInv
    OBVIOUS
  <2>1. ParticlesInv
    BY InitInv
  <2>2. \A s \in Loaded : \A i \in Ids(s) : ~particles[s][i].released
    BY DEF ParticlesInit, Reset
  <2>3. QED
    BY <2>1, <2>2 DEF EffectInv, IsYoung, IsOld
<1>2. EffectInv /\ [Next]_vars => EffectInv'
  <2> SUFFICES ASSUME EffectInv, [Next]_vars PROVE EffectInv'
    OBVIOUS
  <2>1. ParticlesInv'
    BY StepInv DEF EffectInv
  <2>2. \A s \in Loaded : IsYoung(s)'
    BY StepSlots
  <2>3. m_system' = m_system
    BY DEF Next, Frame, RemoveFinishedTemporaryEntity, UpdateEntity, UpdateParticleSystems,
           RecoverResources, PlayParticleSystem, KillParticleSystem, vars
  <2>4. Loaded' = Loaded
    BY <2>3 DEF Loaded, Loads
  <2>5. QED
    BY <2>1, <2>2, <2>4 DEF EffectInv
<1>3. ParticlesInit => Effect!Init
  <2> SUFFICES ASSUME ParticlesInit PROVE Effect!Init
    OBVIOUS
  <2>1. ParticlesInv
    BY InitInv
  <2>2. \A s \in Loaded : /\ finished[s] = FALSE /\ killed[s] = FALSE
                          /\ \A i \in Ids(s) : ~particles[s][i].released
    BY DEF ParticlesInit, Reset
  <2>3. \A s \in Slot : StateOf(s) \in {"playing", "over"} /\ VisibleOf(s) = {}
    BY <2>2 DEF StateOf, VisibleOf, LivesOf, Visible
  <2>4. \A s \in Slot : UnseenOf(s) \subseteq Nat \X Nat
    <3> SUFFICES ASSUME NEW s \in Loaded, NEW i \in Ids(s)
                 PROVE  i \in Nat /\ particles[s][i].repeat \in Nat
      BY DEF UnseenOf, LivesOf, Waiting
    <3>1. SlotOK(s)
      BY <2>1, InvBySlots
    <3>2. particles[s][i].repeat \in 0 .. MaxRepeat
      BY <3>1 DEF SlotOK, Particle
    <3>3. m_system[s].nParticles \in Nat
      BY <2>1, SystemTypes DEF ParticlesInv
    <3>4. QED
      BY <3>2, <3>3, BoundsAssumption DEF Ids
  <2>5. QED
    BY <2>3, <2>4 DEF Effect!Init, StateOf, VisibleOf, UnseenOf
<1>4. EffectInv /\ [Next]_vars => [Effect!Next]_(Effect!vars)
  <2> SUFFICES ASSUME EffectInv, [Next]_vars PROVE Effect!Next
    OBVIOUS
  <2> SUFFICES ASSUME NEW s \in Slot
               PROVE  \/ Effect!Play(s) \/ Effect!Kill(s) \/ Effect!Plays(s)
                      \/ Effect!Fades(s) \/ Effect!IsOver(s)
    BY DEF Effect!Next
  <2>1. SlotSteps(s)
    BY StepSlots
  <2>2. CASE Begins(s)
    BY <2>2 DEF Begins, Effect!Play, StateOf, VisibleOf
  <2>3. CASE IsKilled(s)
    BY <2>3 DEF IsKilled, Effect!Kill, StateOf, VisibleOf, UnseenOf
  <2>4. CASE GoesOn(s)
    BY <2>4 DEF GoesOn, IsFrame, Effect!Plays, Effect!Frame, StateOf, VisibleOf, UnseenOf
  <2>5. CASE FadesOut(s)
    BY <2>5 DEF FadesOut, IsFrame, Effect!Fades, Effect!Frame, StateOf, VisibleOf, UnseenOf
  <2>6. CASE RemainsOver(s)
    BY <2>6 DEF RemainsOver, Effect!IsOver, StateOf, VisibleOf
  <2>7. QED
    BY <2>1, <2>2, <2>3, <2>4, <2>5, <2>6 DEF SlotSteps
<1>5. QED
  BY <1>1, <1>2, <1>3, <1>4, PTL DEF ParticlesSafety, ImplementsEffect, Effect!Spec

===============================================================================
