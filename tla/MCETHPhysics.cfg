SPECIFICATION PhysicsSpec
CONSTANTS
  hero = hero
  crate = crate
  coin = coin
  none = none
  NoContact = none
  Entity <- MCEntity
  BeginCallback <- MCHeroCoin
  PreSolveCallback <- MCHeroCrate
  EndCallback <- MCHero
  Sensor <- MCCoin
  JointDefinition <- MCJoints
  MaxStacked = 2
  Calls = {}
INVARIANTS
  PhysicsTypeOK
  RefExact
  WorldIsSound
  DisabledAsAsked
  CallbacksMatch
  JointsInSync
  NothingOutlivesScene
PROPERTIES
  CallbackHasBody
  EndsAreServed
