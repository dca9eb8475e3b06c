SPECIFICATION PhysicsSafety
CONSTANTS
  hero = hero
  crate = crate
  coin = coin
  none = none
  NoContact = none
  Entity <- MCTwo
  BeginCallback <- MCHero
  PreSolveCallback <- MCTwo
  EndCallback <- MCHero
  Sensor = {}
  JointDefinition <- MCJoints
  MaxStacked = 2
  Calls = {"DeleteInStep"}
PROPERTIES
  DestroyedUnlocked
