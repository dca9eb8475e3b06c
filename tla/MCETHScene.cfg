SPECIFICATION SceneFairSpec
CONSTANTS
  hero = hero
  prop = prop
  effect = effect
  Entity <- HeroEffect
  Position <- MCPosition
  BucketSize = 2
  FileId = {0}
  MaxRequests = 1
  Static = {}
  Scripted <- Hero
  Body <- Hero
  Particles <- Effect
  Spriteless <- Effect
  Views <- MCViews
  Calls = {"AddEntity", "SetPosition", "DeleteEntity", "SetSprite"}
  Factors = {}
  MaxForced = 1
INVARIANTS
  SceneTypeOK
  ActiveListComplete
  BucketOfFinishedExists
PROPERTIES
  EventuallyFreed
  EveryFrameEnds
  ActiveAllUpdated
