SPECIFICATION SceneSpec
CONSTANTS
  hero = hero
  prop = prop
  effect = effect
  Entity <- Effect
  Position <- MCPosition
  BucketSize = 2
  FileId = {}
  MaxRequests = 2
  Static = {}
  Scripted = {}
  Body = {}
  Particles <- Effect
  Spriteless <- Effect
  Views <- MCViews
  Calls = {"AddEntity", "SetSprite"}
  Factors = {}
  MaxForced = 1
INVARIANTS
  TestEntityLists
