SPECIFICATION SceneSpec
CONSTANTS
  hero = hero
  prop = prop
  effect = effect
  Entity <- HeroProp
  Position = {1, 2}
  BucketSize = 2
  FileId = {}
  MaxRequests = 2
  Static <- Prop
  Scripted <- HeroProp
  Body <- Hero
  Particles = {}
  Spriteless = {}
  Views <- MCViews
  Calls = {"AddEntity", "SetPosition", "DeleteEntity", "ForceEntityRendering", "Hide", "SetScaleFactor", "handles"}
  Factors = {2}
  MaxForced = 1
INVARIANTS
  RefExact
  TestEntityLists
  UpdatedOnce
  FrameStartsClean
PROPERTIES
  SettledForcedDrawnOnce
  ImplementsIndex
