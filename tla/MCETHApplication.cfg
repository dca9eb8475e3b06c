SPECIFICATION ApplicationSpec
CONSTANTS
  menu = menu
  level = level
  e1 = e1
  e2 = e2
  Scene <- MCScene
  NoScene = NoScene
  Entity <- MCEntity
  Lightmaps <- MCLightmaps
  MaxDevices = 2
  MaxDrawables = 3
INVARIANTS
  LightmapOfOwnScene
  ResourcesRecovered
  TopLayerInOrder
  RestartFindsScene
