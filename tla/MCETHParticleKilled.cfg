SPECIFICATION ParticlesSafety
CONSTANTS
  Slot = {1, 2}
  System <- MCSystem
  Time = {1}
  Chance = {0, 1}
  MaxParticles = 2
  MaxElapsed = 4
  MaxRepeat = 2
  MaxPlays = 2
PROPERTIES
  KilledLaunchesNone
