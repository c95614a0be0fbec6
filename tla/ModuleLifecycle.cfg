SPECIFICATION LifeSpec
CONSTANTS
  Region <- MCRegion
  r1 = r1
  r2 = r2
  r3 = r3
SYMMETRY Regions
INVARIANTS
  ResourcesSound
  PassReleases
