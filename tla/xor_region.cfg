SPECIFICATION Spec
CONSTANTS
  Targets <- MCTargets
  Regions <- MCRegions
  Masks <- MCMasks
  Sizes <- MCSizes
  Addresses <- MCAddresses
INVARIANTS
  EachByteOnce
  AlignedScalars
PROPERTIES
  Returns
