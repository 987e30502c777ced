SPECIFICATION SRSpec
CONSTANTS
  NumSeeds = 6
  ZeroSeeds = {2, 5}
  MaxRotations = 5
  MaxBoots = 4
  MaxDraws = 2
INVARIANT SRTypeOK
PROPERTIES
  NoNonceTwice
  NoNonceTwiceInABoot
CHECK_DEADLOCK FALSE
