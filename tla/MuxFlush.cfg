CONSTANTS
  NSources = 4
  NLanes = 6
  Mask <- PairMask
SPECIFICATION FairSpec
INVARIANTS TypeOK DoneMeansCleared NoFlushLost
PROPERTIES FlushAnswered
