SPECIFICATION FairSpec
CONSTANTS
  NoFile = NoFile
  Garbage = Garbage
  Images <- MCImages
  Prefix <- MCPrefix
  HwNames <- MCHwNames
  Factory <- MCFactory
  Deliverable <- BootKinds
  DowngradePrevention = TRUE
  NChunks = 3
  InfoChunk = 2
  MaxCuts = 1
  MaxFaults = 1
  MaxUploads = 3
PROPERTIES
  Settles
  PrimaryGetsUpdated
